\* Two requests at once and a comparison of two ticks.
SPECIFICATION FairSpec
CONSTANTS
    NRuns <- Pair
    Duration <- TwoTicks
    Threads = {t1, t2, t3}
    NoThread = NoThread
    Clients = {c1, c2}
    Nobody = Nobody
INVARIANTS
    TypeOK
    InStep
    FramesAreWhole
    RunningIsDriven
PROPERTIES
    ImplementsComparison
    RequestsReturn
CHECK_DEADLOCK FALSE
