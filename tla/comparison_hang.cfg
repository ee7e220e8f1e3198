\* Two requests at once: one start() may find the comparison paused.
SPECIFICATION FairSpec
CONSTANTS
    NRuns <- Pair
    Duration <- TwoTicks
    Threads = {t1, t2, t3}
    NoThread = NoThread
    Clients = {c1, c2}
    Nobody = Nobody
PROPERTIES
    LockIsGivenBack
CHECK_DEADLOCK FALSE
