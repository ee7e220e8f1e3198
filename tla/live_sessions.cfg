SPECIFICATION Spec
CONSTANTS
    k1 = k1
    k2 = k2
    Keys = {k1, k2}
    Sessions = {s1, s2}
    Runs = {r1, r2, r3}
    Clients = {c1, c2}
    Habits <- ClientHabits
    None = None
    MaxSessions = 1
    MaxConfig = 1
SYMMETRY Symmetry
VIEW InUse
INVARIANTS TypeOK StaleOnlyIfOverlapped
PROPERTIES EvictionSparesActive PinSurvives
CHECK_DEADLOCK FALSE
