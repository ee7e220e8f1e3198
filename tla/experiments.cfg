\* Two experiments of a user who may have one active; one resume, midnight and restart.
SPECIFICATION FairSpec
CONSTANTS
    Experiments = {e1, e2}
    Users = {u}
    Owner <- OneOwner
    Jobs = {j1, j2}
    NoJob = NoJob
    Absent = Absent
    Total = 2
    RunSeconds = 2
    DailySeconds = 6
    MaxPerUser = 1
    MaxActive = 2
    MaxStored = 2
    Days = 2
    MaxResumes = 1
    MaxRestarts = 1
INVARIANTS
    TypeOK
    UsageMatchesWork
    ActiveWithinQuota
    RunsAreCounted
PROPERTIES
    FinishedRunsAreKept
    EveryExperimentEnds
CHECK_DEADLOCK FALSE
