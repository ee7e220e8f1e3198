\* A good job and one the study refuses; two workers may run the good one at once,
\* and the job's own budget is used up a delivery before the queue's.
SPECIFICATION Spec
CONSTANTS
    Messages = {job, refused}
    QueueBudget = 3
    Workers = {w1, w2}
    Runs = {job, refused}
    RunOf <- OwnRun
    Malformed = {}
    Invalid = {refused}
    Budget = 2
    BatchSize = 2
    Absent = Absent
INVARIANTS
    TypeOK
    NoJobLost
    WholeRuns
    GivenUpOnlyAfterBudget
PROPERTIES
    StoredRunSettles
CHECK_DEADLOCK FALSE
