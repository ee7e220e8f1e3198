\* A good job and one that cannot be parsed; the job's own budget is the smaller.
SPECIFICATION FairSpec
CONSTANTS
    Messages = {job, broken}
    QueueBudget = 2
    Workers = {w1, w2}
    Runs = {job, broken}
    RunOf <- OwnRun
    Malformed = {broken}
    Invalid = {}
    Budget = 1
    BatchSize = 2
    Absent = Absent
PROPERTIES
    JobSettles
    StopIsHonoured
CHECK_DEADLOCK FALSE
