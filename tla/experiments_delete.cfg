\* A job whose experiment has ended and that has not come to its finally clause.
SPECIFICATION Spec
CONSTANTS
    Experiments = {e1, e2}
    Users = {u}
    Owner <- OneOwner
    Jobs = {j1, j2}
    NoJob = NoJob
    Absent = Absent
    Total = 2
    RunSeconds = 2
    DailySeconds = 8
    MaxPerUser = 1
    MaxActive = 2
    MaxStored = 2
    Days = 1
    MaxResumes = 0
    MaxRestarts = 0
PROPERTIES
    DeletedStaysDeleted
CHECK_DEADLOCK FALSE
