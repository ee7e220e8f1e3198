SPECIFICATION FairSpec
CONSTANTS
  Threads = {t1, t2, t3}
  NoThread = NoThread
  Clients = {c1, c2}
  Ops <- ApiOps
  Duration = 2
INVARIANT TypeOK
INVARIANT RunningIsDriven
INVARIANT RecordAgrees
PROPERTY ImplementsLifecycle
PROPERTY ThreadsReturn
CHECK_DEADLOCK FALSE
