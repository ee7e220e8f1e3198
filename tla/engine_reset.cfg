SPECIFICATION FairSpec
CONSTANTS
  Threads = {t1, t2, t3}
  NoThread = NoThread
  Clients = {c1}
  Ops <- LibraryOps
  Duration = 2
INVARIANT AtMostOneLoop
INVARIANT ResetIsClean
CHECK_DEADLOCK FALSE
