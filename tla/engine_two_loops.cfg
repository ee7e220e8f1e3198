SPECIFICATION Spec
CONSTANTS
  Threads = {t1, t2, t3}
  NoThread = NoThread
  Clients = {c1, c2}
  Ops <- ApiOps
  Duration = 3
INVARIANT AtMostOneLoop
CHECK_DEADLOCK FALSE
