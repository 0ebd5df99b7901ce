\* A callback that runs under a poisoned gate and registers waits for its own
\* thread: the process stops there, so deadlock is not checked.
SPECIFICATION FairSpec
CHECK_DEADLOCK FALSE
CONSTANTS
  Threads = {t1, t2}
  NoThread = nobody
  Objects = {p}
  NoObject = None
  MayPanic = TRUE
  MaxDepth = 4
INVARIANTS LocksStayNative
PROPERTIES ProviderFrozen CallsReturn
