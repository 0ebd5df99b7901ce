SPECIFICATION Spec
CONSTANTS
  Threads = {t1, t2}
  NoThread = nobody
  Objects = {p}
  NoObject = None
  MayPanic = TRUE
  MaxDepth = 4
INVARIANTS NoPythonUnderGate
