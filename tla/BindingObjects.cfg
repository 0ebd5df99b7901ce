SPECIFICATION Spec
CONSTANTS
  Mutators = {m1, m2}
  Callers = {c1, c2}
  Texts = {x, y}
  MaxSize = 2
  MaxVersion = 2
  Threads = {t1, t2, t3}
  MaxSets = 2
  MaxCalls = 3
  Users = {u1, u2}
  Pipelines = {p1, p2}
  Lexicons = {l1}
  MaxHandle = 3
SYMMETRY Symmetry
INVARIANTS CacheSound AttributesKept HandlesSound
CHECK_DEADLOCK FALSE
