\* Two threads, both tables, panics: limits, what is derived, refinement, liveness.
CONSTANTS
  l1 = l1  l2 = l2  m1 = m1  m2 = m2  k1 = k1  k2 = k2  v1 = v1  v2 = v2
  Langs = {l1, l2}
  Maps = {m1, m2}
  BadMap = BadMap
  NoMap = NoMap
  EmptyKey = EmptyKey
  Values = {v1, v2}
  Absent = Absent
  NoThread = NoThread
  MAX_REGISTERED_LANGS = 1
  Keys = {k1, k2, EmptyKey}
  MAX_REPLACEMENTS = 2
  Threads = {t1, t2}
  Calls <- MCCalls
  MayPanic = TRUE
SPECIFICATION FairSpec
INVARIANTS CapsRespected QuiescentInSync
PROPERTIES Frozen ImplementsAtomic GateReleased
