\* Two mutators and one reader; a history fills one of the two tables at most.
CONSTANTS
  l1 = l1  l2 = l2  m1 = m1  m2 = m2  k1 = k1  v1 = v1
  BadMap = BadMap
  NoMap = NoMap
  EmptyKey = EmptyKey
  Values = {v1}
  Absent = Absent
  NoThread = NoThread
  Threads = {t1, t2}
  Langs = {l1, l2}
  Maps = {m1, m2}
  BuiltinLangs = {l2}
  Keys = {k1, EmptyKey}
  MAX_REGISTERED_LANGS = 1
  MAX_REPLACEMENTS = 2
  Readers = {r1}
  Calls <- MCReadCalls
  MayPanic = TRUE
SPECIFICATION CallsSpec
SYMMETRY Symmetry
INVARIANTS AnswersRegular SealedItemsAgree
CONSTRAINT OneSide
