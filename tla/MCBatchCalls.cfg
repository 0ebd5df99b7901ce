SPECIFICATION Spec
CONSTANTS
  a = a  b = b  hard = hard  key = key  other = other  x = x  y = y
  plain = plain  digits = digits  long = long  refused = refused
  Threads = {t1, t2}
  NoThread = NoThread
  EmptyText = EmptyText
  Texts = {a, b, hard, EmptyText}
  NotStr = NotStr
  Lists <- MCLists
  Langs = {"en"}
  NoPattern = NoPattern
  LongPatterns = {long}
  RefusedPatterns = {refused, long}
  EmptyKey = EmptyKey
  Repetitions <- MCRepetitions
  Untranslatable = {hard}
  Calls <- MCCalls
  MAX_BATCH_SIZE = 3
  BATCH_CHUNK_SIZE = 2
  REGEX_CACHE_MAX = 1
  REPLACEMENT_AUTOMATON_CACHE_MAX = 1
SYMMETRY Symmetry
INVARIANTS AnswersKept CachesSound
CONSTRAINT OneAnswer
