SPECIFICATION Spec
CONSTANTS
  Separator <- Dash
  MaxLength = 4
  Wide = {}
  Bases <- Sharing
  MAX_UNIQUE_ATTEMPTS = 1
  HasCheck = FALSE
  Threads = {t1}
  NoThread = none
  MaxSlugs = 3
INVARIANTS CountersNeverAlias
