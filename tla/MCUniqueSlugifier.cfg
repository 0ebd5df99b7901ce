\* Two threads and a check, heads cut by max_length onto each other or away.
SPECIFICATION FairSpec
CONSTANTS
  Separator <- DashDash
  MaxLength = 4
  Wide = {"e acute"}
  Bases <- Crowded
  MAX_UNIQUE_ATTEMPTS = 1
  HasCheck = TRUE
  Threads = {t1, t2}
  NoThread = none
  MaxSlugs = 3
INVARIANT WalkInvariant
PROPERTIES ImplementsFullWalk CallsReturn
