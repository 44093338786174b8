\* Two attempts of one job, two failed exchanges, one crash.
SPECIFICATION FairSpec
CONSTANTS
  MaxAttempts = 2
  MaxLost = 2
  MaxCrashes = 1
  MaxTries = 1
  SameWorker = FALSE
INVARIANTS RunsAreKept
PROPERTIES RecordHolds
CHECK_DEADLOCK FALSE
