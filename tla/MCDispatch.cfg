\* Two start requests of one org, a cancel, a refused INSERT and a restart.
CONSTANTS
  Jobs = {1, 2}
  Starts = {s1, s2}
  Cancels = {c1}
  Orgs = {o1}
  MaxConcurrent = 2
  MaxPerOrg = 1
  MaxAttempts = 1
  InsertFails = TRUE
  MaxRestarts = 1
  None = None
SPECIFICATION FairSpec
INVARIANTS  IdsAreFresh CapsHold
PROPERTY CancelledStreamCloses
CHECK_DEADLOCK FALSE
