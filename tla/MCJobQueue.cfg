\* One job, every request racing every other.
CONSTANTS
  Jobs = {1}
  Workers = {w1, w2}
  Polls = {p1, p2}
  Cancels = {c1, c2}
  Tokens = {t1}
  Servable <- AllServable
  MaxAttempts = 3
  CancelAttempts = 3
  SkipLocked = TRUE
  ClockSkew = TRUE
  None = None
SPECIFICATION Spec
SYMMETRY Symmetry
INVARIANTS LeaseBudget NothingOutlivesTheLease CancelIsNeverRefusedToALiveJob AppliedCancelHolds
PROPERTIES FinishedStaysFinished ImplementsLifecycle
