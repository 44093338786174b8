\* Two serial workers, lost messages, a crash and a cancel.
CONSTANTS
  w1 = w1
  w2 = w2
  s1 = s1
  s2 = s2
  Jobs = {1}
  Workers = {w1, w2}
  Polls = {p1, p2}
  Cancels = {c1}
  Tokens = {}
  Servable <- AllServable
  MaxAttempts = 2
  CancelAttempts = 2
  SkipLocked = FALSE
  ClockSkew = FALSE
  None = None
  Slots = {s1, s2}
  SlotWorker <- SerialWorkers
  Lossy = TRUE
  MaxCrashes = 1
SPECIFICATION FairPoolSpec
 
PROPERTIES QueuedJobEnds RenewedLeaseIsSpared
