\* Every interleaving of one job's run, two cancels and a kill.
CONSTANTS
  Askers = {beat, signal}
  RunThread = runner
  NoChild = NoChild
SPECIFICATION FairProcessSpec
INVARIANTS DeliveredOnce CancelMissesNoChild LeaderIsAskedFirst NoDriverIsLeft
PROPERTY CancelEndsTheJob
CHECK_DEADLOCK FALSE
