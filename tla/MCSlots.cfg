SPECIFICATION FairSpec
CONSTANTS
  Slots = 2
  MaxLeases = 2
INVARIANTS  StopIsSeen
PROPERTIES ShutdownEnds
CHECK_DEADLOCK FALSE
