SPECIFICATION FairSpec
CONSTANTS
  MaxPending = 2
  MaxBatch = 2
  MaxLines = 5
  MaxFaults = 1
INVARIANTS StreamIsWhole
PROPERTIES PostsInOrder StopReturns
