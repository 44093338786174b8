\* Two jobs, one of whose channels is evicted, and one post at a time.
SPECIFICATION FairSpec
CONSTANTS
  Jobs = {1, 2}
  Posts = {p1}
  Viewers = {v1}
  Output <- ThreeLinesAndNone
  MaxBatch = 2
  MaxAttempts = 1
  LinesPerJob = 3
  BytesPerJob = 2
  MaxTracked = 2
  KeepClosed = 1
  Notice = Notice
  
PROPERTIES StreamsEnd
CHECK_DEADLOCK FALSE
