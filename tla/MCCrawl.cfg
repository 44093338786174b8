SPECIFICATION FairSpec
CONSTANTS
  Screens = {1, 2, 3}
  Ops = {"t", "a", "b", "x"}
  Setups <- AllSetups
  MaxErrors = 2
  MaxFaults = 4
  MaxRuns = 2
  MaxLanes = 2
INVARIANTS FrontierIsSound MapIsTrue StopIsTrue
PROPERTIES CrawlEnds
CHECK_DEADLOCK FALSE
