SPECIFICATION FairSpec
CONSTANTS
  Devices = {1, 2, 3, 4, 5}
  Plans <- AllPlans
  Scenarios = 2
  RunBudget = 1
  MaxWorkers = 2
INVARIANTS DevicesAreSound RunnersEnd 
PROPERTIES RunEnds
CHECK_DEADLOCK FALSE
