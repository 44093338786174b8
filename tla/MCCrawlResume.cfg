SPECIFICATION Spec
CONSTANTS
  Screens = {1, 2, 3}
  Ops = {"t", "a", "b", "x"}
  Setups <- AllSetups
  MaxErrors = 2
  MaxFaults = 0
  MaxRuns = 2
  MaxLanes = 2
INVARIANT PlanIsWhatIsLeft
CHECK_DEADLOCK FALSE
