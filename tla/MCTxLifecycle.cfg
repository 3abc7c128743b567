CONSTANTS
  p1 = p1
  p2 = p2
  i1 = i1
  i2 = i2
  None = None
  Pages <- TwoPages
  Instances <- TwoInstances
  MaxRuns = 2
SYMMETRY TabsAlike
SPECIFICATION TSpec
INVARIANTS GuardHeldByLiveRun ScreenTellsChain OneRunInFlight OtherPagesTold
CHECK_DEADLOCK FALSE
