CONSTANTS
  r1 = r1
  r2 = r2
  r3 = r3
  Robots <- Three
  Locations <- MCLocations
  PlanIds <- MCPlanIds
  NoPlan = NoPlan
  MaxEnqueued = 1
  Batches <- ThreeRobotBatches
  MaxRequests = 2
  OrderedRequests = TRUE
SPECIFICATION FairSpec
INVARIANT NeverStuck
PROPERTIES CutNeverRetracts CutIsReached BatchCompletes
CHECK_DEADLOCK FALSE
