CONSTANTS
  r1 = r1
  r2 = r2
  r3 = r3
  Robots <- Two
  Locations <- MCLocations
  PlanIds <- MCPlanIds
  NoPlan = NoPlan
  None = None
  MaxEnqueued = 2
  TaskIds <- TwoTasks
  Solver <- MCSolver
  Edges <- MCEdges
  Scenarios <- SingleWaves
  Ros = FALSE
  MaxTimeouts = 1
  MaxReports = 2
SPECIFICATION FairSpec
INVARIANTS NoCollision
PROPERTIES TasksEnd
CHECK_DEADLOCK FALSE
