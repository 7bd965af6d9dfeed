CONSTANTS
  r1 = r1
  r2 = r2
  r3 = r3
  Robots <- Two
  Locations <- MCLocations
  PlanIds <- MCPlanIds
  NoPlan = NoPlan
  None = None
  MaxEnqueued = 2
  TaskIds <- SixTasks
  Solver <- MCSolver
  Edges <- MCEdges
  Scenarios <- OneRedirect
  Ros = FALSE
  MaxTimeouts = 0
  MaxReports = 1
SPECIFICATION Spec
INVARIANTS ServerSurvives
CHECK_DEADLOCK FALSE
