CONSTANTS
  r1 = r1
  r2 = r2
  r3 = r3
  Robots <- Three
  Locations <- MCLocations
  PlanIds <- MCPlanIds
  NoPlan = NoPlan
  None = None
  MaxEnqueued = 2
  TaskIds <- SixTasks
  Solver <- MCSolver
  Edges <- MCEdges
  Scenarios <- Replans
  Ros = FALSE
  MaxTimeouts = 1
  MaxReports = 1
SPECIFICATION Spec
INVARIANTS RoutesFollowMap CutBoundsDispatch BlockersAreCurrent ProgressKeepsIncreasing PlanIdsAreFresh AnswerIsCurrent IdleIsDone EndIsRecorded
PROPERTIES DispatchedIsKept CompletedIsExecuted AddedAtRest
CHECK_DEADLOCK FALSE
