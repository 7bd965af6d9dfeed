CONSTANTS
  r1 = r1
  r2 = r2
  r3 = r3
  Robots <- Three
  Locations <- SixNodes
  PlanIds <- MCPlanIds
  Starts <- ThreeStarts
  Edges <- Grid3x2
  Ids <- MCIds
  Offset <- MCOffset
  Longest = 4
SPECIFICATION Spec
INVARIANTS AllVisitsOrdered BlockersAttainable SomeoneMayDepart
CHECK_DEADLOCK FALSE
