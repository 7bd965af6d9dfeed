CONSTANTS
  r1 = r1
  r2 = r2
  r3 = r3
  Robots <- Two
  Locations <- MCLocations
  PlanIds <- MCPlanIds
  NoPlan = NoPlan
  MaxEnqueued = 2
  Batches <- TwoBatches
  MaxRequests = 2
  OrderedRequests = FALSE
SPECIFICATION Spec
INVARIANTS TypeOK IInv NoCollision VisitOrder InFlightInOrder ExecutorSurvives
PROPERTIES ReservationSpec
CHECK_DEADLOCK FALSE
