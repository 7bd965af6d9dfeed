CONSTANT Tolerance <- MCTolerance
CONSTANT GapTolerance <- MCGapTolerance
CONSTANT Cases <- GapCases
SPECIFICATION PlanningSpec
INVARIANT ReadableMapIsTrue
CHECK_DEADLOCK FALSE
