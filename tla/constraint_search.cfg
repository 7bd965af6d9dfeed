CONSTANT Tolerance <- MCTolerance
CONSTANT GapTolerance <- MCGapTolerance
CONSTANT Cases <- MCCases
SPECIFICATION PlanningSpec
INVARIANTS LowLevelIsShortest AnswerIsASolution AnswerIsOptimal OptimumStaysOpen GridIsTheDrawing StepsFollowEdges
PROPERTIES CostNeverDrops PlanningEnds
CHECK_DEADLOCK FALSE
