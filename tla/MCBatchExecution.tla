-------------------------- MODULE MCBatchExecution --------------------------
(***************************************************************************)
(* Batches of plans for BatchExecution, all of them generated from         *)
(* conflict-free paths by PlanGenerator.                                   *)
(***************************************************************************)
EXTENDS BatchExecution, PlanGenerator, MCMaps

CONSTANTS r1, r2, r3

Two == {r1, r2}
Three == {r1, r2, r3}

Ids == [r \in Three |-> [destination_session |-> r, plan_version |-> 0]]
MCPlanIds == {Ids[r] : r \in Three}
MCLocations == 0 .. 5

PlansOf(solutions) ==
  {Generate(paths, Ids, [r \in DOMAIN paths |-> 0]) : paths \in solutions}

Grid3x2 == GridEdges(3, 2)

\* The paths of at most 5 positions between any two nodes of the grid.
GridPaths ==
  [a \in MCLocations |-> [b \in MCLocations |-> PathsTo(a, b, Grid3x2, 5)]]

SolutionsOf(paths, starts, goals) ==
  Cheapest([r \in DOMAIN starts |-> paths[starts[r]][goals[r]]])

\* Two robots that start at the ends of a side of a grid of 3 times 2 nodes,
\* and every pair of goals.
TwoStarts == r1 :> 0 @@ r2 :> 2
TwoBatches ==
  PlansOf(UNION {SolutionsOf(GridPaths, TwoStarts, goals) :
                   goals \in {g \in [Two -> MCLocations] :
                                /\ g[r1] # g[r2]
                                /\ \A r \in Two : g[r] # TwoStarts[r]}})

\* Three robots in the same grid: they follow each other out of a corner, and
\* two of them exchange their places around the third.
ThreeBatches ==
  PlansOf(SolutionsOf(GridPaths, r1 :> 0 @@ r2 :> 1 @@ r3 :> 4, r1 :> 1 @@ r2 :> 4 @@ r3 :> 3)
     \cup SolutionsOf(GridPaths, r1 :> 0 @@ r2 :> 1 @@ r3 :> 2, r1 :> 2 @@ r2 :> 4 @@ r3 :> 0))

\* A robot waits at a crossing until two others have passed, one of which
\* follows the other.
CrossingBatches ==
  PlansOf({r1 :> <<4, 4, 4, 1>> @@ r2 :> <<3, 0, 1, 2>> @@ r3 :> <<0, 1, 2, 5>>})

ThreeRobotBatches == ThreeBatches \cup CrossingBatches

\* What NeverStuck and BatchCompletes need of the batches.
ASSUME CirclesAssumption == \A plans \in Batches : NoCircularWait(plans)

\* What ExecutorSurvives needs of them.
ASSUME BlockersAssumption == \A plans \in Batches : BlockersOnBatch(plans)

=============================================================================
