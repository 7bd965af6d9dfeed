-------------------------- MODULE MCPlanGenerator --------------------------
(***************************************************************************)
(* Three robots in a row of a small map, for GeneratedPlans.               *)
(***************************************************************************)
EXTENDS GeneratedPlans, MCMaps

CONSTANTS r1, r2, r3

Three == {r1, r2, r3}
SixNodes == 0 .. 5
Grid3x2 == GridEdges(3, 2)
ThreeStarts == r1 :> 0 @@ r2 :> 1 @@ r3 :> 4

\* Robots have made progress before: the committed locations carry it.
MCOffset == r1 :> 0 @@ r2 :> 2 @@ r3 :> 5
MCIds == [r \in Three |-> [destination_session |-> r, plan_version |-> 0]]
MCPlanIds == {MCIds[r] : r \in Three}

=============================================================================
