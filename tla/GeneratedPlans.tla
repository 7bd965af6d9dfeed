--------------------------- MODULE GeneratedPlans ---------------------------
(***************************************************************************)
(* Every conflict-free solution of a map, grown one timestep at a time,    *)
(* and what PlanGenerator makes of it.                                     *)
(***************************************************************************)
EXTENDS PlanGenerator, MapfSolution, FiniteSets

CONSTANTS Starts,   \* where the robots start
          Edges,    \* the map
          Ids,      \* the ids of the plans
          Offset,   \* the progress robots have made before
          Longest   \* bound on the number of positions of a path

ASSUME RobotsAssumption == IsFiniteSet(Robots)
ASSUME StartsAssumption == Starts \in [Robots -> Locations]
ASSUME IdsAssumption ==
  Ids \in [Robots -> PlanIds] /\ \A r, s \in Robots : Ids[r] = Ids[s] => r = s
ASSUME OffsetAssumption == Offset \in [Robots -> Int]

VARIABLE paths

Init == paths = [r \in Robots |-> <<Starts[r]>>]

\* The robots of `moving' go on by one timestep, the others have ended.
Next ==
  \E moving \in SUBSET {r \in Robots : Len(paths[r]) = MaxT(paths)} \ {{}} :
  \E to \in [moving -> Locations] :
    /\ MaxT(paths) < Longest
    /\ paths' = [r \in Robots |-> IF r \in moving THEN Append(paths[r], to[r]) ELSE paths[r]]
    /\ \A r \in Robots : FollowsMap(paths'[r], Edges)
    /\ ConflictFree(paths')

Spec == Init /\ [][Next]_paths

Generated == Generate(paths, Ids, Offset)

-----------------------------------------------------------------------------
(* Properties.                                                             *)

\* The generated plans make one of two robots wait wherever they visit the
\* same location, the later one, whatever their progress offsets: "If
\* agent i leaves location L at a timestep earlier or equal to when agent
\* j arrives, add TrafficDependency to j to ensure that i has vacated L"
\* (plan_generator.py:98-99).
AllVisitsOrdered == VisitsOrdered(Generated)

\* Every blocker asks for the progress of a waypoint the named robot's plan
\* has: no robot is made to wait for what never comes.
BlockersAttainable ==
  \A j \in DOMAIN Generated : \A k \in Indices(Generated[j]) :
    \A b \in WaypointAt(Generated[j], k).departure_blockers :
      /\ b.name \in DOMAIN Generated \ {j}
      /\ b.plan_id = Generated[b.name].plan_id
      /\ \E m \in Indices(Generated[b.name]) :
           WaypointAt(Generated[b.name], m).progress = b.required_progress

\* The blockers of a solution in which no robots rotate never make robots
\* wait for each other in a circle, however far each of them has come.
SomeoneMayDepart == ~Rotates(paths) => NoCircularWait(Generated)

=============================================================================
