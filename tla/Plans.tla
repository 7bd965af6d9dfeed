------------------------------- MODULE Plans -------------------------------
(***************************************************************************)
(* The messages the planning side and the execution side exchange: plans   *)
(* made of waypoints, and the traffic dependencies that hang on them       *)
(* (res_mapf_planning/traffic_dependencies/models).                        *)
(*                                                                         *)
(* Progress is a float in the code.  It is only ever a timestep plus a sum *)
(* of earlier timesteps, so whole numbers represent it exactly.            *)
(***************************************************************************)
EXTENDS Integers, Sequences

CONSTANTS Robots,      \* robot ids
          Locations,   \* names of the nodes of the map
          PlanIds      \* (destination session, plan version) pairs

TrafficDependency ==
  [name : Robots, plan_id : PlanIds, required_progress : Int]

\* departure_blockers is a list in the code.  It is read as a conjunction,
\* and by the commit cut as a maximum: order and repetition do not matter.
Waypoint ==
  [name : Locations, progress : Int, departure_blockers : SUBSET TrafficDependency]

Plan == [plan_id : PlanIds, waypoints : Seq(Waypoint) \ {<<>>}]

\* Waypoints are numbered from 0, as they are everywhere in the code.
WaypointAt(p, k) == p.waypoints[k + 1]
LastIndex(p) == Len(p.waypoints) - 1
Indices(p) == 0 .. LastIndex(p)

-----------------------------------------------------------------------------
(* What execution relies on in a batch of plans, a function from robots to *)
(* plans: where two robots visit the same location, a blocker makes one of *)
(* them wait until the other has left.                                     *)

\* Some waypoint of j before b has a blocker that waits for i to be past a.
Precedes(plans, i, a, j, b) ==
  \E k \in 0 .. b - 1 : \E d \in WaypointAt(plans[j], k).departure_blockers :
    /\ d.name = i
    /\ d.plan_id = plans[i].plan_id
    /\ d.required_progress > WaypointAt(plans[i], a).progress

SameLocation(plans, i, a, j, b) ==
  WaypointAt(plans[i], a).name = WaypointAt(plans[j], b).name

VisitsOrdered(plans) ==
  \A i, j \in DOMAIN plans : i # j =>
    \A a \in Indices(plans[i]), b \in Indices(plans[j]) :
      SameLocation(plans, i, a, j, b) =>
        Precedes(plans, i, a, j, b) \/ Precedes(plans, j, b, i, a)

ProgressIncreases(p) ==
  \A k, m \in Indices(p) : k < m => WaypointAt(p, k).progress < WaypointAt(p, m).progress

\* A blocker on another plan of the batch never asks for more progress than
\* the end of that plan has.
Attainable(plans) ==
  \A j \in DOMAIN plans : \A k \in Indices(plans[j]) :
    \A d \in WaypointAt(plans[j], k).departure_blockers :
      \A i \in DOMAIN plans :
        d.plan_id = plans[i].plan_id =>
          d.required_progress <= WaypointAt(plans[i], LastIndex(plans[i])).progress

\* A blocker names a robot of the batch and the plan that robot has in it.
BlockersOnBatch(plans) ==
  \A j \in DOMAIN plans : \A k \in Indices(plans[j]) :
    \A d \in WaypointAt(plans[j], k).departure_blockers :
      d.name \in DOMAIN plans /\ d.plan_id = plans[d.name].plan_id

\* What the plans of a batch are like for its execution.
BatchAssumption(plans) ==
  /\ plans \in [Robots -> Plan]
  /\ \A i, j \in Robots : plans[i].plan_id = plans[j].plan_id => i = j
  /\ \A i \in Robots : ProgressIncreases(plans[i])
  /\ VisitsOrdered(plans)
  /\ Attainable(plans)

\* Robot r, at waypoint c[r], is not at the end and has no blocker to wait for
\* when the others are at theirs.
MayDepart(plans, c, r) ==
  /\ c[r] < LastIndex(plans[r])
  /\ \A d \in WaypointAt(plans[r], c[r]).departure_blockers :
       /\ d.name \in DOMAIN plans
       /\ d.plan_id = plans[d.name].plan_id
       /\ WaypointAt(plans[d.name], c[d.name]).progress >= d.required_progress

\* Wherever the robots are in their plans, one of them may go on unless all
\* are at the end: no robots wait for each other in a circle.
NoCircularWait(plans) ==
  \A c \in [DOMAIN plans -> UNION {Indices(plans[r]) : r \in DOMAIN plans}] :
    /\ \A r \in DOMAIN plans : c[r] \in Indices(plans[r])
    /\ \E r \in DOMAIN plans : c[r] < LastIndex(plans[r])
    => \E r \in DOMAIN plans : MayDepart(plans, c, r)

=============================================================================
