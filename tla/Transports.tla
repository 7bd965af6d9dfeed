----------------------------- MODULE Transports -----------------------------
(***************************************************************************)
(* The transports between clients, plan server and plan executor, and what *)
(* each side subscribes to as robots are announced to it.                  *)
(*                                                                         *)
(* The direct transport (examples/basic_grid/example.py) calls the other   *)
(* side's callback: one per robot and topic, and a new one takes the place *)
(* of the old.  The ROS 2 transport (res_ros2) creates a subscription per  *)
(* call and converts messages.  Its dictionary forgets the old one, which  *)
(* the node keeps: a message is delivered once for each.  What nobody is   *)
(* subscribed to is dropped by both.                                       *)
(***************************************************************************)
EXTENDS Plans

CONSTANT
  Ros   \* TRUE for the ROS 2 transport, FALSE for the direct one

ASSUME RosAssumption == Ros \in BOOLEAN

VARIABLES
  participants,   \* per side, _subscribed_participants
  subscriptions   \* per side and robot, how often a message is delivered

transportVars == <<participants, subscriptions>>

TransportInit ==
  /\ participants = [side \in {"server", "executor"} |-> {}]
  /\ subscriptions = [side \in {"server", "executor"} |-> [r \in Robots |-> 0]]

\* _subscribe_to_participant: to plans at the executor, to progress reports and
\* task requests at the server.
Subscribe(side, rs) ==
  subscriptions' = [subscriptions EXCEPT ![side] =
    [r \in Robots |-> IF r \notin rs THEN @[r] ELSE IF Ros THEN @[r] + 1 ELSE 1]]

\* _on_robot_onboard, up to the subscriptions.  set.update(robot_id) adds the
\* letters of the id to the participants, and not the id.
Onboard(side, r) ==
  /\ Subscribe(side, {r} \ participants[side])
  /\ UNCHANGED participants

\* _on_participant_discovery.
Discover(side, rs) ==
  /\ Subscribe(side, rs \ participants[side])
  /\ participants' = [participants EXCEPT ![side] = @ \cup rs]

Delivered(side, r, message) == [n \in 1 .. subscriptions[side][r] |-> message]

\* Task requests: a second subscription to the topic is refused.
Requested(requests) ==
  LET taken[n \in 0 .. Len(requests)] ==
        IF n = 0 THEN <<>>
        ELSE IF subscriptions["server"][requests[n].robot_id] > 0
             THEN Append(taken[n - 1], requests[n])
             ELSE taken[n - 1]
  IN taken[Len(requests)]

-----------------------------------------------------------------------------
(* Conversions (plan_conversion.py).  A uuid goes as its bytes, a name as    *)
(* the node of the arrival constraints; positions and times are left out.    *)

ToRosWaypoint(wp) ==
  [arrival_constraints |-> <<wp.name>>, progress |-> wp.progress,
   departure_blockers |-> wp.departure_blockers]

FromRosWaypoint(msg) ==
  [name |-> msg.arrival_constraints[1], progress |-> msg.progress,
   departure_blockers |-> msg.departure_blockers]

\* What arrives of a plan: all but the name of its map.
Carried(p) ==
  IF Ros THEN [p EXCEPT !.waypoints = [n \in DOMAIN @ |-> FromRosWaypoint(ToRosWaypoint(@[n]))]]
         ELSE p

\* What arrives of committed locations: publish_committed_locations_response
\* leaves the field progress at its default.
CarriedLocations(committed) ==
  IF Ros THEN [r \in DOMAIN committed |-> [committed[r] EXCEPT !.progress = 0]] ELSE committed

=============================================================================
