--------------------------- MODULE BatchExecution ---------------------------
(***************************************************************************)
(* The executor on one batch of plans, from robots that have no plan: the  *)
(* plans arrive one by one, robots set off while others still wait for     *)
(* theirs, and the server may ask for the committed locations meanwhile.   *)
(*                                                                         *)
(* Each robot's plan arrives once.  The plan topics are separate, so the   *)
(* plans may arrive in any order.                                          *)
(***************************************************************************)
EXTENDS PlanExecutor

CONSTANTS
  Batches,         \* the batches of plans that a batch is drawn from
  MaxRequests,     \* bound on the committed-locations requests
  OrderedRequests  \* TRUE: no request overtakes a plan of the batch before it

ASSUME MaxRequestsAssumption == MaxRequests \in Nat
ASSUME OrderedRequestsAssumption == OrderedRequests \in BOOLEAN

VARIABLES
  batch,      \* the plans of this run
  delivered,  \* the robots whose plan the transport has delivered
  requests    \* how many requests have been delivered

vars == <<dm, message_queue, alive, pending, at, batch, delivered, requests>>
envVars == <<batch, delivered, requests>>

\* A robot starts where its plan starts.
Init ==
  /\ batch \in Batches
  /\ delivered = {}
  /\ requests = 0
  /\ ExecutorInit([r \in Robots |-> WaypointAt(batch[r], 0).name])

DeliverPlan(r) ==
  /\ r \notin delivered
  /\ delivered' = delivered \cup {r}
  /\ OnPlan(r, batch[r])
  /\ UNCHANGED <<batch, requests>>

\* One thread of the server requests the cut, plans and publishes: without
\* reordering, requests arrive before the batch and after all of it.
DeliverRequest ==
  /\ requests < MaxRequests
  /\ OrderedRequests => delivered \in {{}, Robots}
  /\ requests' = requests + 1
  /\ OnCommittedLocationsRequest(requests')
  /\ UNCHANGED <<batch, delivered>>

RobotArrives(r) == Arrive(r) /\ UNCHANGED envVars

HandleMessage == Worker /\ UNCHANGED envVars

Next ==
  \/ HandleMessage
  \/ DeliverRequest
  \/ \E r \in Robots : DeliverPlan(r) \/ RobotArrives(r)

MessageTypes == {"plan", "waypoint_reached", "committed_locations_request"}

\* The worker thread runs: it goes on to take messages out of the queue, which
\* is what a step of HandleMessage does and no other.  The transport delivers
\* plans and robots keep moving: each of these steps is taken a bounded number
\* of times, so it is enough that they do not all stop.  Nobody has to send a
\* request.
Fairness ==
  /\ WF_message_queue(\E type \in MessageTypes : NextMessage(type))
  /\ WF_vars(\E r \in Robots : DeliverPlan(r) \/ RobotArrives(r))

Spec == Init /\ [][Next]_vars
FairSpec == Spec /\ Fairness

\* What the plans of a batch are like is in Plans.
ASSUME BatchesAssumption == \A plans \in Batches : BatchAssumption(plans)

-----------------------------------------------------------------------------
(* Properties.                                                             *)

Messages ==
  [type : {"plan"}, robot : Robots, plan : Plan]
    \cup [type : {"waypoint_reached"}, robot : Robots, index : Nat]
    \cup [type : {"committed_locations_request"}, request_id : Nat]

ManagerType(d) ==
  /\ d \in [ robots : Seq(Robots),
             plan : [Robots -> Plan \cup {NoPlan}],
             current_waypoint : [Robots -> Nat],
             latest_enqueued : [Robots -> Nat],
             completed_plan_ids : SUBSET PlanIds,
             cut_indices : [DOMAIN d.cut_indices -> Nat] ]
  /\ DOMAIN d.cut_indices \subseteq Robots

\* The types of the variables.
TypeOK ==
  /\ ManagerType(dm)
  /\ message_queue \in Seq(Messages)
  /\ alive \in BOOLEAN
  /\ pending \in [Robots -> Seq([index : Nat, name : Locations])]
  /\ at \in [Robots -> Locations]
  /\ batch \in [Robots -> Plan]
  /\ delivered \in SUBSET Robots
  /\ requests \in 0 .. MaxRequests

\* Where a robot is or may be on its way to: the controller owns it.
Holds(r) == {at[r]} \cup {pending[r][n].name : n \in DOMAIN pending[r]}

\* No two robots are, or are sent, to the same location, whatever the order
\* in which plans arrive, robots move and messages are handled ("an agent
\* must vacate a location before another agent may move into it", README).
NoCollision == \A r, s \in Robots : r # s => Holds(r) \cap Holds(s) = {}

\* The dispatcher lets a robot move on to a waypoint that others visit too
\* only when those the blockers put before it have been and gone: the
\* locations are visited in the order of the MAPF solution, which is more
\* than that no two robots meet there.
VisitOrderIn(d) ==
  \A i, j \in Robots : i # j =>
    \A a \in Indices(batch[i]), b \in Indices(batch[j]) :
      /\ Precedes(batch, i, a, j, b)
      /\ b <= d.latest_enqueued[j]
      => d.current_waypoint[i] > a

VisitOrder == VisitOrderIn(dm)

\* The indices of r that are in flight: reached but not handled, then pending.
InFlight(r) ==
  LET mine == {n \in DOMAIN message_queue :
                 /\ message_queue[n].type = "waypoint_reached"
                 /\ message_queue[n].robot = r}
      Place(n) == Cardinality({m \in mine : m <= n})
  IN [k \in 1 .. Cardinality(mine) |->
        message_queue[CHOOSE n \in mine : Place(n) = k].index]
     \o [k \in DOMAIN pending[r] |-> pending[r][k].index]

\* Every waypoint between the current one and the latest enqueued one is on
\* its way through the controller and the queue exactly once and in order:
\* none is lost, reported twice or overtaken, however plans and callbacks
\* interleave.
InFlightInOrder ==
  \A r \in Robots :
    InFlight(r) = [k \in 1 .. dm.latest_enqueued[r] - dm.current_waypoint[r] |->
                     dm.current_waypoint[r] + k]

\* The worker thread survives: no assertion of the commit cut and no read
\* behind the end of a plan stops it, but for a request that is handled when
\* only some of the plans of the batch are there.
ExecutorSurvives == alive \/ Known(dm) \notin {{}, Robots}

\* Robots that are given a commit cut get there, whatever else is cut: "Extend
\* the commit cut to satisfy the departure blockers of all waypoints included
\* in the committed waypoints" (dependency_manager.py:261).
CutIsReached ==
  []<>(\A r \in DOMAIN dm.cut_indices : dm.current_waypoint[r] = dm.cut_indices[r])

\* While the same plans are executed, a later request never takes back what
\* an earlier one committed a robot to.
CutNeverRetracts ==
  [][\A r \in DOMAIN dm.cut_indices :
       /\ r \in DOMAIN dm'.cut_indices
       /\ dm'.cut_indices[r] >= dm.cut_indices[r]]_vars

\* Without a request every robot comes to the end of its plan: the blockers of
\* a MAPF solution make nobody wait for ever.
BatchCompletes == [](requests = 0) => <>(\A r \in Robots : IsComplete(dm, r))

\* Without a request nothing is ever left waiting: once the plans are there,
\* no message is in the queue and no robot is on its way, every robot is at
\* the end of its plan.  Each dispatch gives every robot what its blockers
\* allow, and the blockers of a MAPF solution form no circle.
NeverStuck ==
  /\ requests = 0
  /\ delivered = Robots
  /\ message_queue = <<>>
  /\ \A r \in Robots : pending[r] = <<>>
  => \A r \in Robots : IsComplete(dm, r)

\* The executor and its controller implement the reservation of locations.
Reservation == INSTANCE LocationReservation WITH holds <- [r \in Robots |-> Holds(r)]
ReservationSpec == Reservation!Spec

-----------------------------------------------------------------------------
(* The inductive invariant behind TypeOK, VisitOrder and NoCollision.      *)

\* Message n tells that r has reached a waypoint.
Reached(n, r) ==
  message_queue[n].type = "waypoint_reached" /\ message_queue[n].robot = r

\* The waypoint r is physically at: the one before the first pending one.
Position(d, r) == d.latest_enqueued[r] - Len(pending[r])

\* A robot has its plan of the batch or none yet, and nothing moves it before
\* it has; a cut lies within the plan.
Installed(d, r) ==
  /\ r \in Known(d) => d.plan[r] = batch[r] /\ r \in delivered
  /\ r \notin Known(d) => /\ d.plan[r] = NoPlan
                          /\ d.current_waypoint[r] = 0
                          /\ d.latest_enqueued[r] = 0
  /\ d.latest_enqueued[r] <= LastIndex(batch[r])
  /\ r \in DOMAIN d.cut_indices =>
       r \in Known(d) /\ d.cut_indices[r] <= LastIndex(batch[r])

PlansInstalled == \A r \in Robots : Installed(dm, r)

\* The plans in the queue are those of robots that have none, one for each.
PlansQueued ==
  \A n \in DOMAIN message_queue :
    message_queue[n].type = "plan" =>
      /\ message_queue[n].plan = batch[message_queue[n].robot]
      /\ message_queue[n].robot \in delivered
      /\ message_queue[n].robot \notin Known(dm)
      /\ \A m \in DOMAIN message_queue :
           message_queue[m].type = "plan" /\ message_queue[m].robot = message_queue[n].robot
             => m = n

\* What is pending for a robot are the waypoints from its position to the
\* latest enqueued one.
InOrder(d, r) ==
  /\ d.current_waypoint[r] <= Position(d, r)
  /\ at[r] = WaypointAt(batch[r], Position(d, r)).name
  /\ \A n \in DOMAIN pending[r] :
       pending[r][n] = [index |-> Position(d, r) + n,
                        name |-> WaypointAt(batch[r], Position(d, r) + n).name]

PendingInOrder == \A r \in Robots : InOrder(dm, r)

\* The waypoints reported but not handled lie between the current one and the
\* position, in increasing order.
ReportsInOrder ==
  \A r \in Robots : \A n \in DOMAIN message_queue :
    Reached(n, r) =>
      /\ dm.current_waypoint[r] < message_queue[n].index
      /\ message_queue[n].index <= Position(dm, r)
      /\ \A m \in 1 .. n - 1 :
           Reached(m, r) => message_queue[m].index < message_queue[n].index

\* Only plans that are at their end count as completed.
CompletedAtEndIn(d) ==
  \A r \in Robots :
    batch[r].plan_id \in d.completed_plan_ids =>
      d.current_waypoint[r] = LastIndex(batch[r])

CompletedAtEnd == CompletedAtEndIn(dm)

IInv ==
  /\ TypeOK
  /\ BatchAssumption(batch)
  /\ PlansInstalled
  /\ PlansQueued
  /\ PendingInOrder
  /\ ReportsInOrder
  /\ CompletedAtEnd
  /\ VisitOrder

=============================================================================
