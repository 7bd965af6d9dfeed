---------------------------- MODULE PlanExecutor ----------------------------
(***************************************************************************)
(* The plan executor (plan_execution/plan_executor.py) with the robot      *)
(* controller it drives.                                                   *)
(*                                                                         *)
(* Transport callbacks and the controller's on_reached callbacks run in    *)
(* threads of their own and only put a message into message_queue; one     *)
(* worker thread takes the messages out, in order, and runs a handler for  *)
(* each.  An exception in a handler ends that thread for good: nothing     *)
(* catches it in _run.                                                     *)
(*                                                                         *)
(* The controller is what BaseRobotController asks of an implementation:   *)
(* it moves a robot to its waypoints in FIFO order and calls on_reached    *)
(* for each.  What the handlers send to the server is not a variable here: *)
(* a module that composes the executor with a server adds it.              *)
(***************************************************************************)
EXTENDS DependencyManager

VARIABLES
  dm,             \* the dependency manager
  message_queue,  \* FIFO of messages for the worker thread
  alive,          \* FALSE once an exception has ended the worker thread
  pending,        \* per robot, the waypoints the controller has still to reach
  at              \* per robot, where it is, or was last while it moves

executorVars == <<dm, message_queue, alive, pending, at>>

\* A robot is placed somewhere before it has a plan.
ExecutorInit(start) ==
  /\ dm = EmptyManager
  /\ message_queue = <<>>
  /\ alive = TRUE
  /\ pending = [r \in Robots |-> <<>>]
  /\ at = start

-----------------------------------------------------------------------------
(* Callbacks: they put a message into the queue.                           *)

PlanMessage(r, p) == [type |-> "plan", robot |-> r, plan |-> p]
ReachedMessage(r, k) == [type |-> "waypoint_reached", robot |-> r, index |-> k]
RequestMessage(id) == [type |-> "committed_locations_request", request_id |-> id]

OnPlan(r, p) ==
  /\ message_queue' = Append(message_queue, PlanMessage(r, p))
  /\ UNCHANGED <<dm, alive, pending, at>>

OnCommittedLocationsRequest(id) ==
  /\ message_queue' = Append(message_queue, RequestMessage(id))
  /\ UNCHANGED <<dm, alive, pending, at>>

\* The robot arrives at the first waypoint it has pending and the controller
\* calls that waypoint's on_reached.
Arrive(r) ==
  /\ pending[r] # <<>>
  /\ at' = [at EXCEPT ![r] = Head(pending[r]).name]
  /\ pending' = [pending EXCEPT ![r] = Tail(@)]
  /\ message_queue' = Append(message_queue, ReachedMessage(r, Head(pending[r]).index))
  /\ UNCHANGED <<dm, alive>>

-----------------------------------------------------------------------------
(* _dispatch_unblocked, which ends the handlers of plans and of reached    *)
(* waypoints: every robot in turn is given what the manager d releases for *)
(* it.  A robot whose loop overruns its plan ends the thread: the robots   *)
(* after it get nothing, and it is not given what was released to it.      *)

OverrunAt(d) == {n \in DOMAIN d.robots : Overruns(d, d.robots[n])}
Turns(d) == {n \in DOMAIN d.robots : \A m \in OverrunAt(d) : n <= m}

DispatchUnblocked(d) ==
  LET advancing == {d.robots[n] : n \in Turns(d)}
      served == {d.robots[n] : n \in Turns(d) \ OverrunAt(d)}
  IN /\ dm' = [d EXCEPT !.latest_enqueued =
                 [r \in Robots |-> IF r \in advancing THEN Advanced(d, r) ELSE @[r]]]
     /\ pending' = [r \in Robots |-> IF r \in served THEN pending[r] \o Released(d, r)
                                                     ELSE pending[r]]
     /\ alive' = (OverrunAt(d) = {})

-----------------------------------------------------------------------------
(* Handlers, run by the worker thread on the message at the head.          *)

NextMessage(type) ==
  /\ alive
  /\ message_queue # <<>>
  /\ Head(message_queue).type = type
  /\ message_queue' = Tail(message_queue)

\* Mutant: every plan starts anew.
HandlePlanAnew ==
  /\ NextMessage("plan")
  /\ DispatchUnblocked(SetPlan(dm, Head(message_queue).robot, Head(message_queue).plan))
  /\ UNCHANGED at

\* A robot without a plan, or at the end of its plan, starts a new one.  A
\* robot that is still executing has the plan joined on behind its cut.  When
\* the plan belongs to another session, a SUPERSEDED status is sent as well.
HandlePlan ==
  /\ NextMessage("plan")
  /\ LET r == Head(message_queue).robot
         p == Head(message_queue).plan
     IN IF r \notin Known(dm) \/ IsComplete(dm, r)
        THEN DispatchUnblocked(SetPlan(dm, r, p))
        ELSE DispatchUnblocked(UpdatePlanAfterCut(dm, r, p))
  /\ UNCHANGED at

\* What _publish_progress sends between update_progress and the dispatch.
ProgressMessage(r, k) ==
  [ plan_id |-> dm.plan[r].plan_id,
    reached_waypoint |-> k,
    target_waypoint |-> dm.latest_enqueued[r] ]

HandleWaypointReached ==
  /\ NextMessage("waypoint_reached")
  /\ LET r == Head(message_queue).robot
         d == UpdateProgress(dm, r, Head(message_queue).index)
     IN DispatchUnblocked(IF IsComplete(d, r) THEN OnPlanComplete(d, r) ELSE d)
  /\ UNCHANGED at

\* Nothing is dispatched.  A failed computation stores no cut and answers
\* nothing.
HandleCommittedLocationsRequest ==
  /\ NextMessage("committed_locations_request")
  /\ IF CommitCutFails(dm)
     THEN alive' = FALSE /\ UNCHANGED dm
     ELSE dm' = ComputeCommitCut(dm) /\ UNCHANGED alive
  /\ UNCHANGED <<pending, at>>

\* What the handler above answers, when it does.
CommittedLocationsResponse(id) ==
  LET d == ComputeCommitCut(dm)
  IN [ request_id |-> id,
       committed_locations |-> CommittedLocations(d),
       stationary_agents |-> StationaryAgents(d) ]

Worker ==
  HandlePlan \/ HandleWaypointReached \/ HandleCommittedLocationsRequest

=============================================================================
