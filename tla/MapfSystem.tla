----------------------------- MODULE MapfSystem -----------------------------
(***************************************************************************)
(* The plan server and the plan executor together: clients request tasks,  *)
(* the server plans, and plans again while the robots execute what they    *)
(* have been given before (README, How It Works).                          *)
(*                                                                         *)
(* A client announces robots and sends tasks, in the order of its script.  *)
(* The transport is reliable: what somebody is subscribed to arrives, plans *)
(* at the executor as they are published, and progress reports in a FIFO   *)
(* until the server's callback handles them.  The client, the server's     *)
(* worker thread, its progress callback, the executor's worker thread and  *)
(* the robots interleave freely.                                           *)
(***************************************************************************)
EXTENDS PlanServer, PlanExecutor, Transports, MapfSolution

CONSTANTS
  Edges,        \* the map
  Scenarios,    \* where the robots stand, and what the client does, in order
  MaxTimeouts,  \* bound on the waits for an answer that time out
  MaxReports    \* bound on the reports that are on their way at a time

ASSUME MaxTimeoutsAssumption == MaxTimeouts \in Nat
ASSUME MaxReportsAssumption == MaxReports \in Nat \ {0}

VARIABLES
  reports,    \* progress reports on their way to the server
  scenario,   \* where the robots stand, and what the client does
  sent,       \* how much of it the client has done
  timeouts,   \* how many waits have timed out
  overlapped  \* history: the robots with an end and a new plan recorded at once

systemVars == <<reports, scenario, sent, timeouts, overlapped>>
vars == <<serverVars, executorVars, transportVars, systemVars>>

\* A robot that stands nowhere is one that nobody has.
Init ==
  /\ scenario \in Scenarios
  /\ ServerInit
  /\ ExecutorInit([r \in Robots |-> IF r \in DOMAIN scenario.starts
                                    THEN scenario.starts[r] ELSE None])
  /\ TransportInit
  /\ reports = <<>>
  /\ sent = 0
  /\ timeouts = 0
  /\ overlapped = {}

-----------------------------------------------------------------------------
(* The client.  In ROS 2 one thread runs all callbacks of a node.          *)

NextOnScript(type) ==
  /\ sent < Len(scenario.script)
  /\ scenario.script[sent + 1].type = type
  /\ UNCHANGED <<reports, scenario, timeouts, overlapped>>

Item == scenario.script[sent + 1]

ServerListens == Ros => callback = Idle

SendTasks ==
  /\ NextOnScript("tasks")
  /\ ServerListens
  /\ OnTaskRequests(Requested(Item.requests))
  /\ sent' = sent + 1
  /\ UNCHANGED <<executorVars, transportVars>>

\* The server subscribes before it looks whether it may add the robot.  A
\* refusal ends the client that has called it or, in ROS 2, the server.
OnboardAtServer ==
  /\ NextOnScript("onboard_server")
  /\ ServerListens
  /\ Onboard("server", Item.robot)
  /\ LET refused == Item.robot \notin participants["server"] /\ HasExecutingAgents
     IN /\ sent' = IF refused /\ ~Ros THEN Len(scenario.script) ELSE sent + 1
        /\ IF Item.robot \in participants["server"]
           THEN UNCHANGED serverVars
           ELSE IF refused /\ Ros
                THEN /\ server' = Dead
                     /\ callback' = Dead
                     /\ UNCHANGED <<task_request_queue, responses, request_counter, context,
                                    task_plan, final_waypoints, statuses>>
                ELSE AddRobot(Item.robot, Item.location)
  /\ UNCHANGED executorVars

OnboardAtExecutor ==
  /\ NextOnScript("onboard_executor")
  /\ Onboard("executor", Item.robot)
  /\ sent' = sent + 1
  /\ UNCHANGED <<serverVars, executorVars>>

Discovery ==
  /\ NextOnScript("discovery")
  /\ Discover(Item.side, Item.robots)
  /\ sent' = sent + 1
  /\ UNCHANGED <<serverVars, executorVars>>

Client == SendTasks \/ OnboardAtServer \/ OnboardAtExecutor \/ Discovery

-----------------------------------------------------------------------------
(* The plan server.                                                        *)

\* The request for committed locations goes out unless no task is valid.
ServerBatch ==
  /\ ProcessBatch
  /\ IF server'.at = "waiting" THEN OnCommittedLocationsRequest(server'.request_id)
                               ELSE UNCHANGED executorVars
  /\ UNCHANGED <<transportVars, systemVars>>

ServerTimeout ==
  /\ timeouts < MaxTimeouts
  /\ WaitTimesOut
  /\ timeouts' = timeouts + 1
  /\ UNCHANGED <<executorVars, transportVars, reports, scenario, sent, overlapped>>

ServerPublish(r) ==
  /\ PublishPlan(r)
  /\ message_queue' = message_queue \o
                        Delivered("executor", r, PlanMessage(r, Carried(server.plans[r])))
  /\ UNCHANGED <<dm, alive, pending, at, transportVars, systemVars>>

\* The steps of the worker thread that the executor does not see.
ServerInternal ==
  /\ TakeResponse \/ AssignPlanIds \/ Solve \/ SupersedeTasks \/ RecordBatch
  /\ UNCHANGED <<executorVars, transportVars, systemVars>>

ServerWorker ==
  ServerBatch \/ ServerInternal \/ \E r \in Robots : ServerPublish(r)

ServerProgress ==
  /\ reports # <<>>
  /\ reports' = Tail(reports)
  /\ OnProgress(Head(reports).robot, Head(reports).report)
  /\ UNCHANGED <<executorVars, transportVars, scenario, sent, timeouts, overlapped>>

ServerRecordsEnd ==
  /\ ScanEnds \/ Complete
  /\ overlapped' = IF callback.at = "completing" /\ Overlaps THEN overlapped \cup {callback.robot}
                   ELSE overlapped
  /\ UNCHANGED <<executorVars, transportVars, reports, scenario, sent, timeouts>>

\* The exception of a callback ends the thread that has called it: with the
\* direct transport the executor's worker thread, in ROS 2 the server.
ServerScanFails ==
  /\ ScanFails
  /\ alive' = (alive /\ Ros)
  /\ UNCHANGED <<dm, message_queue, pending, at, transportVars, systemVars>>

ServerCallback == ServerProgress \/ ServerRecordsEnd \/ ServerScanFails

-----------------------------------------------------------------------------
(* The plan executor.                                                      *)

ExecutorPlan ==
  /\ HandlePlan
  /\ UNCHANGED <<serverVars, transportVars, systemVars>>

ExecutorReached ==
  /\ Len(reports) < MaxReports
  /\ HandleWaypointReached
  /\ LET r == Head(message_queue).robot
         k == Head(message_queue).index
     IN reports' = reports \o Delivered("server", r, [robot |-> r, report |-> ProgressMessage(r, k)])
  /\ UNCHANGED <<serverVars, transportVars, scenario, sent, timeouts, overlapped>>

ExecutorRequest ==
  /\ HandleCommittedLocationsRequest
  /\ LET answer == CommittedLocationsResponse(Head(message_queue).request_id)
     IN responses' =
          IF CommitCutFails(dm) THEN responses
          ELSE Append(responses, [answer EXCEPT !.committed_locations = CarriedLocations(@)])
  /\ UNCHANGED <<task_request_queue, server, callback, request_counter, context, task_plan,
                 final_waypoints, statuses, transportVars, systemVars>>

ExecutorWorker == ExecutorPlan \/ ExecutorReached \/ ExecutorRequest

RobotArrives(r) == Arrive(r) /\ UNCHANGED <<serverVars, transportVars, systemVars>>

Next ==
  \/ Client
  \/ ServerWorker
  \/ ServerTimeout
  \/ ServerCallback
  \/ ExecutorWorker
  \/ \E r \in Robots : RobotArrives(r)

\* The threads run, the transport delivers, robots keep moving and the client
\* goes on.  A wait nobody answers times out.
Fairness ==
  /\ WF_vars(Client)
  /\ WF_vars(ServerWorker)
  /\ WF_vars(ServerTimeout)
  /\ WF_vars(ServerCallback)
  /\ WF_vars(ExecutorWorker)
  /\ \A r \in Robots : WF_vars(RobotArrives(r))

Spec == Init /\ [][Next]_vars
FairSpec == Spec /\ Fairness

-----------------------------------------------------------------------------
(* Properties.                                                             *)

Holds(r) == {at[r]} \cup {pending[r][n].name : n \in DOMAIN pending[r]}

\* No two robots are, or are sent, to the same location: "an agent must vacate
\* a location before another agent may move into it" (README).
NoCollision == \A r, s \in Robots : r # s => Holds(r) \cap Holds(s) = {}

\* Wherever plans are cut and joined, the controller is sent along edges of
\* the map from where the robot is.
RoutesFollowMap ==
  \A r \in Robots :
    FollowsMap(<<at[r]>> \o [n \in DOMAIN pending[r] |-> pending[r][n].name], Edges)

\* A cut covers all that has been enqueued, and nothing is enqueued behind it
\* while it is stored ("Ensures that the last-enqueued vertex is included",
\* dependency_manager.py:233).
CutBoundsDispatch ==
  \A r \in DOMAIN dm.cut_indices : dm.latest_enqueued[r] <= dm.cut_indices[r]

\* A plan that replaces one in execution leaves what the robot has been given.
DispatchedIsKept ==
  [][\A r \in Known(dm) :
       ~IsComplete(dm, r) =>
         \A k \in 0 .. dm.latest_enqueued[r] :
           /\ k <= LastIndex(dm'.plan[r])
           /\ WaypointAt(dm'.plan[r], k).name = WaypointAt(dm.plan[r], k).name]_vars

\* No plan is on its way to the executor.
PlansArrived ==
  /\ server.at = "publishing" => server.left = {}
  /\ \A n \in DOMAIN message_queue : message_queue[n].type # "plan"

\* Once the plans of a batch are there, every blocker ahead of a robot, as far
\* as it may go, names a completed plan or the plan its robot is on, and asks
\* for a progress that this plan comes to: cutting and joining plans leaves
\* nobody waiting for a plan, or a part of one, that was replaced.
BlockersAreCurrent ==
  PlansArrived =>
    \A r \in Known(dm) :
      \A k \in (dm.current_waypoint[r] .. UpperBound(dm, r)) \cap Indices(dm.plan[r]) :
        \A b \in Blockers(dm, r, k) :
          b.plan_id \notin dm.completed_plan_ids =>
            /\ ~Dangling(dm, b)
            /\ b.required_progress <=
                 WaypointAt(dm.plan[b.name], LastIndex(dm.plan[b.name])).progress

\* The progress of a plan that was joined together keeps increasing, which
\* the comparison with required_progress relies on.
ProgressKeepsIncreasing == \A r \in Known(dm) : ProgressIncreases(dm.plan[r])

\* A task is published as completed only when the executor has executed the
\* plan that the server has looked the task up for to its end.
CompletedIsExecuted ==
  [][\A t \in TaskIds :
       statuses'[t] # statuses[t] /\ statuses'[t][Len(statuses'[t])] = "COMPLETED"
         => callback.plan_id \in dm.completed_plan_ids]_vars

\* A plan that is published, or waits for the executor, has an id no other one
\* there has and no plan of the executor has or had, also when a task is sent
\* again: blockers on a completed id count as satisfied, and a plan that came
\* twice would be joined to itself.
PlanIdsAreFresh ==
  LET coming == {n \in DOMAIN message_queue : message_queue[n].type = "plan"}
      Id(n) == message_queue[n].plan.plan_id
      arriving == {Id(n) : n \in coming}
      leaving == IF server.at = "publishing" THEN {server.plan_ids[r] : r \in server.left} ELSE {}
  IN /\ \A n, m \in coming : Id(n) = Id(m) => n = m
     /\ arriving \cap leaving = {}
     /\ (arriving \cup leaving) \cap
          (dm.completed_plan_ids \cup {dm.plan[s].plan_id : s \in Known(dm)}) = {}

\* What the server plans from is what the executor has promised last: robots
\* stop at the locations the answer names, and an answer that was waited for
\* too long is not taken for the next one.
AnswerIsCurrent ==
  server.at \in {"solving", "identified"} =>
    \A r \in Known(dm) :
      /\ r \in DOMAIN server.committed \cap DOMAIN dm.cut_indices
      /\ dm.cut_indices[r] = server.committed[r].waypoint_index
      /\ WaypointAt(dm.plan[r], dm.cut_indices[r]).name = server.committed[r].location

\* The server learns of the end of every plan: each task it is sent ends with
\* a status that says how.
Ended(t) == {statuses[t][n] : n \in DOMAIN statuses[t]} \cap
              {"COMPLETED", "FAILED", "SUPERSEDED"} # {}

Sent ==
  UNION {{item.requests[n].task_id : n \in DOMAIN item.requests} :
           item \in {i \in {scenario.script[n] : n \in DOMAIN scenario.script} : i.type = "tasks"}}

TasksEnd == <>(\A t \in Sent : Ended(t))

\* The server plans "as agents receive new destinations ... while other agents
\* keep moving" (README).
ServerSurvives == server.at # "dead"

\* The plans that are published keep away from the robots that have no task
\* and stay where they are ("converts stationary agents to obstacles",
\* mapf_coordinator.py:47).
StationaryIsAvoided ==
  server.at = "publishing" =>
    \A r \in server.left, s \in DOMAIN context \ DOMAIN server.tasks :
      IsComplete(dm, s) =>
        \A k \in Indices(server.plans[r]) : WaypointAt(server.plans[r], k).name # at[s]

\* Nothing is on its way between server, executor and robots.
AtRest ==
  /\ server = Idle
  /\ callback = Idle
  /\ task_request_queue = <<>>
  /\ reports = <<>>
  /\ message_queue = <<>>
  /\ \A r \in Robots : pending[r] = <<>>

Finished(r) == r \notin Known(dm) \/ IsComplete(dm, r)

\* A robot whose entry says that it has no active task has none, unless the end
\* of a plan and the next plan were recorded at the same time.
IdleIsDone ==
  AtRest =>
    \A r \in DOMAIN context \ overlapped : context[r].status = "IDLE" => Finished(r)

\* The end of a plan gets to its task: when the entry of a robot still names a
\* plan that the robot has executed to its end, either the server expects the
\* plan to end at another waypoint, or the end was handled and no task waits
\* for it (it came before the plan was recorded, or the task had been requested
\* again in a batch that failed).
EndIsRecorded ==
  AtRest =>
    \A r \in DOMAIN context :
      LET id == context[r].plan_id
      IN r \in Known(dm) /\ IsComplete(dm, r) /\ id = dm.plan[r].plan_id =>
           IF id \in DOMAIN final_waypoints
           THEN final_waypoints[id] # LastIndex(dm.plan[r])
           ELSE TasksOf(task_plan, id) = {}

\* A robot is announced only while no robot moves ("Must only be called when no
\* robots are moving", plan_server.py:109), unless the server is at a batch.
AddedAtRest ==
  [][Client /\ context' # context =>
       \/ server # Idle
       \/ overlapped # {}
       \/ \A r \in Known(dm) : pending[r] = <<>>]_vars

=============================================================================
