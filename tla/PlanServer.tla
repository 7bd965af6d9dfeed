----------------------------- MODULE PlanServer -----------------------------
(***************************************************************************)
(* The plan server (plan_server.py) with the two objects it drives: the    *)
(* multi-agent context, what it knows of every robot, and the coordinator, *)
(* which makes a MAPF problem of it for the solver.                        *)
(*                                                                         *)
(* One worker thread takes a batch of task requests, asks the executor for *)
(* the committed locations, waits for them, solves and publishes.  The     *)
(* variable server is its program point with its local variables.          *)
(* Progress reports are handled by a callback in a thread of its own: the  *)
(* variable callback is its program point.  The lock it takes is one that  *)
(* the worker thread does not.  The transport and the executor are not     *)
(* part of this module: a module that composes it with them says what      *)
(* becomes of a request and of a plan.                                     *)
(***************************************************************************)
EXTENDS PlanGenerator, FiniteSets

CONSTANTS
  TaskIds,
  None,               \* Python's None
  Solver(_, _, _)     \* the paths it may return for starts, goals, obstacles

VARIABLES
  task_request_queue,   \* FIFO of tasks
  responses,            \* FIFO of committed-locations responses
  server,               \* where the worker thread is, and its locals
  callback,             \* where the progress callback is, and its locals
  request_counter,      \* id of the last committed-locations request
  context,              \* MultiAgentContext, an entry for every robot in it
  task_plan,            \* _task_id_to_plan_id
  final_waypoints,      \* _plan_final_waypoints, by plan id
  statuses              \* what has been published of each task, in order

serverVars == <<task_request_queue, responses, server, callback, request_counter,
                context, task_plan, final_waypoints, statuses>>

Without(f, x) == [y \in DOMAIN f \ {x} |-> f[y]]

Idle == [at |-> "idle"]
Dead == [at |-> "dead"]

ServerInit ==
  /\ task_request_queue = <<>>
  /\ responses = <<>>
  /\ server = Idle
  /\ callback = Idle
  /\ request_counter = 0
  /\ context = <<>>
  /\ task_plan = <<>>
  /\ final_waypoints = <<>>
  /\ statuses = [t \in TaskIds |-> <<>>]

Published(history, ids, status) ==
  [t \in TaskIds |-> IF t \in ids THEN Append(history[t], status) ELSE history[t]]

TaskIdsOf(tasks) == {tasks[r].task_id : r \in DOMAIN tasks}

-----------------------------------------------------------------------------
(* A batch, up to the answer of the executor.                              *)

OnTaskRequests(requests) ==
  /\ task_request_queue' = task_request_queue \o requests
  /\ UNCHANGED <<responses, server, callback, request_counter, context, task_plan,
                 final_waypoints, statuses>>

\* The place of each robot's last request among those in the queue.
LastRequests(items) ==
  {n \in DOMAIN items : \A m \in DOMAIN items :
                          items[m].robot_id = items[n].robot_id => m <= n}

\* All that is in the queue is one batch: taking an item that is there costs
\* no time of the batch window.  The last request of each robot stands; a
\* request of a robot that is not in the context fails.
ProcessBatch ==
  /\ server = Idle
  /\ task_request_queue # <<>>
  /\ task_request_queue' = <<>>
  /\ LET items == task_request_queue
         last == LastRequests(items)
         valid == {n \in last : items[n].robot_id \in DOMAIN context}
         Ids(places) == {items[n].task_id : n \in places}
         tasks == [r \in {items[n].robot_id : n \in valid} |->
                     items[CHOOSE n \in valid : items[n].robot_id = r]]
     IN /\ statuses' =
             Published(Published(Published(statuses,
               Ids(DOMAIN items \ last), "SUPERSEDED"),
               Ids(last \ valid), "FAILED"),
               Ids(valid), "PLANNING")
        /\ IF valid = {}
           THEN UNCHANGED <<server, request_counter>>
           ELSE /\ request_counter' = request_counter + 1
                /\ server' = [at |-> "waiting", tasks |-> tasks, request_id |-> request_counter']
  /\ UNCHANGED <<responses, callback, context, task_plan, final_waypoints>>

BatchFails ==
  /\ statuses' = Published(statuses, TaskIdsOf(server.tasks), "FAILED")
  /\ server' = Idle

\* Mutant: any answer will do.
AnyAnswer(response) == TRUE

\* Whether this is the answer that is waited for.
Answers(response) == response.request_id = server.request_id

\* _wait_for_committed_locations: answers to other requests are dropped.
TakeResponse ==
  /\ server.at = "waiting"
  /\ responses # <<>>
  /\ responses' = Tail(responses)
  /\ server' = IF ~Answers(Head(responses)) THEN server
               ELSE [ at |-> "solving", tasks |-> server.tasks,
                      committed |-> Head(responses).committed_locations,
                      stationary |-> Head(responses).stationary_agents ]
  /\ UNCHANGED <<task_request_queue, callback, request_counter, context, task_plan,
                 final_waypoints, statuses>>

WaitTimesOut ==
  /\ server.at = "waiting"
  /\ BatchFails
  /\ UNCHANGED <<task_request_queue, responses, callback, request_counter, context,
                 task_plan, final_waypoints>>

-----------------------------------------------------------------------------
(* MAPFCoordinator.solve.                                                  *)

\* The agents of the MAPF problem: all that are not stationary, those without
\* a new task included.
Agents(stationary) == DOMAIN context \ stationary

StartOf(committed, r) ==
  IF r \in DOMAIN committed THEN committed[r].location ELSE context[r].start_location

GoalOf(tasks, r) == IF r \in DOMAIN tasks THEN tasks[r].goal ELSE context[r].goal_location

\* What it returns no plans for, or raises PlanningError for.
Refuses(tasks, committed, stationary) ==
  LET agents == Agents(stationary)
  IN \/ agents = {}
     \/ \E r \in agents : None \in {StartOf(committed, r), GoalOf(tasks, r)}
     \/ \E r, s \in agents : r # s /\ GoalOf(tasks, r) = GoalOf(tasks, s)
     \/ \E r \in agents, s \in stationary \cap DOMAIN context :
          GoalOf(tasks, r) = context[s].start_location

\* A stationary agent is an obstacle when the context knows its goal.
Obstacles(stationary) ==
  {context[r].goal_location : r \in stationary \cap DOMAIN context} \ {None}

Solutions(tasks, committed, stationary) ==
  IF Refuses(tasks, committed, stationary) THEN {}
  ELSE Solver([r \in Agents(stationary) |-> StartOf(committed, r)],
              [r \in Agents(stationary) |-> GoalOf(tasks, r)],
              Obstacles(stationary))

-----------------------------------------------------------------------------
(* The batch from the executor's answer on.                                *)

\* Mutant: a task that is planned again keeps its plan's id.
PlanIdKept(task, request) ==
  IF task.task_id \in DOMAIN task_plan
  THEN task_plan[task.task_id]
  ELSE [destination_session |-> <<request, task.robot_id>>, plan_version |-> 0]

\* _get_or_create_plan_id: a new session has the id of the request and of the
\* robot, which no other has.
PlanIdFor(task, request) ==
  IF task.task_id \in DOMAIN task_plan
  THEN [task_plan[task.task_id] EXCEPT !.plan_version = @ + 1]
  ELSE [destination_session |-> <<request, task.robot_id>>, plan_version |-> 0]

\* Mutant: the progress of every plan starts from 0.
NoOffset(committed, r) == 0

\* The offset of progress at a robot's committed location.
OffsetOf(committed, r) == IF r \in DOMAIN committed THEN committed[r].progress ELSE 0
RetainedOf(committed, r) == IF r \in DOMAIN committed THEN committed[r].waypoint_index ELSE 0

\* Every task of the batch gets a plan id, before it is known whether there
\* will be a plan.
AssignPlanIds ==
  /\ server.at = "solving"
  /\ LET tasks == server.tasks
         plan_ids == [r \in DOMAIN tasks |-> PlanIdFor(tasks[r], request_counter)]
     IN /\ task_plan' = [t \in DOMAIN task_plan \cup TaskIdsOf(tasks) |->
                           IF t \in TaskIdsOf(tasks)
                           THEN plan_ids[CHOOSE r \in DOMAIN tasks : tasks[r].task_id = t]
                           ELSE task_plan[t]]
        /\ server' = [ at |-> "identified", tasks |-> tasks, plan_ids |-> plan_ids,
                       committed |-> server.committed,
                       stationary |-> server.stationary \ DOMAIN tasks ]
  /\ UNCHANGED <<task_request_queue, responses, callback, request_counter, context,
                 final_waypoints, statuses>>

\* From the snapshot of the context to the final waypoints.  A robot without a
\* new task that the solution moves has no plan id: the KeyError ends the
\* thread.
Solve ==
  /\ server.at = "identified"
  /\ LET tasks == server.tasks
         committed == server.committed
         plan_ids == server.plan_ids
         solutions == Solutions(tasks, committed, server.stationary)
         Moving(paths) == {r \in DOMAIN paths : Len(paths[r]) > 1}
     IN \/ /\ solutions = {}
           /\ BatchFails
           /\ UNCHANGED final_waypoints
        \/ \E paths \in solutions :
             IF ~(Moving(paths) \subseteq DOMAIN tasks)
             THEN /\ server' = Dead
                  /\ UNCHANGED <<final_waypoints, statuses>>
             ELSE LET plans == Generate(paths, plan_ids,
                                        [r \in DOMAIN paths |-> OffsetOf(committed, r)])
                      final == [r \in DOMAIN plans |->
                                  RetainedOf(committed, r) + LastIndex(plans[r])]
                      ids == {plan_ids[r] : r \in DOMAIN plans}
                  IN /\ final_waypoints' =
                          [id \in DOMAIN final_waypoints \cup ids |->
                             IF id \in ids
                             THEN final[CHOOSE r \in DOMAIN plans : plan_ids[r] = id]
                             ELSE final_waypoints[id]]
                     /\ server' = [ at |-> "publishing", tasks |-> tasks,
                                    committed |-> committed, plan_ids |-> plan_ids,
                                    plans |-> plans, left |-> DOMAIN plans ]
                     /\ UNCHANGED statuses
  /\ UNCHANGED <<task_request_queue, responses, callback, request_counter, context, task_plan>>

\* Each robot has a plan topic of its own: the plans may arrive in any order.
PublishPlan(r) ==
  /\ server.at = "publishing"
  /\ r \in server.left
  /\ server' = [server EXCEPT !.left = @ \ {r}]
  /\ UNCHANGED <<task_request_queue, responses, callback, request_counter, context,
                 task_plan, final_waypoints, statuses>>

\* The tasks that the context still has plans for are replaced.
SupersedeTasks ==
  /\ server.at = "publishing"
  /\ server.left = {}
  /\ LET Old(r) == context[r].plan_id \notin {None, server.plan_ids[r]}
     IN statuses' = Published(statuses,
                      {context[r].task_id : r \in {s \in DOMAIN server.tasks : Old(s)}},
                      "SUPERSEDED")
  /\ server' = [server EXCEPT !.at = "recording"]
  /\ UNCHANGED <<task_request_queue, responses, callback, request_counter, context,
                 task_plan, final_waypoints>>

\* MultiAgentContext.on_solve_success, and the batch is done.
RecordBatch ==
  /\ server.at = "recording"
  /\ LET Located(r) == IF r \in DOMAIN server.committed
                       THEN [context[r] EXCEPT !.start_location = server.committed[r].location]
                       ELSE context[r]
     IN context' = [r \in DOMAIN context |->
          IF r \in DOMAIN server.tasks
          THEN [Located(r) EXCEPT !.task_id = server.tasks[r].task_id,
                                  !.plan_id = server.plan_ids[r],
                                  !.goal_location = server.tasks[r].goal,
                                  !.status = "EXECUTING"]
          ELSE Located(r)]
  /\ statuses' = Published(statuses, TaskIdsOf(server.tasks), "PLANNED")
  /\ server' = Idle
  /\ UNCHANGED <<task_request_queue, responses, callback, request_counter, task_plan,
                 final_waypoints>>

-----------------------------------------------------------------------------
(* Robots are announced: _add_robot.                                       *)

\* Mutant: only when all of them are.
AllAgentsExecute ==
  DOMAIN context # {} /\ \A r \in DOMAIN context : context[r].status = "EXECUTING"

HasExecutingAgents == \E r \in DOMAIN context : context[r].status = "EXECUTING"

\* initialise_agent: a new entry, or a new place for a robot that has one.
Initialised(r, location) ==
  LET entry == IF r \in DOMAIN context THEN context[r]
               ELSE [ status |-> "IDLE", task_id |-> None, plan_id |-> None,
                      start_location |-> None, goal_location |-> None ]
  IN [s \in DOMAIN context \cup {r} |->
        IF s = r THEN [entry EXCEPT !.start_location = location, !.goal_location = location]
                 ELSE context[s]]

\* Nobody is added while an entry says that its robot is executing: the caller
\* gets a RuntimeError.
AddRobot(r, location) ==
  /\ context' = IF HasExecutingAgents THEN context ELSE Initialised(r, location)
  /\ UNCHANGED <<task_request_queue, responses, server, callback, request_counter,
                 task_plan, final_waypoints, statuses>>

-----------------------------------------------------------------------------
(* _on_progress.                                                           *)

\* Mutants: a robot that has reached all it was given is done; the index is
\* compared with a count.
IsCaughtUp(report) ==
  /\ report.plan_id \in DOMAIN final_waypoints
  /\ report.reached_waypoint = report.target_waypoint

IsPastFinal(report) ==
  /\ report.plan_id \in DOMAIN final_waypoints
  /\ report.reached_waypoint = report.target_waypoint
  /\ report.reached_waypoint = final_waypoints[report.plan_id] + 1

\* The report that the last waypoint of a plan has been reached.
IsFinal(report) ==
  /\ report.plan_id \in DOMAIN final_waypoints
  /\ report.reached_waypoint = report.target_waypoint
  /\ report.reached_waypoint = final_waypoints[report.plan_id]

\* The callback looks at a report.  For the last one of a plan it begins to
\* go through _task_id_to_plan_id for the plan's task.
OnProgress(r, report) ==
  /\ callback = Idle
  /\ callback' = IF ~IsFinal(report) THEN Idle
                 ELSE [at |-> "scanning", robot |-> r, plan_id |-> report.plan_id,
                       scanned |-> task_plan]
  /\ UNCHANGED <<task_request_queue, responses, server, request_counter, context,
                 task_plan, final_waypoints, statuses>>

\* The worker thread has added a task in the meantime: "dictionary changed
\* size during iteration", and the callback ends with a RuntimeError.
ScanFails ==
  /\ callback.at = "scanning"
  /\ DOMAIN callback.scanned # DOMAIN task_plan
  /\ callback' = Dead
  /\ UNCHANGED <<task_request_queue, responses, server, request_counter, context,
                 task_plan, final_waypoints, statuses>>

TasksOf(ids, plan_id) == {t \in DOMAIN ids : ids[t] = plan_id}

\* Mutant: the end of any plan is the end of the one the entry names.
EntryExists(r, plan_id) == r \in DOMAIN context /\ context[r].plan_id # None

EntryNames(r, plan_id) == r \in DOMAIN context /\ context[r].plan_id = plan_id

\* The scan ends with the task whose plan this is, or was when its entry was
\* looked at; task and plan are forgotten.  on_completed goes on if the
\* context's entry names the plan.
ScanEnds ==
  /\ callback.at = "scanning"
  /\ \E done \in {TasksOf(callback.scanned, callback.plan_id), TasksOf(task_plan, callback.plan_id)} :
       /\ task_plan' = [t \in DOMAIN task_plan \ done |-> task_plan[t]]
       /\ IF done # {} /\ EntryNames(callback.robot, callback.plan_id)
          THEN /\ callback' = [at |-> "completing", robot |-> callback.robot,
                               plan_id |-> callback.plan_id, tasks |-> done,
                               entry |-> context[callback.robot]]
               /\ UNCHANGED statuses
          ELSE /\ callback' = Idle
               /\ statuses' = Published(statuses, done, "COMPLETED")
  /\ final_waypoints' = Without(final_waypoints, callback.plan_id)
  /\ UNCHANGED <<task_request_queue, responses, server, request_counter, context>>

\* The worker thread has recorded another plan since the entry was looked at.
Overlaps == context[callback.robot].plan_id # callback.entry.plan_id

\* What becomes of an entry: without a lock, each assignment of on_completed
\* may come before or after those of on_solve_success.  The start is the goal
\* as it was read, or the committed location.
CompletedEntries(entry) ==
  IF ~Overlaps
  THEN {[entry EXCEPT !.start_location = entry.goal_location, !.plan_id = None,
                      !.goal_location = None, !.status = "IDLE"]}
  ELSE {[entry EXCEPT !.start_location = start, !.plan_id = id,
                      !.goal_location = goal, !.status = status] :
          start \in {entry.start_location, callback.entry.goal_location}, id \in {entry.plan_id, None},
          goal \in {entry.goal_location, None}, status \in {entry.status, "IDLE"}}
       \cup {[entry EXCEPT !.start_location = entry.goal_location, !.plan_id = None,
                            !.goal_location = None, !.status = status] :
                status \in {entry.status, "IDLE"}}

\* The assignments of on_completed, and the status.
Complete ==
  /\ callback.at = "completing"
  /\ \E entry \in CompletedEntries(context[callback.robot]) :
       context' = [context EXCEPT ![callback.robot] = entry]
  /\ statuses' = Published(statuses, callback.tasks, "COMPLETED")
  /\ callback' = Idle
  /\ UNCHANGED <<task_request_queue, responses, server, request_counter, task_plan,
                 final_waypoints>>

=============================================================================
