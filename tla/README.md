# TLA+ models of RES-MAPF

RES-MAPF takes the solution of a classical multi-agent path finding (MAPF)
problem and executes it on robots: it turns the solution into plans whose
waypoints carry *traffic dependencies* (departure blockers), hands the waypoints
out to the robots as those blockers are satisfied, and plans again while robots
move. This directory holds TLA+ models of that part of the repository, of the
maps and the solver it comes with, of its transports and of the controller that
drives simulated robots, the TLC runs that check them, and machine-checked proofs about the plans made of a
solution, the execution of a batch of them, the search for a solution, what the server plans from, and that controller.

- [1. The system](#1-the-system)
- [2. The modules](#2-the-modules)
- [3. What the runs check](#3-what-the-runs-check)
- [4. Where the code does not do what it says](#4-where-the-code-does-not-do-what-it-says)
- [5. What is proved](#5-what-is-proved)
- [6. Assumptions, bounds and fairness](#6-assumptions-bounds-and-fairness)
- [7. Not modelled](#7-not-modelled)
- [8. Plan](#8-plan)

## 1. The system

### Components

| Component | State it keeps | Operations | Interacts by |
| --- | --- | --- | --- |
| **CBS solver** (`cbs/`, `cbs_adapter.py`) | open and closed nodes; constraints of the node and agent at hand; open and closed states of A* | `CBS.search`, `compute_solution`, `AStar.search` | called by the coordinator |
| **Plan generator** (`plan_generator.py`) | `plans_dict` of one call | `generate`, `_add_traffic_dependencies` | called by the plan server |
| **Multi-agent context** (`multi_agent_context.py`) | per robot: status, task, plan id, start and goal | `initialise_agent`, `on_solve_success`, `on_completed`, `on_failed`, snapshots | called by the server's worker thread and its progress callback |
| **MAPF coordinator** (`mapf_coordinator.py`) | none | `solve` | called by the plan server, reads the context |
| **Plan server** (`plan_server.py`) | request queue, response queue, request counter, plan ids of tasks and robots, final waypoint indices | task requests, `_process_batch`, `_wait_for_committed_locations`, `_on_progress`, `_on_plan_error`, onboarding | worker thread; transport callbacks; messages to clients and to the executor |
| **Plan executor** (`plan_executor.py`) | message queue | `_handle_plan`, `_handle_waypoint_reached`, `_handle_committed_locations_request`, `_dispatch_unblocked` | worker thread; transport and controller callbacks put messages into the queue |
| **Dependency manager** (`dependency_manager.py`) | per robot: plan, current waypoint, latest enqueued waypoint; completed plan ids; commit cut | `set_plan`, `update_plan_after_cut`, `get_valid_waypoints_and_advance`, `update_progress`, `compute_commit_cut`, `on_plan_complete` | called by the executor's worker thread |
| **Robot controller** (`base_robot_controller.py`) | the waypoints it has still to reach | `enqueue`, `on_reached` callbacks | called by the executor, calls back from threads of its own |
| **Shared-memory controller** (`agent_shmd_controller.py`) and **agents** (`res_pybullet/agent/agent.py`) | pending waypoints, step counter; command and feedback slots; the last waypoint the agent completed | `enqueue`, `_publish`, the status thread; `get_target`, `completed` | executor's worker thread, a thread per robot, shared memory with the simulation |
| **PyBullet simulation** | physics | a loop over agents | calls the agents |
| **ROS 2 nodes and transports, message conversion** | publishers, subscriptions | one topic per kind of message, per robot for plans, progress and task requests | ROS 2 topics |
| **Direct transport** (`examples/basic_grid/example.py`) | one callback per robot and topic | calls the other side's callback | the caller's thread |
| **Maps** (`lif_parser.py`, `grid_utils.py`) and **map tools** (`tools/`) | the map, the grid and its obstacles | `load_lif`, `snap_to_grid`, `infer_obstacles`; generate a file, make a readable map of one | read when the server starts; the grid belongs to the solver's adapter |

A task goes through them like this:

    client --robot, start--> PlanServer, PlanExecutor   (each subscribes to the robot's topics)

    client --task request--> PlanServer --committed locations request--> PlanExecutor
                                |  <---- commit cut, stationary robots ------|
                                | MAPFCoordinator.solve, PlanGenerator.generate
                                |---------- a plan per robot --------------->|
                                |                 waypoints, as blockers allow -> controller -> robot
                                |  <---- progress reports --------------- on_reached
    client <--task status-------|

### Behaviours that are hard

- **Interleaving.** The plans of a batch arrive one by one; robots set off
  while others have no plan yet; `on_reached` callbacks, plans and requests meet
  in one queue in any order.
- **Replanning under way.** The executor commits the robots to the locations up
  to a *commit cut* and the server plans from there. The new plan is joined on
  behind the cut, other robots' blockers are renamed ("restamped") to its id,
  and progress goes on counting from the committed location. All of it has to
  agree although robots keep moving in between.
- **Waiting.** Blockers make robots wait for each other: not too little, or
  they collide; not in a circle, or nobody moves; never for a plan or a progress
  that does not exist.
- **Shared memory.** Controller and agent share a command and a feedback slot,
  and two threads of the controller a list, without a lock.
- **Search.** Constraint nodes are compared by their solutions; an agent rests at
  its goal for ever, also while others are still on their way.
- **Failure.** A wait times out, a solver finds nothing, a robot is unknown, a
  stale answer arrives for the next batch. An assertion or an exception that
  escapes a handler ends a worker thread for good.
- **Reporting.** A task is COMPLETED when a report matches the final index that
  the server has computed over the retained and the new waypoints. The callback
  that finds out runs in another thread than the one that plans, and the two
  change the same dictionaries and entries without a common lock.
- **Announcing.** A robot may be announced in two ways, late, or again; nobody may
  be added while robots move.
- **Measuring.** The spacing of a grid is a greatest common divisor of measured
  distances.

`PROJECT.json` lists the hazards of the code, each at its line, with the properties
that cover it or a note that says why none does.

### What makes each component correct

- *Plan generator*: wherever two robots visit the same location, blockers let
  only the later one wait; every blocker asks for progress that will be made;
  the blockers of a solution never make robots wait in a circle.
- *Dependency manager*: a waypoint is released after everybody who visits it
  before has left; the commit cut covers what has been released, is closed
  under blockers, is never taken back, and every robot can reach it; joining
  plans keeps what was dispatched, an edge of the map at the seam, increasing
  progress and current blockers.
- *Executor and controller*: no report is lost, repeated or overtaken; the
  worker thread survives; a location belongs to one robot at a time.
- *Shared-memory controller*: it is a FIFO controller: waypoints are visited and
  reported in order, each once.
- *CBS*: the answer is a solution of minimal cost, and there is an answer.
- *Plan server and context*: plan ids are never reused; the answer that is used is
  the one the executor keeps to; COMPLETED means executed; the end of every plan is
  recorded, and an entry that says IDLE is right; each task ends; plans keep away
  from robots that stay where they are.
- *Transports*: what is announced is subscribed to, once; messages arrive as sent.
- *Maps*: the grid is the drawing, and steps on it are edges of the file.

## 2. The modules

| Module | Models | Lines of the code |
| --- | --- | --- |
| `Plans` | waypoints, traffic dependencies, plans; what execution relies on in a batch (`BatchAssumption`, and `BlockersOnBatch` for its commit cuts), and when its robots never wait for each other in a circle (`NoCircularWait`) | `traffic_dependencies/models/` |
| `MapfSolution` | conflicts of a MAPF solution, robots that rotate | `cbs.py` `get_first_conflict`, `get_state`, `get_neighbors` |
| `PlanGenerator` | `generate` as a function from paths to plans | `plan_generator.py`, `cbs_adapter.py` |
| `GeneratedPlans` | every conflict-free solution, grown by timesteps, and its plans | composes `PlanGenerator` and `MapfSolution` |
| `SolutionProofs`, `PlanGeneratorProofs` | the proofs about the plans of any solution, and about `GeneratedPlans` | |
| `DependencyManager` | the manager as a record `dm`, its methods as operators | `dependency_manager.py` |
| `DependencyManagerProofs` | the proofs about the manager's operations: the loop of the commit cut, joined plans, the dispatch | |
| `PlanExecutor` | queue, worker thread, handlers, controller | `plan_executor.py`, `base_robot_controller.py` |
| `BatchExecution` | executor on one batch; properties and inductive invariant | composes `PlanExecutor` with an environment |
| `LocationReservation` | abstract specification: a location belongs to one robot at a time | what the README of the repository promises |
| `BatchExecutionProofs`, `NatOrder` | the proofs about it | |
| `Transports` | who is subscribed to what, how often a message is delivered, and what is left of it | `ros2_plan_server_transport.py`, `ros2_plan_executor_transport.py`, `plan_conversion.py`, `example.py`, the onboarding of `plan_server.py` and `plan_executor.py` |
| `PlanServer` | server, its progress callback, context and coordinator | `plan_server.py`, `multi_agent_context.py`, `mapf_coordinator.py` |
| `MapfSystem` | server, executor, transport, robots and a client together | composes `PlanServer`, `PlanExecutor` and `Transports` |
| `MapfSystemProofs` | the proofs about it | |
| `GridEnvironment` | constraints, moves on the grid, first conflict | `cbs.py` `Environment`, `constraints.py` |
| `LowLevelSearch` | A*, one action per turn of the loop | `a_star.py` |
| `ConstraintSearch` | `CBS.search`; composes the two above | `cbs.py` |
| `GridMaps` | files, what the parser makes of them, the grid and its obstacles, as operators | `lif_parser.py`, `grid_utils.py`, `generate_lif_from_grid.py`, `lif_to_readable_map.py` |
| `MapPlanning` | start of the server with a map, and a problem from names to named steps; composes `GridMaps` and `ConstraintSearch` | `plan_server_node.py`, `cbs_adapter.py` |
| `ConstraintSearchProofs` | the proofs about the search and `MapPlanning` | |
| `SharedMemoryAgent` | controller threads and agent of one robot | `agent_shmd_controller.py`, `agent.py` |
| `SharedMemoryAgentProofs` | the proofs about it | |
| `MCMaps`, `MCPlanGenerator`, `MCBatchExecution`, `MCMapfSystem`, `MCConstraintSearch` | maps, batches, tasks and problems for TLC | |

`PROJECT.json` maps every definition to the lines it stands for.

**State.** `dm` has the fields of `DependencyManager`: `robots` (the keys of
`_robots`, in insertion order, which the loops over the dictionary follow),
`plan`, `current_waypoint`, `latest_enqueued`, `completed_plan_ids` and
`cut_indices`. `message_queue` is the executor's queue; `pending` is what the
controller has still to do, `at` where robots are. `alive` is FALSE once an
exception has escaped a handler: `_run` catches none. `server` is the program
point of the server's worker thread with its locals (`idle`, `waiting`,
`solving`, `identified`, `publishing`, `recording`, `dead`), `callback` that of
the progress callback (`idle`, `scanning`, `completing`, `dead`). `participants` and
`subscriptions` say for each side which names it has noted and how often a message
about a robot is delivered. `scenario` is the script of the client (announcements
and tasks, in order) with the places where robots stand, `sent` how far it is.

**Steps.** A handler of the executor is one action, with everything it calls:
`HandlePlan` chooses between `set_plan` and `update_plan_after_cut` (with the
restamping) and ends with the dispatch of every robot; `HandleWaypointReached`
records progress, sends the report, completes the plan and dispatches;
`HandleCommittedLocationsRequest` computes, stores and answers the cut. Only
that thread touches the manager, so handlers are atomic for everybody else.
A callback is an action that appends to the queue. The server's `_process_batch`
is split where another thread or the executor can see something in between:
taking the batch, an answer or a timeout, plan ids, solving, each plan published,
superseding, recording.

`_on_progress` takes a lock that the worker thread does not take, so it is split where
the two meet: it looks at the report (`OnProgress`), goes through the dictionary of
plan ids (`ScanEnds`, or `ScanFails` when the worker has added a task since: Python
raises `RuntimeError`), and changes the context's entry (`Complete`). `on_completed` and
`on_solve_success` assign to the fields of one entry without a lock. The worker's
assignments are one step (`RecordBatch`); when that step falls between the look at
the entry and `Complete`, each assignment of one may have come before or after those of
the other, and `CompletedEntries` is the set of entries this can leave. `overlapped`
records for which robots it has happened.

**Announcing.** `set.update(robot_id)` adds the letters of an id to the set of
participants, and not the id (ids have more than one letter). So a robot that is onboarded again is subscribed and
initialised again, unless it was discovered before. With the direct transport the new callback takes the place of the
old; in ROS 2 the old subscription stays with the node and a plan arrives twice.
The copies of a message are next to each other in the model. A refused announcement
raises `RuntimeError`: it ends the client that has called the server, or, in
ROS 2, the server.

**Maps.** A case of `MapPlanning` is a file and a problem in the names of its nodes.
The server reads the file (`LoadMap`), makes the grid (`Snap`), and the adapter
turns the problem into one in cells (`Solve`), searches, and gives the cells of the
paths names again (`ConvertCbs`). Coordinates are integers in a unit as small as an
error of measurement, so `_float_gcd` and the gap that counts have tolerances
of a few units. A node of a generated map has its cell for a name.

**Search.** `ConstraintSearch` computes the solution of one node at a time, agent after
agent, as `compute_solution` does; `new_nodes` holds the constraints of the nodes
to be computed. A* takes any of the best open states, as `min` over a set may;
`found_path` makes the choice the same each time an agent is searched for with the same constraints.

**Shared memory.** A step of `SharedMemoryAgent` is what happens between two accesses
that others can see: an item of `_pending` listed (`ListNext`), the command written, the
feedback read (`Poll`), compared and reported (`Check`), the waypoint taken off
(`Pop`), the command read (`GetTarget`), the feedback written (`Completed`). `races`
records that a pop has fallen between two items of a list (`"torn"`) or that a
completion was overwritten before it was read (`"overwritten"`).

**Loops.** The release loop of `get_valid_waypoints_and_advance` is
`Advanced`: the first waypoint that it reaches and cannot go beyond. `Overruns`
says when it would read behind the plan's end. The while loop of
`_compute_commit_cut` is the recursive function `CommitCutLoop` over rounds, each a
pass over the robots in order, with the cycle heuristic of the code.

**Data.** Positions, actions, workflow, map names, reasons and timestamps are
left out. Progress is a float that only ever holds sums of timesteps, so it is a
whole number. Blocker lists are sets: they are only ever read as a conjunction or
for a maximum. A session's UUID is the pair of request number and robot, which
no other session has. The queue of a batch is taken whole.

**Mutants.** Operators commented `Mutant:` are not part of the models. Each is a
plausible mistake in the definition below it; with it in that definition's
place the run named in `PROJECT.json` finds its property violated. They show
that the properties depend on the code.

## 3. What the runs check

### Plan generation (`MCPlanGenerator`)

| Run | Shows |
| --- | --- |
| `plan_generator` | For all conflict-free solutions of up to four positions of three robots on a 3x2 grid (28 060): `AllVisitsOrdered` (every two visits of a location are ordered by a blocker, and the blockers work with progress offsets), `BlockersAttainable`, `SomeoneMayDepart` (wherever robots are in their plans, one of them has no blocker to wait for unless all are at the end, except when robots rotate) |

Four positions are enough for a robot to follow, to wait for, to exchange
places with and to come back to the place of another one.

### Execution of a batch (`MCBatchExecution`)

| Run | Instance | Shows |
| --- | --- | --- |
| `batch_unordered` | two robots, all goals; plans and two requests in any order | `TypeOK`, the inductive invariant `IInv`, `NoCollision`, `VisitOrder`, refinement of `LocationReservation`; `InFlightInOrder`: what is between current and latest enqueued waypoint is in flight exactly once, in order; `ExecutorSurvives`: nothing stops the worker thread but a request that is handled when only some plans of the batch are there |
| `batch_three_robots` | a convoy, an exchange of places and a crossing; two requests, before the batch or after all of it | `CutNeverRetracts`: a second request never takes back what the first has committed; `CutIsReached`: the cut has to be extended over two robots, and every robot gets to its cut; `NeverStuck`: without requests, there is a message to handle or a robot on its way until all is executed; `BatchCompletes`: without requests every plan is executed |

`NoCollision` looks at what the controller owns: where a robot is and all that is
pending for it. `VisitOrder` is stronger: locations are visited in the order of
the MAPF solution, even when robots could not meet.

### Maps and the solver (`MCConstraintSearch`)

| Run | Instance | Shows |
| --- | --- | --- |
| `constraint_search` | all drawings of up to 3x3 cells, measured exactly, with errors below the gap that counts and with errors above it; files without layouts, nodes, fields, with doubled names or places | `GridIsTheDrawing`: columns, rows and dimension are those of the drawing, whatever is left out of it |
| | problems on grids of up to 3x3: agents that cross, that rest in the way, that change places in a niche, three agents, two that start in one place, one that cannot move, gaps, an unknown name | `LowLevelIsShortest`: a path of A* keeps to its constraints, also while the agent rests, and none is shorter; `AnswerIsASolution`; `AnswerIsOptimal`, against an enumeration of all solutions; `OptimumStaysOpen`: leaving out equal nodes never loses the last optimal solution; `CostNeverDrops`; `StepsFollowEdges`: where the file's edges join all neighbours, named steps follow them from the agent's start to its goal; `PlanningEnds`: with steps, a refusal, or an exception |
| `map_gaps` | a drawing with an obstacle between start and goal | violation, section 4 |

### The shared-memory controller (`SharedMemoryAgent`)

| Run | Instance | Shows |
| --- | --- | --- |
| `shared_memory_agent` | five waypoints, at most three of them not reported | `ReportsAreVisits`, `NeverGoesBack`: whatever the races, reports are visits, in order, and the agent only goes forward; `SkipsOnlyWhenTorn`, `AllReported`: a waypoint is left out only when a command was torn, and goes unreported only then or when a completion was overwritten; `IInv`, the inductive invariant |

### The whole system (`MCMapfSystem`)

| Run | Instance | Shows |
| --- | --- | --- |
| `system_replans` | three robots in a line, all sent elsewhere under way; two robots with taken goals, tasks sent twice, two or three tasks of one robot, a way past a robot that has arrived, one of two redirected; robots announced late, again, in both ways or not at all, tasks of unknown ones; one wait may time out | see below |
| `system_single_wave` | every pair of goals, one wait may time out | `NoCollision`, `TasksEnd`: the client hears of the end of both tasks |
| `system_redirect`, `system_others_moving`, `system_stationary`, `system_ros` | | violations, section 4 |

What `system_replans` checks:

- Plans that replace others: `RoutesFollowMap` (edges of the map, at the seam too),
  `CutBoundsDispatch`, `BlockersAreCurrent` (nobody waits for a plan, or a part of
  one, that was replaced), `ProgressKeepsIncreasing`, `DispatchedIsKept`.
- Server and executor agree: `PlanIdsAreFresh` (no two plans on their way, and none
  there, have one id); `AnswerIsCurrent` (what the server plans from is the cut that
  the executor keeps to, although a stale answer may be in the queue);
  `CompletedIsExecuted`.
- The context: `IdleIsDone` (an entry that says IDLE belongs to a robot that has
  finished, unless an end and a new plan were recorded at once); `EndIsRecorded`
  (when nothing is under way, an entry names an executed plan only for one of two
  reasons, which section 4 describes); `AddedAtRest` (a robot is added while none moves, unless the server is
  at a batch or entries were torn).

A callback that has ended with an exception never rests again, so that `IdleIsDone` and
`EndIsRecorded` say nothing of the report that is lost then (section 4, *a final report while a
task is new*).

The states where the exceptions apply are reached by the run.

Together the passing runs take every action and every disjunct of the next-state
relations, the dead threads included. `CHECK_DEADLOCK FALSE` is in every
configuration: a batch ends when all is executed, and clients stop sending tasks.

## 4. Where the code does not do what it says

These have a run that shows them; the quotations and lines are in `PROJECT.json`.

| Run | What happens |
| --- | --- |
| `system_redirect` | Two robots that get new tasks while they move are sent to one location. The blockers of new plans order only the new plans among each other: a robot on its new plan does not wait for another one that is still on the committed part of its old plan. |
| `system_others_moving` | A new task for one robot while another one moves: the solution also has steps for the other robot, for which `plan_ids` has no entry. The `KeyError` ends the server's worker thread. |
| `system_stationary` | A robot that has completed its task has no goal in the context, so it is no obstacle, and a plan leads through it. |
| `system_ros` | The ROS 2 executor leaves the progress of committed locations out of its answer; the server reads 0. The progress of the next plan starts from 0 again in the middle of the joined plan, and blockers that compare with it are satisfied too early. |
| `map_gaps` | The generator leaves obstacles of a drawing out of the file, and `infer_obstacles` knows cells of nodes only. A gap is an obstacle on the readable map and free to the solver; a path through it has no node names, and the `KeyError` in `_convert_cbs` ends the server's worker thread. |

Other limits have no run of their own. They show as conditions of properties, in
the instances of a run, or in the models only:

- The *second task of a robot* that has completed its first one is never COMPLETED: the
  waypoint index of the completed plan is added to the final index of the next
  (plan_server.py:294), which the executor numbers from 0. This is the first
  exception of `EndIsRecorded`. (Here the cut is as long as the plan. A
  shorter one would stop the robot before its goal.)
- The *end of a plan that comes too early*, before the plan is recorded, is ignored, and the
  agent stays EXECUTING; so it does when its task was requested again in a batch that
  failed, which has taken the task's plan id away. This is the second exception of
  `EndIsRecorded`. No robot can be added from then on.
- A *final report while a task is new*: the scan of `_on_progress` raises `RuntimeError`. With
  the direct transport it is the executor's worker thread that has called, and ends, so that
  no robot is given another waypoint; in ROS 2 the server.
- *Torn entries*: a robot that sets off on a new plan while the end of its last one is
  recorded may have an entry that says IDLE, without a goal or a plan. Then a
  robot may be added while it moves, and the coordinator refuses to plan for it.
- *Adding while plans are made*: nobody is EXECUTING until a batch is recorded, so a robot may be
  added between the request and the end of the batch, when robots move already, and
  one that is announced again gets the place it is said to be in.
- *Announced twice in ROS 2*: a robot that is onboarded and discovered gets each
  plan twice. The second copy has the id of the plan in execution and is joined to it, so that
  the robot is sent from its goal to its start and goes the same way again. No run has
  both at once: with `Ros`, a script that announces a robot in both ways violates `RoutesFollowMap`
  in a single wave.
- A *task whose goal is where its robot is* becomes PLANNED and stays it: without
  steps there is no plan, and no report.
- *Irregular coordinates* give a spacing as small as their smallest common part: the grid
  has as many cells as this needs, most of them without a node.
- The planner of `examples/docker` calls `CBSAdapter()` without the grid that the adapter
  requires (planner_app/main.py:58).
- A *stored cut* outlives its plan: `set_plan` leaves it. When the robot's next plan
  is shorter than the cut, `get_valid_waypoints_and_advance` reads behind the plan's end
  and the `IndexError` ends the executor's worker thread (`OverrunAt`). When the
  batch it was computed for fails, no plan removes it: the robots stop at their
  cuts and never complete their plans.
- A *torn command*: `_publish` iterates over `_pending` while the status thread
  takes its first item off; the iteration goes by position and leaves an item
  out. The agent skips that waypoint, the controller waits for it for ever. The
  interface says that "robots are expected to move to waypoints in FIFO order,
  calling on_reached for each" (base_robot_controller.py:47).
- An *overwritten completion*: the feedback slot holds one. Two waypoints
  completed within one polling interval of half a second lose the first, and the
  controller waits for it for ever. `AllReported` has these two as its only exceptions.
- *A* does not end* when the goal cannot be reached: its states have a time, so
  a robot that may wait always has a next one. (Two robots that start in one place
  have no solution either, but there the comparison with closed nodes ends the
  search, which `PlanningEnds` checks.)
- A *rotation* of robots, each moving to the place of the next in one timestep,
  has no conflict and so is a legal MAPF solution, but its blockers are a circle and it
  is never executed. `SomeoneMayDepart` makes an exception of it, and nothing else can stop a solution's execution (section 5).
- A request that is handled *between two plans of a batch* meets a blocker on a
  robot without a plan; the assertion in `_extend_commit_cut_for` ends the worker
  thread. The plan topics and the request topic are separate, so nothing orders
  them. `ExecutorSurvives` of `BatchExecution` makes an exception of it.
- The cycle heuristic of the commit cut (two rounds that extend the same robots)
  ends the extension of *robots that circle* a square with one free node too
  early: they are committed to waypoints that they can only reach when others
  pass their cuts. The batches of `batch_three_robots` have no such circle.

`task_status.py` says that SUPERSEDED comes before planning has finished; the
server also publishes it for tasks that were PLANNED.

`NoCollision` is proved for one batch, and for one wave of tasks of the whole system (section 5);
what breaks it here is replanning.

## 5. What is proved

`BatchExecutionProofs` proves, with TLAPS, for any set of robots, any map, any
window `MaxEnqueued`, any number of requests, requests in any order, and any
batches that satisfy `BatchAssumption`:

| Theorem | Statement |
| --- | --- |
| `Invariance` | `Spec => []IInv` |
| `TypeCorrect` | `Spec => []TypeOK` |
| `VisitsInOrder` | `Spec => []VisitOrder` |
| `CollisionFree` | `Spec => []NoCollision` |
| `ImplementsReservation` | `Spec => ReservationSpec` |

**Assumptions.** `BatchAssumption` says what plans are like: plan ids are
distinct, progress increases, visits of one location by two robots are ordered
by a blocker (`VisitsOrdered`), and no blocker asks for more than the plan it
names comes to (`Attainable`). `SolutionProofs` proves all of it of what
`PlanGenerator` makes of a conflict-free solution (`GeneratedIsABatch`, below).
`MaxEnqueued` is a positive number; `NoPlan` is not a plan. TLC evaluates all of
them on every run of `MCBatchExecution`.

**Argument.** `NoCollision` is not inductive: it says nothing of what may be
released next. `VisitOrder` is what the release loop maintains: when waypoint
`b` of a robot has been enqueued, every robot that has to leave the place before
is past it. That is a fact about the manager's *record* of progress, so
`IInv` ties the record to the robots: `PlansInstalled` and `PlansQueued` (each robot
has its plan or will get it, once), `PendingInOrder` (what is pending are the waypoints
from the robot's position to the latest enqueued one), `ReportsInOrder` (reports in the
queue lie between the current waypoint and the position, increasing), and
`CompletedAtEnd` (a completed plan id means a robot at the end of its plan, so
that a blocker on it is rightly passed over). From `VisitOrder` and
`PendingInOrder` follows that two robots hold no common location: of two visits
one precedes the other, and the robot that visits first has already left.

The release loop is handled by three lemmas: it ends at a waypoint that it
reaches (`AdvancedReaches`, from the well-ordering of `Nat` in `NatOrder`), does
not overrun while cuts lie within plans (`NoOverrun`), and a satisfied blocker
means that the robot is past the waypoint (`BlockerPassed`). `DispatchKeeps`
puts them together for a step of any handler, which then has one lemma each. The
commit cut enters the proof only by lying within the plans, which the model's
`CommitCutFails` guards; so the theorems hold whatever its loop computes.

The refinement maps a robot's reservation to `Holds`: handlers only add free
locations, arrival gives up the place left, unless the robot comes there again.

The module adds, from the same assumptions:

| Theorem | Statement |
| --- | --- |
| `FlightInOrder` | `Spec => []InFlightInOrder` |
| `UnrequestedBatchSurvives` | `Spec => []SurvivesUnrequested`: the worker thread runs as long as no committed locations have been asked for |
| `WholeBatchSurvives` | `Spec => []ExecutorSurvives`, when `BlockersOnBatch` holds of all batches |
| `NoneIsStuck` | `Spec => []NeverStuck`, when `NoCircularWait` holds of all batches |

Its invariant `RInv` is `IInv` with `ReportsComplete`: every waypoint from behind the
current one to the robot's position has a report in the queue. `ReportsInOrder` bounds
and orders the reports, `ReportsComplete` says that none is missing, so the place of a
report among those of its robot is the distance of its index from the current waypoint
(`ReportPlaces`, by counting); `PendingInOrder` continues the row to the latest enqueued
waypoint. The second theorem needs that the release loop never reads behind the end of a
plan (`NoOverrun`) and that a request in the queue has been sent (`NoRequestQueued`).

`WholeBatchSurvives` is about any number of requests; `ExecutorSurvives` leaves out those handled
between two plans of the batch. When the batch is there as a whole every robot that
a blocker names is known, with the plan the blocker names (`BlockersOnBatch`, which `GeneratedIsABatch`'s
plans have: `BlockersAreAttainable` says so), and the two assertions of
`_extend_commit_cut_for` hold. `CutCoversReleased` of `DependencyManagerProofs` gives the rest, for any manager:
the loop ends, and its cut lies between what has been enqueued and the end of the plan. The
rounds are a recursive function over states of the loop, so that it has a value at all has to be
proved: every round but the last makes the places ahead of the cut fewer, and of the
states where no value is determined one has the fewest places ahead.

`NoneIsStuck` is the safety half of `BatchCompletes`: when nothing is left to
handle or to reach, every plan is executed. Its invariant `NInv` adds to `RInv` what the release loop
leaves behind: after a handler each robot that is known has been given all it may be
given (`FullyDispatched`), so a robot that stands still with an
empty queue is at the end or has a blocker that is not satisfied; with empty queues the
record of progress is where the robots are, and `NoCircularWait` then
names a robot that has no such blocker.

`PlanGeneratorProofs` proves, for any finite set of robots, any map, any length
of paths and any progress offsets:

| Theorem | Statement |
| --- | --- |
| `VisitsAreOrdered` | `Spec => []AllVisitsOrdered` |
| `BlockersAreAttainable` | `Spec => []BlockersAttainable` |
| `SomeoneMayAlwaysDepart` | `Spec => []SomeoneMayDepart` |
| `GeneratedIsABatch` | the plans satisfy `BatchAssumption` when each robot has somewhere to go |

So the theorems above hold of every conflict-free solution, without anything
assumed of its plans, and `NoneIsStuck` of every one in which no robots rotate.
The argument for the first: two visits of a location in a conflict-free solution lie apart in time
(`VisitsApart`), so one robot has left before the other enters, and the generator's
search for the first entry (`FirstToEnter`) finds that
entry or an earlier one of the same robot, whose blocker is then
a blocker on the way to the later visit too. The argument for the third
(`GeneratedNoCircularWait`): of the robots not at their end take those whose next
move is earliest in the solution. A blocker of one of them names a robot that leaves the place at
that time or before, and has not done so yet; so it is one of the earliest movers too, and moves at the very timestep.
If every one of them waits for another, they are a ring that rotates.

`ConstraintSearchProofs` proves, for any map files, any number of agents, any
obstacles, and whichever of the equally good states and nodes are taken:

| Theorem | Statement |
| --- | --- |
| `PlanningInvariant` | `PlanningSpec => []PlanningInv` |
| `AStarFindsShortestPaths` | `PlanningSpec => []LowLevelIsShortest` |
| `SearchIsSound` | `PlanningSpec => []AnswerIsASolution` |
| `NodesAreTakenInOrder` | `PlanningSpec => CostNeverDrops` |
| `StepsAlwaysFollowEdges` | `PlanningSpec => []StepsFollowEdges` |

**Assumptions.** `CasesAssumption`: when a file loads, its nodes get cells, and the problem names
nodes of it, then agents are numbered and cells are pairs of integers. `GoalsAssumption`: every agent
has a goal. `FilesAssumption`: nodes and edges of a file are lists. TLC evaluates them on the cases of
`constraint_search` and `map_gaps`. What the grid looks like does not matter to the first four
theorems: they hold of any obstacles and dimensions.

**Argument.** A *walk* (`Walk`) is a path made of the moves the constraints leave; it *arrives*
(`Arrives`) when it ends at the goal and may stay there. The invariant of A* (`AStar`) says that
a state's g-score is its time, that the neighbours of a closed state have been found,
and that a closed state is no end. So of each walk that arrives some state is open
(`OpenOnWalk`), and as the heuristic never drops by more than one at a step
(`Consistent`, `GoalIsFarther`), its f-score is at most the walk's length: the state taken at
the goal is the end of a walk that no other is shorter than (`AStarFinds`, `Best`). The path read back
through `came_from` is that walk (`PathsAreWalks`). `LowLevelIsShortest` speaks of the
locations that can be reached at a time, so each of them gets a walk
(`ReachedByWalk`).

That a path keeps to its constraints also depends on the conflict they come of. A wait is not
checked against forbidden moves (`get_neighbors`), so a forbidden move with two equal ends would
forbid nothing. But the *first* conflict is taken: were the ends of its move the
same, the two agents would have met there at that time, a vertex conflict found before it
(`FirstEdgeIsAMove`).

When no conflict is found up to the end of the longest path, there is none
after it, as goals were compared at the last time too (`ConflictFreeIsApart`). This is
`AnswerIsApart`. For the order of costs, a new node
has the constraints of its parent and one more (`NewNodeExtends`), what keeps to them keeps to
the parent's (`WalkForLess`), and its shortest paths are no shorter (`MoreConstraintsCostMore`).
`NodeIsCheapest` says this of the open nodes and those still to be computed. The paths of A* and the sum of costs are recursive
functions; what they compute is proved by taking the least argument for which it fails.

`StepsAlwaysFollowEdges` is about the names of nodes that the server makes of the cells of an answer: a step from a
passable node leads to itself or along an edge of the file, when the file joins every two passable nodes that are neighbours on the
drawing (`IsFullGrid`). It needs what the parser and the grid conversion compute (`MapIs`): no two nodes share a cell, and a cell of the grid that is no
obstacle is that of a node with two ends of edges or more. The invariant says that the problem being searched is that of
the case (`ProblemOfTheCase`) and that what is published are names of the answer's cells (`PlanOfTheNode`). A
path of the answer is a walk, so the agents stand on cells that are free, which have names (`ConvertNames`), and
two neighbouring ones are joined by an edge (`StepMoves`).

`MapfSystemProofs` proves, for any robots, any map, any
script of the client, any number of timeouts, and, where nothing else is said, both transports:

| Theorem | Statement | from |
| --- | --- | --- |
| `AnswersAreCurrent` | `Spec => []AnswerIsCurrent` | nothing |
| `CutsBoundDispatch` | `Spec => []CutBoundsDispatch` | `SolverReturnsPaths` |
| `DispatchedStays` | `Spec => DispatchedIsKept` | `SolverReturnsPaths` |
| `PlansComeWithNewIds` | `Spec => []PlanIdsAreFresh` | `SolverReturnsPaths`, `TasksOfOneRobot`, `~Ros` |
| `JoinedProgressIncreases` | `Spec => []ProgressKeepsIncreasing` | these and `PathsStartAtStarts` |
| `CompletedPlansAreExecuted` | `Spec => CompletedIsExecuted` | the same |
| `RoutesFollowTheMap` | `Spec /\ [][AnnouncedInPlace]_vars => []RoutesFollowMap` | these and `PathsFollowMap` |
| `IdleRobotsAreDone` | `Spec => []IdleIsDone` | as `JoinedProgressIncreases` |
| `RobotsAddedAtRest` | `Spec => AddedAtRest` | the same |
| `EndsAreRecorded` | `Spec => []EndIsRecorded` | the same |
| `OneWaveIsCollisionFree` | `Spec => []NoCollision` | `RoutesFollowTheMap`'s without `AnnouncedInPlace`, `SolverSolves`, `OneWaves`, finitely many robots |

`SolverReturnsPaths` says that a solution has a path, of one position or more, for every agent and
nobody else, `PathsStartAtStarts` that the paths start where the agents do; that paths follow the
map (`PathsFollowMap`) and are free of conflicts (`SolverSolves`) is needed only where it is named. `TasksOfOneRobot` is about the client: a task that
is sent again is for the same robot. The code does not ask for that, but a task id is the key of its
plan id: a task of two robots in one batch would give two plans one id. All scripts of section 3 keep to it.
From `PlansComeWithNewIds` on the theorems are about the direct transport: over ROS 2 a second subscription delivers a plan twice, and the
progress of committed locations is lost, which `system_ros` shows (section 4 describes both).

That an answer has the number of the last request says when it was asked for, not
that it still holds. The executor's queue makes it hold: behind the last request
there are only reports of robots until it is answered (`RequestIsLast`), since the
server, which waits, publishes nothing. So when the answer is there the queue has
nothing in it that changes plans or cuts, and a report changes neither (`AnswerIsLast`); and it stays so
until the plans made of it are published (`AnswerIsTaken`). A wait that
times out makes the number old before the next request goes out.

The next two rest on `PlansInv`. Its core is `Sound`: plans of known robots have waypoints,
what is enqueued lies within the plan and, where a cut is stored, within the cut. `Sound` is kept by
`set_plan` though it leaves an old cut in place, as it starts again at waypoint 0
(`SetPlanIsSound`); by `update_plan_after_cut`, which retains what lies before the cut, or the
whole plan when the cut lies behind its end (`SplicedIs`, `UpdateIsSound`); by the dispatch, whose loop
stops at the cut it has not passed (`AdvancedIs`); and by a new cut, because of `CutCoversReleased`. The plans
that come are made of paths, with offsets the executor has sent before: so the invariant follows
progress from the executor's answer over the plan generator and the transport back to the executor
(`AnswersLocated`, `PlansLeaving`, `PlansComing`).

`PlanIdsAreFresh` speaks of ids on their way; whether an id comes twice is decided long before, when a
batch is given its ids. `FreshInv` therefore looks at all the ids that somebody still
has (`Held`): the executor, its queue, the reports and the progress callback. Those of a batch are not among them (`DueIsNew`).
A first id has the number of the request in it (`IdsCounted`), which nobody can have before; the next id of
a task has a higher version than any id of its session that somebody has
(`LastVersions`), and two tasks never have one session (`OneTaskPerSession`): for that a task has to
be for one robot. That `ScanEnds` forgets a task does no harm: the next
request is a new session. The ids are given out before it is known whether there will be a plan, so ids of batches that
fail or time out stay in the tasks and are only ever counted on from.

`ProgressKeepsIncreasing` needs that a plan arrives while the cut it was made for is still stored and its
robot's plan is the one that was cut. `AnswersMeasured` says that what the server plans from has location and progress
of the stored cuts, and `Fits` that a plan continues there (`Continues`), from the solution (`SolutionFits`, `PathContinues`) over
the queue (`LeavingFit`, `ComingFit`) until it is joined (`PlanJoins`, `JoinIncreases`). What keeps it is the order of messages (`OrderInv`):
behind a request there is no plan and while plans are published there is no request (`PlansBeforeRequests`), so no new cut is
made in between; and of a batch each robot gets one plan (`OnePlanEach`), so
that plans of the other robots only restamp blockers (`SameFor`).

`CompletedIsExecuted` compares counts of the server with indices of the executor. `Fits` also says where the server
expects the plan to end: at the cut and the new waypoints together, or further on than the plan does (`EndsBy`). With
`KnownFit` a report of the expected waypoint therefore comes from the end of the plan, and the handler that
publishes it also puts the id among the completed ones (`ReportIsDone`). Only expected ends of ids that nobody has change
(`HeldFinalsStay`, from `DueIsNew`), so the report is still right when the callback reads it, whatever
batches come in between (`DoneInv`).

`RoutesFollowMap` relates where a robot is, which no part of the program knows, to what it has been sent.
`RouteInv` places each robot on its plan: there is a waypoint k that it stands at, what is pending is what follows
as far as it has been enqueued (`OnWay`), and what the queue tells of it lies, in order, behind the progress that
the executor has recorded and no further than k (`ReportsUpTo`, `InOrder`). A dispatch goes on where the pending ones
end (`DispatchGoesOn`). When a plan is joined, nothing that was enqueued changes and the seam is one location (`JoinLeads`).
When a plan is set in the place of one that is complete, the old one's cut is its end: the
last waypoint has been reported, so the robot stands there, with nothing pending and no report on its way, and the new plan
starts there (`SetPlanStartsHere`). The plan of a robot that the executor has none of starts where the context says,
and that is where the robot is if it was announced there (`AnnouncedInPlace`): recording a batch and completing a plan
change the place only of robots that have plans (`ContextKept`). The hypothesis is one about the client; the scripts of
`system_replans` keep to it but for the one that announces `r1` again, at 4, which may happen
before the plan that leads `r1` there has come.

`IdleRobotsAreDone` and the two after it are about what the server makes of the executor's reports. `PaceInv` says that everything a robot has
been given or has reported and that is still on its way to the server lies ahead of what the executor has recorded, and
behind the end of the plan. `OwnIds` gives an id to one robot for good, so a report is never taken for one of another robot.
`BusyInv` follows a plan from the batch that is recorded to the report of its end: the entry of a busy robot in the context
names a plan that is about to be sent, on its way, known to the executor or reported as complete and
not yet recorded (`BusyExecutes`). So an entry that is IDLE belongs to a robot that executes nothing (`IdleRobotsAreDone`), and a
robot that is announced again where an entry exists is left alone (`RobotsAddedAtRest`). For `EndsAreRecorded`, `EndInv` adds that the
count of waypoints that the server expects is reached by no earlier report (`PlansExpected`, `Heard`, `EndsReported`): the report of the
end is in the queue or being read as long as the entry is busy and the plan complete, also when the
callback is in the middle of its steps (`Scanning`).

`OneWaveIsCollisionFree` follows a wave through the whole system, with its client, server, queues and timeouts. `OneWaves` is about the client:
it announces every robot, at a place of its own, and then asks for tasks once, as in the scenarios of `system_single_wave`. With a
second wave the theorem would be false: `system_redirect` (section 4). Up to the solution all robots stand where they started, and the
context says so (`Unplanned`); the answer of the executor names nobody, so offsets are 0 and no robot is an obstacle
(`AnswersOfNone`, `SolutionOfWave`). The plans made of the solution are the batch B of the rest of the proof (`WaveIsPlanned`, `PlannedAs`): as
visits of one location are ordered in them (`IsBatch`, from `SolutionProofs`), a waypoint is only
enqueued when the robots that have to leave it first are past it by the executor's own count (`WaveVisitsInOrder`, `DispatchStaysInWave`). `RouteInv` adds that no
robot is behind that count, and has nothing pending beyond what is enqueued, so that two robots that hold one location would have to wait for each other's
leaving it (`HeldInOrder`, `WaveIsApart`). The plans come one by one, so blockers name robots that have none yet; these
stand at the first waypoint of theirs, and robots that get none where nobody comes (`PlacesOfWave`). What `BatchExecutionProofs` shows of
batches that it is given is proved here of those the server makes. The theorem does not need `AnnouncedInPlace`: it follows from
`OneWaves`, as no announcement comes after the request (`WaveAnnounces`).

`SharedMemoryAgentProofs` proves about the controller and its agent, for any number
of waypoints (`MaxSteps`) and any window:

| Theorem | Statement |
| --- | --- |
| `HandshakeInvariance` | `Spec => []IInv` |
| `ReportsAreFIFO` | `Spec => []ReportsAreVisits` |
| `AgentGoesForward` | `Spec => []NeverGoesBack` |
| `VisitsAreFIFO` | `Spec => []SkipsOnlyWhenTorn` |

That a read or a write of the shared dictionary is one step is the model's
assumption. `PendingFollowsReported` says that what is pending follows what has been
reported, without a gap; so a report, of the first pending waypoint, is always the
next one. `CompletionsAreVisits` follows a completion from the agent over the slot to
the comparison. `TargetIsAhead` bounds commands by the step counter and targets
from below by the last one completed, whatever the commands leave out.
`UntornLists` holds while no command was torn: a command is a run of steps that
begins no later than where the agent goes on, because a list, when nothing is taken
off between its items, begins at or before the first step not reported,
and what is reported has been visited. So the first step beyond the last visited is the next.

**Only model-checked.** Liveness (`BatchCompletes`, `CutIsReached`, `TasksEnd`,
`PlanningEnds`, `AllReported`), as proofs under fairness and `ENABLED` are out of the prover's
reach. That a later cut never takes back an earlier one (`CutNeverRetracts`): the loop may end before all
blockers are looked at, as two rounds that extend the same robots are taken for a cycle, so that nothing
in the code compares two cuts but the plans themselves. That the answer of the search is a cheapest one (`AnswerIsOptimal`, `OptimumStaysOpen`):
nodes are compared by their solutions alone, so a node may be dropped for another
with other constraints, and nothing in the code says that the one that is kept leads to an optimum.
That the grid is the drawing (`GridIsTheDrawing`), which is about greatest common divisors of spacings with errors, and of the whole
system `BlockersAreCurrent`, have no proofs: TLC checks them on the instances of section 3. No module with a theorem reaches a RECURSIVE operator: recursion is written as
recursive functions.

## 6. Assumptions, bounds and fairness

**Environment.** The controller does what `BaseRobotController` asks: it reaches
waypoints in order and reports each once. `BatchExecution` lets plans and
requests come in any order (`OrderedRequests = FALSE`) or lets requests come
only before the batch or after all of it, as one publishing thread and an
in-process transport give (`TRUE`). `MapfSystem` delivers what is subscribed to reliably and
in order, except that the plans of a batch, on separate topics, come in any order;
what nobody is subscribed to is dropped. `Ros` chooses the transport: one thread
runs the callbacks of a ROS 2 node, the threads that call run those of the direct one.
The solver may return any conflict-free solution of minimal sum of costs
(`Cheapest`), and none when there is none within the bound on path lengths.
Robots stand where they are first announced. In the scripts of announcements robots are also
announced later, again, or never.

| Bound | Value | Why it is enough |
| --- | --- | --- |
| robots | 1 to 3 | blockers are pairwise; three make chains and cuts that extend over two robots |
| map | 3x2 grid, line of 5 | the grid has two routes between any two nodes, the line one |
| `MaxEnqueued` | 2, the code's default; 1 in `batch_three_robots` | with 1, more of the cut is made by extending it |
| path length | `Longest` 4, 5 for batches, 4 for the system | longest shortest path on the grid is 4 positions; one more to wait |
| `MaxRequests` | 2 | two requests are needed for a cut to be recomputed |
| waves of tasks | 1 to 3 | a second wave replans what the first has started; it comes before, while or after the first is planned, executed and recorded |
| drawings | up to 3x3 cells | a row or column may be empty, at the rim or inside; two or three different gaps |
| `Tolerance`, `GapTolerance`, spacing | 10, 2, 100 units | errors of 1 unit are not gaps, those of 3 are gaps and remainders; as in the code the tolerance of a remainder is larger than that of a gap, and both are small against the spacing |
| problems of the search | eleven | each has what another lacks: a conflict of either type, a goal to be left again, a node without a solution, no answer |
| `MaxSteps`, `Window` | 5, 3 | the executor lets `MaxEnqueued` = 2 waypoints follow the one it has not been told of; with three pending a command is torn in the middle and at its end |
| `MaxTimeouts` | 0 or 1 | one timeout leaves one stale answer and one stored cut |
| `MaxReports` | 1 or 2 | a report that waits while the executor or the server goes on; with 1 the executor waits for the server at the second |

**Fairness.** Weak fairness of the executor's worker thread and of the server's:
both loop over a queue and nothing blocks them but it (and the bounded wait).
`BatchExecution` states it as taking the next message out of the queue, which only
the worker thread does. Of the robots' arrivals and the plans' delivery: a robot
keeps moving to what it has been given, the transport delivers. Of the progress
callback and the client's script. Of `ServerTimeout`: a wait is limited to five
seconds by the code, so one that is not answered ends. No fairness is assumed
of requests in `BatchExecution`: nobody has to send one.

`ConstraintSearch` assumes weak fairness of its one thread. `SharedMemoryAgent`
assumes it of each thread's next turn and of the simulation (targets are looked up
and reached); nobody has to enqueue. No fairness makes the status thread poll
between two completions.

## 7. Not modelled

- The external solver service: I/O, its solutions would be values of `Solver`.
- The simulation's physics; of the shared-memory controller coordinates, the size
  limit of the memory, shutdown.
- Of ROS 2 the queue of depth 10 behind a topic, and so lost messages: nothing in the
  code repeats a report, a plan or a status, so that no property of the end of a task
  holds when one is lost. Task statuses as messages, start and stop.
- The batch window and the limit of 500 items of a batch.
- Pause and resume (the handlers only warn) and errors of plans (nothing
  produces the message), `on_plan_failed` and `on_failed` with them.
- The SUPERSEDED status of the executor, which repeats the server's.
- Parsing of command lines, the layout of the readable map, the visualisers, YAML files.
- The planner of `examples/docker`, which cannot start (section 4).

## 8. How it was built, and what could follow

In this order: `Plans`, `DependencyManager`, `PlanExecutor`, `BatchExecution` with its
proofs and abstract specification; `PlanGenerator`; `PlanServer`;
`MapfSystem`; `ConstraintSearch`; `SharedMemoryAgent` with its proofs; `GridMaps` and
`MapPlanning`; the progress callback in steps; `Transports` with announcements.

Could follow:

1. **The controller's refinement**: `SharedMemoryAgent` without a race implements
   the FIFO controller of `PlanExecutor` (an abstract module of its own).
2. **Repairs**: the models of section 4's faults with the obvious corrections (an
   offset only for plans in execution, progress in the ROS 2 answer, obstacles for all
   cells without a node), and the runs that now show violations as passing ones.
3. **Proofs**: a bound of blockers by the plans they name (`BlockersAreCurrent`).
