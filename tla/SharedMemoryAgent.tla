-------------------------- MODULE SharedMemoryAgent --------------------------
(***************************************************************************)
(* A robot controller that hands waypoints to an agent of the simulation   *)
(* through shared memory (agent_shmd_controller.py), and that agent        *)
(* (res_pybullet/agent/agent.py).  For one robot, three run at a time:     *)
(*                                                                         *)
(*  - the executor's worker thread, which appends waypoints to _pending    *)
(*    and publishes all of _pending as the command;                        *)
(*  - the status thread, which polls the feedback, calls on_reached and    *)
(*    takes the waypoint off _pending;                                     *)
(*  - the simulation's process, which looks up its target in the command   *)
(*    and writes the feedback when it is there.                            *)
(*                                                                         *)
(* The command is a list built while the status thread may shorten         *)
(* _pending, the feedback a slot for one completion: there is no lock.     *)
(*                                                                         *)
(* A waypoint is its step index.  SharedMemoryDict is a library: a value   *)
(* is read or written in one step.                                         *)
(***************************************************************************)
EXTENDS Integers, Sequences

CONSTANTS
  MaxSteps,  \* bound on the waypoints the executor enqueues
  Window,    \* how many the executor lets be enqueued and not reported
  None       \* no value

ASSUME MaxStepsAssumption == MaxSteps \in Nat
ASSUME WindowAssumption == Window \in Nat \ {0}
ASSUME NoneAssumption == None \notin Int

VARIABLES
  pending,       \* _pending
  step_counter,  \* _step_counter
  publishing,    \* the commands listed so far, or None
  position,      \* where in _pending the iteration over it has got to
  command,       \* the command in shared memory
  feedback,      \* action_completion_feedback in shared memory
  status,        \* what the status thread is about to do
  res,           \* the feedback the status thread has read
  target,        \* the target the agent has looked up
  agent_most_recent_wp,
  reported,      \* the on_reached callbacks called
  visited,       \* the waypoints the agent has been to
  races          \* which of the races below have happened

\* x is an element of the sequence s.
Among(x, s) == \E n \in DOMAIN s : s[n] = x

controllerVars == <<pending, step_counter, publishing, position, command>>
statusVars == <<status, res, reported>>
agentVars == <<feedback, target, agent_most_recent_wp, visited>>
vars == <<pending, step_counter, publishing, position, command, feedback,
          status, res, target, agent_most_recent_wp, reported, visited, races>>

Init ==
  /\ pending = <<>>
  /\ step_counter = 0
  /\ publishing = None
  /\ position = 0
  /\ command = <<>>
  /\ feedback = None
  /\ status = "sleep"
  /\ res = None
  /\ target = None
  /\ agent_most_recent_wp = -1
  /\ reported = <<>>
  /\ visited = <<>>
  /\ races = {}

-----------------------------------------------------------------------------
(* The executor's worker thread.                                           *)

\* Mutant: only the new waypoints are published.
EnqueuePublishingNew(n) ==
  /\ publishing = None
  /\ step_counter + n <= MaxSteps
  /\ step_counter + n <= Len(reported) + Window
  /\ pending' = pending \o [k \in 1 .. n |-> step_counter + k - 1]
  /\ step_counter' = step_counter + n
  /\ publishing' = <<>>
  /\ position' = Len(pending)
  /\ UNCHANGED <<command, races>>
  /\ UNCHANGED statusVars
  /\ UNCHANGED agentVars

\* n waypoints become pending, and _publish starts to list what is pending.
Enqueue(n) ==
  /\ publishing = None
  /\ step_counter + n <= MaxSteps
  /\ step_counter + n <= Len(reported) + Window
  /\ pending' = pending \o [k \in 1 .. n |-> step_counter + k - 1]
  /\ step_counter' = step_counter + n
  /\ publishing' = <<>>
  /\ position' = 0
  /\ UNCHANGED <<command, races>>
  /\ UNCHANGED statusVars
  /\ UNCHANGED agentVars

\* The iteration goes by position: what the status thread takes off the front
\* moves the rest up.
ListNext ==
  /\ publishing # None
  /\ position < Len(pending)
  /\ publishing' = Append(publishing, pending[position + 1])
  /\ position' = position + 1
  /\ UNCHANGED <<pending, step_counter, command, races>>
  /\ UNCHANGED statusVars
  /\ UNCHANGED agentVars

Publish ==
  /\ publishing # None
  /\ position >= Len(pending)
  /\ command' = publishing
  /\ publishing' = None
  /\ position' = 0
  /\ UNCHANGED <<pending, step_counter, races>>
  /\ UNCHANGED statusVars
  /\ UNCHANGED agentVars

-----------------------------------------------------------------------------
(* The status thread.                                                      *)

Poll ==
  /\ status = "sleep"
  /\ feedback # None
  /\ status' = "check"
  /\ res' = feedback
  /\ UNCHANGED <<reported, races>>
  /\ UNCHANGED controllerVars
  /\ UNCHANGED agentVars

\* Mutant: any completion is taken for that of the first pending waypoint.
AnyCompletion == pending # <<>>

IsCurrent == pending # <<>> /\ res = Head(pending)

Check ==
  /\ status = "check"
  /\ IF IsCurrent
     THEN status' = "pop" /\ reported' = Append(reported, Head(pending))
     ELSE status' = "sleep" /\ UNCHANGED reported
  /\ res' = None
  /\ UNCHANGED races
  /\ UNCHANGED controllerVars
  /\ UNCHANGED agentVars

\* A pop that falls between the items of a list moves one of them out of it.
Pop ==
  /\ status = "pop"
  /\ pending' = Tail(pending)
  /\ status' = "sleep"
  /\ races' = IF publishing # None /\ position \in 1 .. Len(pending) - 1
              THEN races \cup {"torn"} ELSE races
  /\ UNCHANGED <<step_counter, publishing, position, command, res, reported>>
  /\ UNCHANGED agentVars

-----------------------------------------------------------------------------
(* The agent.                                                              *)

\* Mutant: the last command is the target.
LastTarget(commands) ==
  IF commands = <<>> THEN None ELSE commands[Len(commands)]

\* Mutant: the target may be the waypoint the agent has just been to.
TargetAgain(commands) ==
  LET todo == {n \in DOMAIN commands : commands[n] >= agent_most_recent_wp}
  IN IF todo = {} THEN None ELSE commands[CHOOSE n \in todo : \A m \in todo : n <= m]

\* The first command of the list that is later than the last one completed.
CommandToTarget(commands) ==
  LET todo == {n \in DOMAIN commands : commands[n] > agent_most_recent_wp}
  IN IF todo = {} THEN None ELSE commands[CHOOSE n \in todo : \A m \in todo : n <= m]

GetTarget ==
  /\ target' = CommandToTarget(command)
  /\ UNCHANGED <<feedback, agent_most_recent_wp, visited, races>>
  /\ UNCHANGED controllerVars
  /\ UNCHANGED statusVars

\* The agent is there.  A completion nobody has read is overwritten.
Completed ==
  /\ target # None
  /\ agent_most_recent_wp' = target
  /\ visited' = Append(visited, target)
  /\ feedback' = target
  /\ target' = None
  /\ races' = IF feedback # None /\ ~Among(feedback, reported) /\ res # feedback
              THEN races \cup {"overwritten"} ELSE races
  /\ UNCHANGED controllerVars
  /\ UNCHANGED statusVars

Next ==
  \/ \E n \in 1 .. Window : Enqueue(n)
  \/ ListNext
  \/ Publish
  \/ Poll
  \/ Check
  \/ Pop
  \/ GetTarget
  \/ Completed

\* The threads run and the simulation goes on: every loop makes its next turn,
\* and an agent with a target gets there.  Nobody has to enqueue.
Fairness ==
  /\ WF_vars(ListNext \/ Publish)
  /\ WF_vars(Poll \/ Check \/ Pop)
  /\ WF_vars(GetTarget)
  /\ WF_vars(Completed)

Spec == Init /\ [][Next]_vars /\ Fairness

-----------------------------------------------------------------------------
(* Properties.                                                             *)

Values == Nat \cup {None}

\* The types of the variables.
TypeOK ==
  /\ pending \in Seq(Nat) /\ command \in Seq(Nat)
  /\ reported \in Seq(Nat) /\ visited \in Seq(Nat)
  /\ step_counter \in 0 .. MaxSteps
  /\ publishing \in Seq(Nat) \cup {None} /\ position \in Nat
  /\ feedback \in Values /\ res \in Values /\ target \in Values
  /\ status \in {"sleep", "check", "pop"}
  /\ agent_most_recent_wp \in Nat \cup {-1}
  /\ races \subseteq {"torn", "overwritten"}

Consecutive(steps) == \A n \in DOMAIN steps : steps[n] = n - 1

\* How many waypoints have been taken off _pending.
Popped == IF status = "pop" THEN Len(reported) - 1 ELSE Len(reported)

\* _pending holds the waypoints from the first one that is not done with to the
\* last one enqueued, the first being one reported while it waits to be popped.
PendingFollowsReported ==
  /\ status = "pop" => reported # <<>> /\ pending # <<>>
  /\ Popped + Len(pending) = step_counter
  /\ \A n \in DOMAIN pending : pending[n] = Popped + n - 1
  /\ Consecutive(reported)

BelowCounter(steps) == \A n \in DOMAIN steps : steps[n] < step_counter

\* Commands name waypoints that have been enqueued; a target is one of them
\* that the agent has not been to.
TargetIsAhead ==
  /\ BelowCounter(command)
  /\ publishing # None => BelowCounter(publishing)
  /\ target # None => agent_most_recent_wp < target /\ target < step_counter
  /\ BelowCounter(visited)
  /\ \A n \in DOMAIN visited : visited[n] <= agent_most_recent_wp
  /\ \A m, n \in DOMAIN visited : m < n => visited[m] < visited[n]

\* What the status thread takes for a completion is one.
CompletionsAreVisits ==
  /\ feedback # None => Among(feedback, visited)
  /\ status = "check" => res # None
  /\ res # None => Among(res, visited)
  /\ \A n \in DOMAIN reported : Among(reported[n], visited)

\* Consecutive steps, from any one on.
IsRun(steps) == \A n \in DOMAIN steps : steps[n] = steps[1] + n - 1

\* Without a torn command: commands leave no step out and begin no later than
\* where the agent has to go on; while _pending is being listed nothing has
\* been taken off it since its first item was listed.
UntornLists ==
  "torn" \notin races =>
    /\ Consecutive(visited)
    /\ Len(visited) = agent_most_recent_wp + 1
    /\ target # None => target = agent_most_recent_wp + 1
    /\ IsRun(command)
    /\ command # <<>> => command[1] <= agent_most_recent_wp + 1
    /\ publishing # None =>
         /\ IsRun(publishing)
         /\ Len(publishing) = position
         /\ publishing # <<>> => publishing[1] <= Popped
         /\ publishing # <<>> /\ position < Len(pending) => publishing[1] = pending[1]

\* The inductive invariant behind the next three properties.
IInv ==
  /\ TypeOK
  /\ PendingFollowsReported
  /\ TargetIsAhead
  /\ CompletionsAreVisits
  /\ UntornLists

\* on_reached is called for a waypoint only after the agent has been there,
\* and for the waypoints in the order they were enqueued, none left out or
\* repeated ("Robots are expected to move to waypoints in FIFO order, calling
\* on_reached for each", base_robot_controller.py:47).
ReportsAreVisits ==
  /\ Consecutive(reported)
  /\ \A n \in DOMAIN reported : Among(reported[n], visited)

\* The agent is never sent to a waypoint that is behind it or that has not
\* been enqueued, whatever the races.
NeverGoesBack ==
  \A m, n \in DOMAIN visited : m < n => visited[m] < visited[n] /\ visited[n] < step_counter

\* The agent visits the waypoints in order without leaving one out, unless a
\* pop has fallen into the making of a command.
SkipsOnlyWhenTorn == "torn" \in races \/ Consecutive(visited)

\* Every waypoint that has been enqueued is reported, unless a command was
\* torn or a completion overwritten before it was read: there is no third way
\* to lose one.
AllReported == []<>(races # {} \/ Len(reported) = step_counter)

=============================================================================
