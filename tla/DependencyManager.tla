------------------------- MODULE DependencyManager -------------------------
(***************************************************************************)
(* The dependency manager of the plan executor: what it knows of every     *)
(* robot's plan, which waypoints it lets a robot have, and the commit cut  *)
(* it computes when the server is about to replan                          *)
(* (plan_execution/dependency_manager.py).                                 *)
(*                                                                         *)
(* It is an object without a thread: a record dm with the fields of        *)
(*   robots              the keys of _robots, in insertion order           *)
(*   plan                RobotPlanState.plan, NoPlan for unknown robots    *)
(*   current_waypoint    index of the waypoint the robot reached last      *)
(*   latest_enqueued     index of the last waypoint given to its robot     *)
(*   completed_plan_ids  plans whose blockers count as satisfied           *)
(*   cut_indices         the commit cut stored for some of the robots      *)
(* and its methods are operators that take dm and return what they change. *)
(* The executor's handlers (module PlanExecutor) call them.                *)
(***************************************************************************)
EXTENDS Plans, FiniteSets

CONSTANTS NoPlan,        \* the plan of a robot that is not in _robots
          MaxEnqueued    \* waypoints a robot may have ahead of it

ASSUME MaxEnqueuedAssumption == MaxEnqueued \in Nat \ {0}
ASSUME NoPlanAssumption == NoPlan \notin Plan

EmptyManager ==
  [ robots             |-> <<>>,
    plan               |-> [r \in Robots |-> NoPlan],
    current_waypoint   |-> [r \in Robots |-> 0],
    latest_enqueued    |-> [r \in Robots |-> 0],
    completed_plan_ids |-> {},
    cut_indices        |-> <<>> ]

Known(dm) == {dm.robots[n] : n \in DOMAIN dm.robots}

Blockers(dm, r, k) == WaypointAt(dm.plan[r], k).departure_blockers
\* Mutant: a waypoint counts as soon as it is released.
ProgressReleased(dm, r) == WaypointAt(dm.plan[r], dm.latest_enqueued[r]).progress

ProgressOf(dm, r) == WaypointAt(dm.plan[r], dm.current_waypoint[r]).progress

\* Mutant: off by one.
IsAlmostComplete(dm, r) ==
  r \in Known(dm) /\ dm.current_waypoint[r] + 1 >= LastIndex(dm.plan[r])

IsComplete(dm, r) ==
  r \in Known(dm) /\ dm.current_waypoint[r] >= LastIndex(dm.plan[r])

-----------------------------------------------------------------------------
(* Releasing waypoints: get_valid_waypoints_and_advance.                   *)

\* Mutant: a robot whose plan has not come yet is not waited for.
SatisfiedIfUnknown(dm, b) ==
  \/ b.plan_id \in dm.completed_plan_ids
  \/ b.name \notin Known(dm)
  \/ /\ dm.plan[b.name].plan_id = b.plan_id
     /\ ProgressOf(dm, b.name) >= b.required_progress

\* A blocker on a completed plan is satisfied; one on a plan its robot does
\* not have, or does not have yet, is not.
Satisfied(dm, b) ==
  \/ b.plan_id \in dm.completed_plan_ids
  \/ /\ b.name \in Known(dm)
     /\ dm.plan[b.name].plan_id = b.plan_id
     /\ ProgressOf(dm, b.name) >= b.required_progress

AllBlockersSatisfied(dm, r, k) == \A b \in Blockers(dm, r, k) : Satisfied(dm, b)

\* Mutants: the commit cut is not looked at; a count taken for an index.
UpperBoundWithoutCut(dm, r) == LastIndex(dm.plan[r])

UpperBoundCounted(dm, r) ==
  IF r \in DOMAIN dm.cut_indices THEN dm.cut_indices[r] ELSE Len(dm.plan[r].waypoints)

\* The last waypoint a robot may be given: the end of its plan or, while one
\* is stored for it, its commit cut.
UpperBound(dm, r) ==
  IF r \in DOMAIN dm.cut_indices THEN dm.cut_indices[r] ELSE LastIndex(dm.plan[r])

\* Mutant: the last waypoint is never released.
MayEnqueueShort(dm, r, k) ==
  /\ k + 1 < UpperBound(dm, r)
  /\ k + 1 - dm.current_waypoint[r] <= MaxEnqueued
  /\ AllBlockersSatisfied(dm, r, k)

\* One turn of the loop: waypoint k+1 may be enqueued behind waypoint k.
MayEnqueueAfter(dm, r, k) ==
  /\ k < UpperBound(dm, r)
  /\ k + 1 - dm.current_waypoint[r] <= MaxEnqueued
  /\ AllBlockersSatisfied(dm, r, k)

\* The loop gets as far as k.
Reaches(dm, r, k) ==
  \A i \in dm.latest_enqueued[r] .. k - 1 : MayEnqueueAfter(dm, r, i)

\* Where the loop ends.  LastIndex bounds it because reading one waypoint
\* further raises IndexError: Overruns says when it does, which needs a cut
\* index that lies beyond the plan.
Advanced(dm, r) ==
  CHOOSE k \in dm.latest_enqueued[r] .. LastIndex(dm.plan[r]) :
    /\ Reaches(dm, r, k)
    /\ k = LastIndex(dm.plan[r]) \/ ~MayEnqueueAfter(dm, r, k)

Overruns(dm, r) ==
  /\ dm.latest_enqueued[r] <= LastIndex(dm.plan[r])
  /\ Reaches(dm, r, LastIndex(dm.plan[r]) + 1)

\* Mutant: the latest enqueued waypoint is released again.
ReleasedAgain(dm, r) ==
  [n \in 1 .. Advanced(dm, r) - dm.latest_enqueued[r] |->
     LET k == dm.latest_enqueued[r] + n - 1
     IN [index |-> k, name |-> WaypointAt(dm.plan[r], k).name]]

\* The waypoints get_valid_waypoints_and_advance returns, with their indices.
Released(dm, r) ==
  [n \in 1 .. Advanced(dm, r) - dm.latest_enqueued[r] |->
     LET k == dm.latest_enqueued[r] + n
     IN [index |-> k, name |-> WaypointAt(dm.plan[r], k).name]]

-----------------------------------------------------------------------------
(* Installing plans and recording progress.                                *)

\* Mutant: no waypoint counts as reached at first.
SetPlanBefore(dm, r, p) ==
  [dm EXCEPT !.robots = IF r \in Known(dm) THEN @ ELSE Append(@, r),
             !.plan[r] = p,
             !.current_waypoint[r] = -1,
             !.latest_enqueued[r] = 0]

\* set_plan: a new entry, or the replacement of an old one in its place.
\* The commit cut stored for the robot stays.
SetPlan(dm, r, p) ==
  [dm EXCEPT !.robots = IF r \in Known(dm) THEN @ ELSE Append(@, r),
             !.plan[r] = p,
             !.current_waypoint[r] = 0,
             !.latest_enqueued[r] = 0]

\* Mutant: blockers keep the id of the plan that was replaced.
RestampNothing(p, old_id, new_id) == p

\* _restamp_blockers, for one plan.
Restamp(p, old_id, new_id) ==
  [p EXCEPT !.waypoints =
     [n \in DOMAIN p.waypoints |->
        [p.waypoints[n] EXCEPT !.departure_blockers =
           {IF b.plan_id = old_id THEN [b EXCEPT !.plan_id = new_id] ELSE b : b \in @}]]]

\* The waypoints up to the cut, then the new plan's.  Where the new plan
\* starts at the location of the cut, its start waypoint is merged into the
\* one at the cut, which inherits its blockers.
Spliced(old, cut_idx, p) ==
  LET n == IF cut_idx < Len(old.waypoints) THEN cut_idx + 1 ELSE Len(old.waypoints)
      retained == SubSeq(old.waypoints, 1, n)
      start == p.waypoints[1]
  IN [ plan_id |-> p.plan_id,
       waypoints |->
         IF start.name = retained[n].name
         THEN [retained EXCEPT ![n].departure_blockers = @ \cup start.departure_blockers]
                \o Tail(p.waypoints)
         ELSE retained \o p.waypoints ]

\* update_plan_after_cut: uses up the robot's commit cut, if there is one,
\* and restamps the blockers of all plans.
UpdatePlanAfterCut(dm, r, p) ==
  LET old == dm.plan[r]
      cut_idx == IF r \in DOMAIN dm.cut_indices THEN dm.cut_indices[r]
                                                ELSE dm.latest_enqueued[r]
      Now(s) == IF s = r THEN Spliced(old, cut_idx, p) ELSE dm.plan[s]
  IN [dm EXCEPT
        !.plan = [s \in Robots |-> IF s \in Known(dm)
                                   THEN Restamp(Now(s), old.plan_id, p.plan_id)
                                   ELSE NoPlan],
        !.cut_indices = [s \in DOMAIN @ \ {r} |-> @[s]]]

UpdateProgress(dm, r, k) ==
  IF r \in Known(dm) THEN [dm EXCEPT !.current_waypoint[r] = k] ELSE dm

OnPlanComplete(dm, r) ==
  [dm EXCEPT !.completed_plan_ids = @ \cup {dm.plan[r].plan_id}]

-----------------------------------------------------------------------------
(* The commit cut: compute_commit_cut.                                     *)

\* _extend_commit_cut_for: the first waypoint that has the required progress,
\* the last one if none has.
RequiredIndex(dm, b) ==
  LET p == dm.plan[b.name]
      enough == {k \in Indices(p) : WaypointAt(p, k).progress >= b.required_progress}
  IN IF enough = {} THEN LastIndex(p)
     ELSE CHOOSE k \in enough : \A m \in enough : k <= m

\* Mutants: the blockers of waypoints that are still to be released, and those
\* of the current waypoint, are left out.
ConsultedReleased(dm, r, n) ==
  {b \in UNION {Blockers(dm, r, k) : k \in dm.current_waypoint[r] .. dm.latest_enqueued[r]} :
     b.plan_id \notin dm.completed_plan_ids}

ConsultedAhead(dm, r, n) ==
  {b \in UNION {Blockers(dm, r, k) : k \in dm.current_waypoint[r] + 1 .. n} :
     b.plan_id \notin dm.completed_plan_ids}

\* The blockers on the waypoints of r from the current one to index n.  Those
\* on completed plans are passed over; the others must name the plan their
\* robot is on, which two assertions check.
Consulted(dm, r, n) ==
  {b \in UNION {Blockers(dm, r, k) : k \in dm.current_waypoint[r] .. n} :
     b.plan_id \notin dm.completed_plan_ids}

Dangling(dm, b) ==
  \/ b.name \notin Known(dm)
  \/ dm.plan[b.name].plan_id # b.plan_id

\* One pass over the waypoints of r: c is the cut so far, and the robots it
\* waits for are moved to where they have to get.
ExtendFor(dm, r, c) ==
  LET found == {b \in Consulted(dm, r, c.cut[r]) : ~Dangling(dm, b)}
      Wanted(s) == {RequiredIndex(dm, b) : b \in {x \in found : x.name = s}}
  IN [ c EXCEPT
         !.cut = [s \in Known(dm) |->
                    CHOOSE k \in Wanted(s) \cup {@[s]} :
                      \A m \in Wanted(s) \cup {@[s]} : m <= k],
         !.failed = @ \/ \E b \in Consulted(dm, r, c.cut[r]) : Dangling(dm, b) ]

\* The loop's variables.  extended holds the robots of the last round, done
\* is TRUE when the loop has ended, failed when an assertion has.
LoopState(dm) ==
  [cut : [Known(dm) -> Nat], extended : SUBSET Robots, failed : BOOLEAN, done : BOOLEAN]

\* A round of the while loop: a pass for every robot in order.  The loop ends
\* when nothing was extended, and also when a round extended the very robots
\* that the round before it did, which is taken to be a cycle.
Round(dm, c) ==
  LET passes[n \in 0 .. Len(dm.robots)] ==
        IF n = 0 THEN c ELSE ExtendFor(dm, dm.robots[n], passes[n - 1])
      d == passes[Len(dm.robots)]
      extended == {r \in Known(dm) : d.cut[r] > c.cut[r]}
  IN [d EXCEPT !.extended = extended, !.done = extended = {} \/ extended = c.extended]

\* _compute_commit_cut.  Every round but the last moves some cut index forward.
CommitCutLoop(dm) ==
  LET loop[c \in LoopState(dm)] == IF c.done THEN c ELSE loop[Round(dm, c)]
  IN loop[[ cut |-> [r \in Known(dm) |-> dm.latest_enqueued[r]],
            extended |-> {}, failed |-> FALSE, done |-> FALSE ]]

\* An assertion of _extend_commit_cut_for, or an index that no waypoint has.
CommitCutFails(dm) ==
  LET c == CommitCutLoop(dm)
  IN c.failed \/ \E r \in Known(dm) : c.cut[r] \notin Indices(dm.plan[r])

ComputeCommitCut(dm) ==
  LET c == CommitCutLoop(dm)
  IN [dm EXCEPT !.cut_indices = [r \in Known(dm) |-> c.cut[r]]]

\* Mutant: the locations the robots are at, not those they are committed to.
CurrentLocations(dm) ==
  [r \in Known(dm) |->
     LET k == dm.current_waypoint[r]
         wp == WaypointAt(dm.plan[r], k)
     IN [location |-> wp.name, waypoint_index |-> k, progress |-> wp.progress]]

\* _build_committed_locations and _build_stationary_agents, once the cut has
\* been stored.
CommittedLocations(dm) ==
  [r \in Known(dm) |->
     LET k == dm.cut_indices[r]
         wp == WaypointAt(dm.plan[r], k)
     IN [location |-> wp.name, waypoint_index |-> k, progress |-> wp.progress]]

StationaryAgents(dm) == {r \in Known(dm) : IsComplete(dm, r)}

=============================================================================
