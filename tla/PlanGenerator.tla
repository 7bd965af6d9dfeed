--------------------------- MODULE PlanGenerator ---------------------------
(***************************************************************************)
(* PlanGenerator.generate: turns the paths of a MAPF solution into plans   *)
(* whose waypoints carry traffic dependencies.                             *)
(*                                                                         *)
(* A robot may depart from a waypoint that has blockers only when the      *)
(* robots they name have made the progress they require.                   *)
(***************************************************************************)
EXTENDS Plans

\* CBSAdapter._convert_cbs: a step for every pair of consecutive positions,
\* numbered by its timestep; a path of one position has no steps.
Steps(path) ==
  [k \in 1 .. Len(path) - 1 |->
     [timestep |-> k - 1, step_from |-> path[k], step_to |-> path[k + 1]]]

\* The name and the progress of waypoint k, 0-based: step k's origin, or the
\* last step's destination, one timestep later, for the final waypoint.
WaypointName(steps, k) ==
  IF k < Len(steps) THEN steps[k + 1].step_from ELSE steps[Len(steps)].step_to

WaypointProgress(steps, k, offset) ==
  IF k < Len(steps) THEN steps[k + 1].timestep + offset
                    ELSE steps[Len(steps)].timestep + 1 + offset

\* Mutants: a robot that leaves just when another enters is not waited for;
\* one that is there at any time is.
EntersStrictlyAfter(step_j, step_i) ==
  /\ step_i.step_from = step_j.step_to
  /\ step_i.timestep < step_j.timestep

EntersEver(step_j, step_i) == step_i.step_from = step_j.step_to

\* Step_j enters the location that step_i leaves, no earlier than step_i.
EntersAfter(step_j, step_i) ==
  /\ step_i.step_from = step_j.step_to
  /\ step_i.timestep <= step_j.timestep

\* The k-th step of j is the first that does: the inner loop stops there.
FirstToEnter(steps_j, k, step_i) ==
  /\ EntersAfter(steps_j[k], step_i)
  /\ \A m \in 1 .. k - 1 : ~EntersAfter(steps_j[m], step_i)

\* Mutant: the progress of i is counted from the offset of j.
DepartureBlockersByOwnOffset(steps, plan_ids, offset, j, k) ==
  IF k = Len(steps[j]) THEN {}
  ELSE UNION {
    { [name |-> i, plan_id |-> plan_ids[i],
       required_progress |-> WaypointProgress(steps[i], m, offset[j])] :
        m \in {n \in 1 .. Len(steps[i]) : FirstToEnter(steps[j], k + 1, steps[i][n])} } :
    i \in DOMAIN steps \ {j} }

\* The blockers of waypoint k of robot j, for the steps of all the robots.
\* A robot i with a step to wait for must reach the step's destination.
DepartureBlockers(steps, plan_ids, offset, j, k) ==
  IF k = Len(steps[j]) THEN {}
  ELSE UNION {
    { [name |-> i, plan_id |-> plan_ids[i],
       required_progress |-> WaypointProgress(steps[i], m, offset[i])] :
        m \in {n \in 1 .. Len(steps[i]) : FirstToEnter(steps[j], k + 1, steps[i][n])} } :
    i \in DOMAIN steps \ {j} }

\* One plan for every robot that has steps; offset is the progress of the
\* robot's committed location, 0 when it has none.
Generate(paths, plan_ids, offset) ==
  LET steps == [i \in DOMAIN paths |-> Steps(paths[i])]
  IN [ j \in {i \in DOMAIN paths : steps[i] # <<>>} |->
         [ plan_id |-> plan_ids[j],
           waypoints |->
             [n \in 1 .. Len(steps[j]) + 1 |->
                [ name |-> WaypointName(steps[j], n - 1),
                  progress |-> WaypointProgress(steps[j], n - 1, offset[j]),
                  departure_blockers |->
                    DepartureBlockers(steps, plan_ids, offset, j, n - 1) ]] ] ]

=============================================================================
