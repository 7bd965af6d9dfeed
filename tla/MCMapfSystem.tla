---------------------------- MODULE MCMapfSystem ----------------------------
(***************************************************************************)
(* Robots, small maps and waves of tasks for MapfSystem.                   *)
(***************************************************************************)
EXTENDS MapfSystem, MCMaps, SequencesExt

CONSTANTS r1, r2, r3

One == {r1}
Two == {r1, r2}
Three == {r1, r2, r3}

T(id, r, goal) == [task_id |-> id, robot_id |-> r, goal |-> goal]

TwoTasks == 1 .. 2
FourTasks == 1 .. 4
SixTasks == 1 .. 6

\* A grid of 3x2 nodes, and a line of five others.
GridNodes == 0 .. 5
MCLocations == 0 .. 14
Grid3x2 == GridEdges(3, 2)
Line5 == {<<e[1] + 10, e[2] + 10>> : e \in GridEdges(5, 1)}
MCEdges == Grid3x2 \cup Line5

MCPlanIds == [destination_session : (1 .. 4) \X Robots, plan_version : 0 .. 1]

\* The paths of at most 4 positions between any two locations.
Paths == [a \in Locations |-> [b \in Locations |-> PathsTo(a, b, Edges, 4)]]

\* CBS moves no robot onto an obstacle.
Avoiding(paths, obstacles) ==
  {p \in paths : \A k \in 2 .. Len(p) : p[k] \notin obstacles}

MCSolver(starts, goals, obstacles) ==
  Cheapest([r \in DOMAIN starts |-> Avoiding(Paths[starts[r]][goals[r]], obstacles)])

OneStart == r1 :> 0
TwoStarts == r1 :> 0 @@ r2 :> 5
ThreeStarts == r1 :> 10 @@ r2 :> 11 @@ r3 :> 12

Tasks(requests) == [type |-> "tasks", requests |-> requests]
Discovered(side, rs) == [type |-> "discovery", side |-> side, robots |-> rs]

\* A robot is announced to the server, then to the executor.
Announce(r, location) ==
  << [type |-> "onboard_server", robot |-> r, location |-> location],
     [type |-> "onboard_executor", robot |-> r] >>

Announced(starts) ==
  LET rs == SetToSeq(DOMAIN starts)
  IN FlattenSeq([n \in DOMAIN rs |-> Announce(rs[n], starts[rs[n]])])

\* The robots are announced before the first wave of tasks.
From(starts, allWaves) ==
  {[starts |-> starts,
    script |-> Announced(starts) \o [n \in DOMAIN w |-> Tasks(w[n])]] : w \in allWaves}

\* Robots that follow each other along a line, and back before they are there.
Convoy ==
  From(ThreeStarts, { << <<T(1, r1, 12), T(2, r2, 13), T(3, r3, 14)>>,
                         <<T(4, r1, 11), T(5, r2, 12), T(6, r3, 13)>> >> })

\* A goal that is taken, then the same task again; two tasks for one robot and the
\* other's task again; three tasks for one robot.
Mixed ==
  From(TwoStarts,
  { << <<T(1, r1, 5)>>, <<T(1, r1, 1), T(2, r2, 0)>> >>,
    << <<T(1, r1, 4), T(2, r2, 2)>>, <<T(3, r2, 5), T(1, r1, 2), T(4, r2, 0)>> >>,
    << <<T(1, r1, 4)>>, <<T(2, r1, 3)>>, <<T(3, r1, 2)>> >> })

\* A task for a robot, then one for another whose way leads past it.
PassingBy == From(TwoStarts, { << <<T(1, r1, 4)>>, <<T(2, r2, 1)>> >> })

\* Two robots on their way, one of them a long way; the other one is sent
\* somewhere else.
OneRedirect == From(TwoStarts, { << <<T(1, r1, 5), T(2, r2, 3)>>, <<T(3, r2, 0)>> >> })

\* A robot is announced while another one moves or is planned for, or has
\* arrived; it has a task; a robot is announced again, in both ways, where it
\* stands; the server hears of a robot that is not added.
Announcements ==
  {[starts |-> TwoStarts,
    script |-> Announce(r1, 0) \o Announce(r1, 0)
               \o <<Discovered("executor", {r1, r2}), Tasks(<<T(1, r1, 4)>>)>>
               \o Announce(r2, 5) \o Announce(r1, 4)
               \o <<Tasks(<<T(2, r2, 1)>>)>>],
   [starts |-> TwoStarts,
    script |-> Announce(r1, 0)
               \o <<Discovered("server", {r2}), Tasks(<<T(1, r1, 4), T(2, r2, 3), T(3, r3, 3)>>)>>
               \o Announce(r2, 5) \o <<Tasks(<<T(4, r1, 0)>>)>>]}

Replans == Convoy \cup Mixed \cup PassingBy \cup OneRedirect \cup Announcements

\* A task for each of two robots, at once.
SingleWaves ==
  From(TwoStarts,
       {<< <<T(1, r1, a), T(2, r2, b)>> >> :
          <<a, b>> \in {g \in GridNodes \X GridNodes : g[1] # g[2] /\ g[1] # 0 /\ g[2] # 5}})

\* Two robots that are sent somewhere else on their way.
Redirect ==
  From(TwoStarts, { << <<T(1, r1, 4), T(2, r2, 2)>>, <<T(3, r1, 2), T(4, r2, 0)>> >> })

=============================================================================
