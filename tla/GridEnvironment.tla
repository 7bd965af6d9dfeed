--------------------------- MODULE GridEnvironment ---------------------------
(***************************************************************************)
(* The environment of the conflict-based search (cbs/cbs.py): agents on a  *)
(* grid with obstacles, the moves that constraints leave them, the first   *)
(* conflict of a solution and the constraints that a conflict gives.       *)
(*                                                                         *)
(* Agents are numbered in the order of agent_dict, which compute_solution  *)
(* and combinations() follow.  A state is a time and a location; a path is *)
(* the sequence of its states' locations, for they count from time 0.      *)
(***************************************************************************)
EXTENDS MapfSolution

Agents(problem) == DOMAIN problem.start

\* What the search is given: an agent starts in a cell of the grid and has one
\* for its goal.
Cells == Int \X Int
IsProblem(p) ==
  /\ p.start \in Seq(Cells)
  /\ \A a \in Agents(p) : p.goal[a] \in Cells

State(time, location) == [time |-> time, location |-> location]

\* A vertex constraint is the state an agent must not be in, an edge
\* constraint the time and the two ends of a move it must not make.
NoConstraints == [vertex |-> {}, edge |-> {}]

AddConstraint(k, other) ==
  [vertex |-> k.vertex \cup other.vertex, edge |-> k.edge \cup other.edge]

StateValid(problem, k, s) ==
  /\ s.location[1] \in 0 .. problem.dimension[1] - 1
  /\ s.location[2] \in 0 .. problem.dimension[2] - 1
  /\ s \notin k.vertex
  /\ s.location \notin problem.obstacles

TransitionValid(k, s, n) == <<s.time, s.location, n.location>> \notin k.edge

Directions == {<<0, 1>>, <<0, -1>>, <<-1, 0>>, <<1, 0>>}

\* An agent waits, or moves in one of four directions.
GetNeighbors(problem, k, s) ==
  LET wait == State(s.time + 1, s.location)
      moves == {State(s.time + 1, <<s.location[1] + d[1], s.location[2] + d[2]>>) :
                  d \in Directions}
  IN {n \in {wait} \cup {m \in moves : TransitionValid(k, s, m)} :
        StateValid(problem, k, n)}

Distance(x, y) == IF x < y THEN y - x ELSE x - y

AdmissibleHeuristic(problem, a, location) ==
  Distance(location[1], problem.goal[a][1]) + Distance(location[2], problem.goal[a][2])

-----------------------------------------------------------------------------
(* Conflicts.                                                              *)

VERTEX == 1
EDGE == 2
NoConflict == [type |-> 0]

\* All conflicts up to the end of the longest path.
Conflicts(paths) ==
  {c \in [ type : {VERTEX, EDGE}, time : 0 .. MaxT(paths) - 1,
           agent_1 : DOMAIN paths, agent_2 : DOMAIN paths ] :
     /\ c.agent_1 < c.agent_2
     /\ IF c.type = VERTEX THEN VertexConflict(paths, c.agent_1, c.agent_2, c.time)
                           ELSE EdgeConflict(paths, c.agent_1, c.agent_2, c.time)}

\* The order of the loops: times, then vertices before edges, then pairs.
FoundBefore(c, d) ==
  \/ c.time < d.time
  \/ c.time = d.time /\ c.type < d.type
  \/ c.time = d.time /\ c.type = d.type /\ c.agent_1 < d.agent_1
  \/ c.time = d.time /\ c.type = d.type /\ c.agent_1 = d.agent_1 /\ c.agent_2 <= d.agent_2

\* Mutant: agents that exchange their places are not looked for.
FirstVertexConflict(paths) ==
  LET all == {c \in Conflicts(paths) : c.type = VERTEX}
  IN IF all = {} THEN NoConflict
     ELSE CHOOSE c \in all : \A d \in all : FoundBefore(c, d)

GetFirstConflict(paths) ==
  IF Conflicts(paths) = {} THEN NoConflict
  ELSE CHOOSE c \in Conflicts(paths) : \A d \in Conflicts(paths) : FoundBefore(c, d)

\* Mutant: both agents are forbidden the move of the first one.
ConstraintsSameMove(paths, c, a) ==
  IF c.type = VERTEX
  THEN [vertex |-> {State(c.time, StateAt(paths[a], c.time))}, edge |-> {}]
  ELSE [vertex |-> {}, edge |-> {<<c.time, StateAt(paths[c.agent_1], c.time),
                                   StateAt(paths[c.agent_1], c.time + 1)>>}]

\* What the conflict c of the paths forbids its agent a: to be at the place,
\* or to make its own move (the ends are read from agent 1's path, which for
\* agent 2 are those of its move the other way round).
CreateConstraints(paths, c, a) ==
  IF c.type = VERTEX
  THEN [vertex |-> {State(c.time, StateAt(paths[c.agent_1], c.time))}, edge |-> {}]
  ELSE LET from == StateAt(paths[c.agent_1], c.time)
           to == StateAt(paths[c.agent_1], c.time + 1)
       IN [vertex |-> {},
           edge |-> {IF a = c.agent_1 THEN <<c.time, from, to>> ELSE <<c.time, to, from>>}]

=============================================================================
