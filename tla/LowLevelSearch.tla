--------------------------- MODULE LowLevelSearch ----------------------------
(***************************************************************************)
(* The A* search for one agent's path (cbs/a_star.py), a step for every    *)
(* turn of its loop.  The agent and its constraints are parameters of the  *)
(* steps: the module that runs the search keeps them.                      *)
(*                                                                         *)
(* min() takes the first of the best items of a set, in the order the set  *)
(* happens to have: any of them, here.                                     *)
(***************************************************************************)
EXTENDS GridEnvironment

VARIABLES
  problem,     \* the grid, its obstacles, starts and goals
  open_set,    \* states to look at
  closed_set,  \* states that have been looked at
  came_from,   \* the state from which each state was found first
  g_score      \* the number of steps to each state

searchVars == <<open_set, closed_set, came_from, g_score>>

\* f with the value e for every key in S.
Updated(f, S, e) == [x \in DOMAIN f \cup S |-> IF x \in S THEN e ELSE f[x]]

\* Between two searches.
NoSearch ==
  /\ open_set = {}
  /\ closed_set = {}
  /\ came_from = <<>>
  /\ g_score = <<>>

BeginSearch(a) ==
  LET initial_state == State(0, problem.start[a])
  IN /\ open_set' = {initial_state}
     /\ closed_set' = {}
     /\ came_from' = <<>>
     /\ g_score' = [s \in {initial_state} |-> 0]

FScore(a, s) == g_score[s] + AdmissibleHeuristic(problem, a, s.location)

Current(a, s) ==
  /\ s \in open_set
  /\ \A o \in open_set : FScore(a, s) <= FScore(a, o)

\* Mutant: the path ends at the goal although the agent has to leave it.
StaysForNow(a, k, s) == s.location = problem.goal[a]

\* The agent may stay at its goal from state s on.
AtGoalForGood(a, k, s) ==
  /\ s.location = problem.goal[a]
  /\ ~\E vc \in k.vertex : vc.time >= s.time /\ vc.location = s.location

\* One turn of the loop that does not end it.
Expand(a, k, s) ==
  LET neighbors == GetNeighbors(problem, k, s) \ (closed_set \cup {s})
      tentative_g_score == g_score[s] + 1
      better == {n \in neighbors : n \notin open_set \/ tentative_g_score < g_score[n]}
  IN /\ Current(a, s)
     /\ ~AtGoalForGood(a, k, s)
     /\ open_set' = (open_set \ {s}) \cup neighbors
     /\ closed_set' = closed_set \cup {s}
     /\ came_from' = Updated(came_from, better, s)
     /\ g_score' = Updated(g_score, better, tentative_g_score)

\* reconstruct_path, by the locations of its states.
ReconstructPath(s) ==
  LET path[x \in DOMAIN g_score] ==
        IF x \in DOMAIN came_from THEN Append(path[came_from[x]], x.location)
        ELSE <<x.location>>
  IN path[s]

EndSearch ==
  /\ open_set' = {}
  /\ closed_set' = {}
  /\ came_from' = <<>>
  /\ g_score' = <<>>

=============================================================================
