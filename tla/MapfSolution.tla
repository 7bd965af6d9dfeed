---------------------------- MODULE MapfSolution ----------------------------
(***************************************************************************)
(* What a classical MAPF solution is, in the terms of cbs/cbs.py: one path *)
(* per agent, a position for every timestep from 0, without a vertex or an *)
(* edge conflict.  An agent whose path has ended stays where it ended.     *)
(***************************************************************************)
EXTENDS Integers, Sequences

\* The agent's position at time t (0-based), its last one from the end of
\* its path on.
StateAt(path, t) == path[IF t < Len(path) THEN t + 1 ELSE Len(path)]

VertexConflict(paths, i, j, t) == StateAt(paths[i], t) = StateAt(paths[j], t)

\* The two agents exchange their positions between t and t+1.
EdgeConflict(paths, i, j, t) ==
  /\ StateAt(paths[i], t) = StateAt(paths[j], t + 1)
  /\ StateAt(paths[i], t + 1) = StateAt(paths[j], t)

\* The largest number of positions of a path.
MaxT(paths) ==
  CHOOSE n \in {Len(paths[i]) : i \in DOMAIN paths} :
    \A i \in DOMAIN paths : Len(paths[i]) <= n

\* get_first_conflict returns None.
ConflictFree(paths) ==
  \A i, j \in DOMAIN paths :
    i # j => \A t \in 0 .. MaxT(paths) - 1 :
               ~VertexConflict(paths, i, j, t) /\ ~EdgeConflict(paths, i, j, t)

\* Agents that follow each other in a circle without a gap: each of the ring
\* moves to where another of them is.
Rotates(paths) ==
  \E t \in 0 .. MaxT(paths) - 2 : \E ring \in SUBSET (DOMAIN paths) \ {{}} :
    \A r \in ring :
      /\ StateAt(paths[r], t) # StateAt(paths[r], t + 1)
      /\ \E s \in ring : StateAt(paths[r], t + 1) = StateAt(paths[s], t)

\* A path of the map `edges': every step stays or follows an edge.
FollowsMap(path, edges) ==
  \A k \in 1 .. Len(path) - 1 :
    path[k] = path[k + 1] \/ <<path[k], path[k + 1]>> \in edges

=============================================================================
