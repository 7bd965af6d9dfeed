------------------------------- MODULE MCMaps -------------------------------
(***************************************************************************)
(* Small maps for the MC modules, and the solutions a solver that          *)
(* minimises the sum of the path lengths may return on them.               *)
(***************************************************************************)
EXTENDS MapfSolution, FiniteSets, TLC
LOCAL INSTANCE FiniteSetsExt

\* A grid of w times h nodes, numbered row by row from 0.
GridEdges(w, h) ==
  LET X(l) == l % w
      Y(l) == l \div w
  IN {e \in (0 .. w * h - 1) \X (0 .. w * h - 1) :
        \/ X(e[1]) = X(e[2]) /\ Y(e[1]) - Y(e[2]) \in {1, -1}
        \/ Y(e[1]) = Y(e[2]) /\ X(e[1]) - X(e[2]) \in {1, -1}}

\* The paths from `start' of 1 to n positions.
PathsFrom(start, edges, n) ==
  LET Grown(path) == {Append(path, e[2]) : e \in {x \in edges : x[1] = path[Len(path)]}}
                       \cup {Append(path, path[Len(path)])}
      ofLength[k \in 1 .. n] ==
        IF k = 1 THEN {<<start>>} ELSE UNION {Grown(path) : path \in ofLength[k - 1]}
  IN UNION {ofLength[k] : k \in 1 .. n}

\* A path that ends by waiting at its goal has ended earlier.
PathsTo(start, goal, edges, n) ==
  {p \in PathsFrom(start, edges, n) :
     /\ p[Len(p)] = goal
     /\ Len(p) = 1 \/ p[Len(p) - 1] # goal}

Cost(paths) ==
  Cardinality(UNION {{r} \X (1 .. Len(paths[r])) : r \in DOMAIN paths})

\* Functions from the domain of `sets' that pick an element of each set.
Selections(sets) ==
  FoldSet(LAMBDA r, some : {f @@ (r :> x) : f \in some, x \in sets[r]},
          {<<>>}, DOMAIN sets)

\* The conflict-free solutions of minimal cost that give each robot one of
\* its candidate paths.
Cheapest(candidates) ==
  LET all == {paths \in Selections(candidates) : ConflictFree(paths)}
      costs == {Cost(paths) : paths \in all}
  IN {paths \in all : \A c \in costs : Cost(paths) <= c}

=============================================================================
