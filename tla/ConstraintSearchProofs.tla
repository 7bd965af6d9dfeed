----------------------- MODULE ConstraintSearchProofs ------------------------
(***************************************************************************)
(* Proofs about the planner of MapPlanning, for any files and problems: A* *)
(* finds a shortest path that keeps to its constraints, and what the       *)
(* search over nodes returns is a solution.                                *)
(***************************************************************************)
EXTENDS MapPlanning, NatOrder

-----------------------------------------------------------------------------
(* States and constraints.                                                 *)

States == [time : Nat, location : Cells]

\* The two ends of a forbidden move are different places.
Moves == {e \in Nat \X Cells \X Cells : e[2] # e[3]}
Constraints == [vertex : SUBSET States, edge : SUBSET Moves]

LEMMA CellFields ==
  ASSUME NEW l \in Cells
  PROVE  l[1] \in Int /\ l[2] \in Int /\ l = <<l[1], l[2]>>
BY DEF Cells

LEMMA StateFields ==
  ASSUME NEW s \in States
  PROVE  s.time \in Nat /\ s.location \in Cells /\ s = State(s.time, s.location)
BY DEF States, State

LEMMA StateIs ==
  ASSUME NEW t \in Nat, NEW l \in Cells
  PROVE  State(t, l) \in States /\ State(t, l).time = t /\ State(t, l).location = l
BY DEF States, State

\* What is known of a neighbour n of s.
Follows(k, s, n) ==
  /\ n \in States
  /\ n.time = s.time + 1
  /\ n \notin k.vertex
  /\ \/ n.location = s.location
     \/ /\ <<s.time, s.location, n.location>> \notin k.edge
        /\ \E d \in Directions : n.location = <<s.location[1] + d[1], s.location[2] + d[2]>>

LEMMA NeighborsFollow ==
  ASSUME NEW p, NEW k, NEW s \in States, NEW n \in GetNeighbors(p, k, s)
  PROVE  Follows(k, s, n)
<1>1. s.time \in Nat /\ s.location \in Cells
  BY StateFields
<1>2. n \notin k.vertex
  BY DEF GetNeighbors, StateValid
<1>3. CASE n = State(s.time + 1, s.location)
  BY <1>1, <1>2, <1>3, StateIs DEF Follows
<1>4. ASSUME NEW d \in Directions,
             n = State(s.time + 1, <<s.location[1] + d[1], s.location[2] + d[2]>>),
             TransitionValid(k, s, n)
      PROVE  Follows(k, s, n)
  <2>1. d[1] \in Int /\ d[2] \in Int
    BY DEF Directions
  <2>2. <<s.location[1] + d[1], s.location[2] + d[2]>> \in Cells
    BY <1>1, <2>1 DEF Cells
  <2>3. n \in States /\ n.time = s.time + 1
        /\ n.location = <<s.location[1] + d[1], s.location[2] + d[2]>>
    <3> DEFINE l == <<s.location[1] + d[1], s.location[2] + d[2]>>
    <3>1. l \in Cells /\ n = State(s.time + 1, l) /\ s.time + 1 \in Nat
      BY <1>1, <1>4, <2>2
    <3>2. n \in States /\ n.time = s.time + 1 /\ n.location = l
      BY <3>1, StateIs, Zenon
    <3> QED BY <3>2
  <2> QED BY <1>2, <1>4, <2>3 DEF Follows, TransitionValid
<1> QED BY <1>3, <1>4 DEF GetNeighbors

\* The heuristic is consistent: a step brings the goal nearer by one at most.
LEMMA Consistent ==
  ASSUME NEW p, NEW a, p.goal[a] \in Cells, NEW k, NEW s \in States,
         NEW n \in GetNeighbors(p, k, s)
  PROVE  AdmissibleHeuristic(p, a, s.location) <= AdmissibleHeuristic(p, a, n.location) + 1
<1> DEFINE g == p.goal[a]
           l == s.location
           m == n.location
<1>1. g[1] \in Int /\ g[2] \in Int /\ l[1] \in Int /\ l[2] \in Int
  BY CellFields, StateFields
<1>2. Follows(k, s, n)
  BY NeighborsFollow
<1>3. CASE m = l
  BY <1>1, <1>3 DEF AdmissibleHeuristic, Distance
<1>4. ASSUME NEW d \in Directions, m = <<l[1] + d[1], l[2] + d[2]>>
      PROVE  AdmissibleHeuristic(p, a, s.location) <= AdmissibleHeuristic(p, a, n.location) + 1
  <2>1. m[1] = l[1] + d[1] /\ m[2] = l[2] + d[2]
    BY <1>4
  <2>2. \/ d[1] = 0 /\ d[2] = 1
        \/ d[1] = 0 /\ d[2] = -1
        \/ d[1] = -1 /\ d[2] = 0
        \/ d[1] = 1 /\ d[2] = 0
    BY DEF Directions
  <2> HIDE DEF g, l, m
  <2> QED BY <1>1, <2>1, <2>2 DEF AdmissibleHeuristic, Distance, g, l, m
<1> QED BY <1>2, <1>3, <1>4 DEF Follows

LEMMA HeuristicType ==
  ASSUME NEW p, NEW a, p.goal[a] \in Cells, NEW l \in Cells
  PROVE  /\ AdmissibleHeuristic(p, a, l) \in Nat
         /\ l = p.goal[a] => AdmissibleHeuristic(p, a, l) = 0
BY CellFields DEF AdmissibleHeuristic, Distance

-----------------------------------------------------------------------------
(* Walks: what its constraints leave to an agent, a step at a time.        *)

\* The agent may go from l, where it is at time t, to m.
Step(p, k, t, l, m) == State(t + 1, m) \in GetNeighbors(p, k, State(t, l))

Walk(p, a, k, w) ==
  /\ w \in Seq(Cells)
  /\ Len(w) > 0
  /\ w[1] = p.start[a]
  /\ \A i \in 1 .. Len(w) - 1 : Step(p, k, i - 1, w[i], w[i + 1])

\* The walk ends at the goal, where the agent may stay.
Arrives(p, a, k, w) ==
  /\ w[Len(w)] = p.goal[a]
  /\ \A vc \in k.vertex : ~(vc.time >= Len(w) - 1 /\ vc.location = w[Len(w)])

\* No walk that arrives is shorter.
Best(p, a, k, path) ==
  /\ Walk(p, a, k, path) /\ Arrives(p, a, k, path)
  /\ \A w \in Seq(Cells) : Walk(p, a, k, w) /\ Arrives(p, a, k, w) => Len(path) <= Len(w)

LEMMA StepFollows ==
  ASSUME NEW p, NEW k, NEW t \in Nat, NEW l \in Cells, NEW m, Step(p, k, t, l, m)
  PROVE  /\ m \in Cells
         /\ State(t + 1, m) \notin k.vertex
         /\ m = l \/ <<t, l, m>> \notin k.edge
<1>1. State(t, l) \in States /\ State(t, l).time = t /\ State(t, l).location = l
  BY StateIs
<1>2. Follows(k, State(t, l), State(t + 1, m))
  BY <1>1, NeighborsFollow DEF Step
<1>3. State(t + 1, m).location = m
  BY DEF State
<1>4. m \in Cells
  BY <1>2, <1>3, StateFields DEF Follows
<1> QED BY <1>1, <1>2, <1>3, <1>4 DEF Follows

LEMMA WalkStep ==
  ASSUME NEW p, NEW a, NEW k, NEW w, Walk(p, a, k, w), NEW i \in 1 .. Len(w) - 1
  PROVE  /\ i - 1 \in Nat /\ w[i] \in Cells /\ w[i + 1] \in Cells
         /\ Step(p, k, i - 1, w[i], w[i + 1])
<1>1. w \in Seq(Cells) /\ Len(w) \in Nat /\ i \in 1 .. Len(w) /\ i + 1 \in 1 .. Len(w)
  BY DEF Walk
<1>2. Step(p, k, i - 1, w[i], w[i + 1])
  BY Zenon DEF Walk
<1> QED BY <1>1, <1>2

LEMMA WalkLonger ==
  ASSUME NEW p, NEW a, NEW k, NEW w, Walk(p, a, k, w),
         NEW m, Step(p, k, Len(w) - 1, w[Len(w)], m)
  PROVE  Walk(p, a, k, Append(w, m))
<1>1. w \in Seq(Cells) /\ Len(w) \in Nat /\ Len(w) > 0 /\ w[Len(w)] \in Cells
  BY DEF Walk
<1>2. m \in Cells
  <2>1. Len(w) - 1 \in Nat
    BY <1>1
  <2> QED BY <1>1, <2>1, StepFollows
<1>3. /\ Append(w, m) \in Seq(Cells)
      /\ Len(Append(w, m)) = Len(w) + 1
      /\ Append(w, m)[Len(w) + 1] = m
      /\ \A i \in 1 .. Len(w) : Append(w, m)[i] = w[i]
  BY <1>1, <1>2
<1>4. ASSUME NEW i \in 1 .. Len(w)
      PROVE  Step(p, k, i - 1, Append(w, m)[i], Append(w, m)[i + 1])
  <2>1. CASE i = Len(w)
    BY <1>1, <1>3, <2>1
  <2>2. CASE i < Len(w)
    <3>1. i \in 1 .. Len(w) - 1 /\ i + 1 \in 1 .. Len(w)
      BY <1>1, <2>2
    <3>2. Append(w, m)[i] = w[i] /\ Append(w, m)[i + 1] = w[i + 1]
      BY <1>3, <3>1
    <3> QED BY <3>1, <3>2 DEF Walk
  <2> QED BY <1>1, <2>1, <2>2
<1>5. Append(w, m)[1] = p.start[a]
  BY <1>1, <1>3 DEF Walk
<1>6. Len(w) + 1 - 1 = Len(w)
  BY <1>1
<1> HIDE DEF Step
<1> QED BY <1>1, <1>3, <1>4, <1>5, <1>6 DEF Walk

LEMMA WalkKeepsTo ==
  ASSUME NEW p, NEW a, NEW k \in Constraints, NEW w, Walk(p, a, k, w), Arrives(p, a, k, w)
  PROVE  KeepsTo(w, k)
<1>1. /\ w \in Seq(Cells) /\ Len(w) \in Nat /\ Len(w) > 0
      /\ \A i \in 1 .. Len(w) : w[i] \in Cells
  BY DEF Walk
<1>2. ASSUME NEW vc \in k.vertex, vc.time > 0
      PROVE  StateAt(w, vc.time) # vc.location
  <2>1. vc \in States /\ vc.time \in Nat /\ vc = State(vc.time, vc.location)
    BY StateFields DEF Constraints
  <2>2. CASE vc.time < Len(w)
    <3>1. PICK i \in 1 .. Len(w) - 1 : vc.time = i
      BY <1>1, <1>2, <2>1, <2>2
    <3>2. Step(p, k, i - 1, w[i], w[i + 1]) /\ i - 1 \in Nat /\ w[i] \in Cells
      BY WalkStep
    <3>3. State(i - 1 + 1, w[i + 1]) \notin k.vertex
      BY <3>2, StepFollows
    <3>4. StateAt(w, vc.time) = w[i + 1]
      BY <2>2, <3>1 DEF StateAt
    <3>5. i - 1 + 1 = i
      OBVIOUS
    <3> QED BY <2>1, <3>1, <3>3, <3>4, <3>5
  <2>3. CASE vc.time >= Len(w)
    <3>1. StateAt(w, vc.time) = w[Len(w)]
      BY <1>1, <2>1, <2>3 DEF StateAt
    <3>2. vc.time >= Len(w) - 1
      BY <1>1, <2>1, <2>3
    <3> QED BY <1>2, <3>1, <3>2 DEF Arrives
  <2> QED BY <1>1, <2>1, <2>2, <2>3
<1>3. ASSUME NEW e \in k.edge
      PROVE  <<StateAt(w, e[1]), StateAt(w, e[1] + 1)>> # <<e[2], e[3]>>
  <2>1. e \in Moves /\ e[1] \in Nat /\ e[2] # e[3] /\ e = <<e[1], e[2], e[3]>>
    BY DEF Constraints, Moves
  <2>2. CASE e[1] < Len(w) - 1
    <3>1. PICK i \in 1 .. Len(w) - 1 : e[1] = i - 1
      <4> DEFINE j == e[1] + 1
      <4>1. j \in 1 .. Len(w) - 1 /\ e[1] = j - 1
        BY <1>1, <2>1, <2>2
      <4> HIDE DEF j
      <4> QED BY <4>1
    <3>2. Step(p, k, i - 1, w[i], w[i + 1]) /\ i - 1 \in Nat /\ w[i] \in Cells
      BY WalkStep
    <3>3. w[i + 1] = w[i] \/ <<i - 1, w[i], w[i + 1]>> \notin k.edge
      BY <3>2, StepFollows
    <3>4. StateAt(w, e[1]) = w[i] /\ StateAt(w, e[1] + 1) = w[i + 1]
      BY <1>1, <2>2, <3>1 DEF StateAt
    <3> QED BY <1>3, <2>1, <3>1, <3>3, <3>4
  <2>3. CASE e[1] >= Len(w) - 1
    <3>1. StateAt(w, e[1] + 1) = w[Len(w)] /\ StateAt(w, e[1]) = w[Len(w)]
      BY <1>1, <2>1, <2>3 DEF StateAt
    <3> QED BY <2>1, <3>1
  <2> QED BY <1>1, <2>1, <2>2, <2>3
<1> QED BY <1>2, <1>3 DEF KeepsTo

-----------------------------------------------------------------------------
(* A*.                                                                     *)

\* The function of reconstruct_path.
PathsBack(path) ==
  path = [x \in DOMAIN g_score |->
            IF x \in DOMAIN came_from THEN Append(path[came_from[x]], x.location)
            ELSE <<x.location>>]

\* The invariant of the loop.
AStar(a, k) ==
  /\ DOMAIN g_score \subseteq States
  /\ open_set \cup closed_set = DOMAIN g_score
  /\ State(0, problem.start[a]) \in DOMAIN g_score
  /\ \A s \in DOMAIN g_score : g_score[s] = s.time
  /\ \A s \in closed_set : /\ ~AtGoalForGood(a, k, s)
                           /\ GetNeighbors(problem, k, s) \subseteq DOMAIN g_score
  /\ DOMAIN came_from = DOMAIN g_score \ {State(0, problem.start[a])}
  /\ \A x \in DOMAIN came_from : /\ came_from[x] \in DOMAIN g_score
                                 /\ x \in GetNeighbors(problem, k, came_from[x])
  /\ \E path : PathsBack(path)

LEMMA UpdatedIs ==
  ASSUME NEW f, NEW S, NEW e
  PROVE  /\ DOMAIN Updated(f, S, e) = DOMAIN f \cup S
         /\ \A x \in S : Updated(f, S, e)[x] = e
         /\ \A x \in DOMAIN f \ S : Updated(f, S, e)[x] = f[x]
BY DEF Updated

LEMMA BeginKeeps ==
  ASSUME NEW a, problem.start[a] \in Cells, NEW k, BeginSearch(a), problem' = problem
  PROVE  AStar(a, k)'
<1> DEFINE i == State(0, problem.start[a])
<1>1. i \in States /\ i.time = 0
  BY StateIs
<1>2. g_score' = [x \in {i} |-> 0] /\ came_from' = <<>> /\ open_set' = {i} /\ closed_set' = {}
  BY DEF BeginSearch
<1>3. DOMAIN g_score' = {i} /\ DOMAIN came_from' = {} /\ g_score'[i] = 0
  BY <1>2
<1>4. (\E path : PathsBack(path))'
  <2> DEFINE path == [x \in {i} |-> <<x.location>>]
  <2>1. path = [x \in DOMAIN g_score' |->
                  IF x \in DOMAIN came_from' THEN Append(path[came_from'[x]], x.location)
                  ELSE <<x.location>>]
    BY <1>3
  <2> QED BY <2>1 DEF PathsBack
<1>5. State(0, problem.start[a])' = i
  BY DEF State
<1> HIDE DEF i
<1> QED BY <1>1, <1>2, <1>3, <1>4, <1>5 DEF AStar

LEMMA ExpandKeeps ==
  ASSUME NEW a, problem.start[a] \in Cells, NEW k, AStar(a, k),
         NEW s \in open_set, Expand(a, k, s), problem' = problem
  PROVE  AStar(a, k)'
<1> DEFINE i == State(0, problem.start[a])
           near == GetNeighbors(problem, k, s)
           neighbors == near \ (closed_set \cup {s})
           better == {n \in neighbors : n \notin open_set \/ g_score[s] + 1 < g_score[n]}
<1>1. s \in DOMAIN g_score /\ s \in States /\ s.time \in Nat /\ g_score[s] = s.time
  <2>1. s \in DOMAIN g_score /\ s \in States /\ g_score[s] = s.time
    BY DEF AStar
  <2> QED BY <2>1, StateFields
<1>2. \A n \in near : n \in States /\ n.time = s.time + 1
  <2>1. \A n \in near : Follows(k, s, n)
    BY <1>1, NeighborsFollow
  <2> QED BY <2>1 DEF Follows
<1>3. better = neighbors \ DOMAIN g_score
  <2>1. ASSUME NEW n \in neighbors, n \in DOMAIN g_score PROVE n \notin better
    <3>1. n \in open_set /\ g_score[n] = n.time /\ n.time = s.time + 1
      BY <1>2, <2>1 DEF AStar
    <3>2. ~(g_score[s] + 1 < g_score[n])
      BY <1>1, <3>1
    <3> QED BY <3>1, <3>2
  <2>2. ASSUME NEW n \in neighbors, n \notin DOMAIN g_score PROVE n \in better
    BY <2>2 DEF AStar
  <2> QED BY <2>1, <2>2
<1>4. /\ open_set' = (open_set \ {s}) \cup neighbors
      /\ closed_set' = closed_set \cup {s}
      /\ came_from' = Updated(came_from, better, s)
      /\ g_score' = Updated(g_score, better, g_score[s] + 1)
      /\ ~AtGoalForGood(a, k, s)
  BY DEF Expand
<1>5. near \subseteq DOMAIN g_score \cup neighbors /\ neighbors \subseteq near
  BY <1>1 DEF AStar
<1> HIDE DEF better, neighbors
<1>6. /\ DOMAIN g_score' = DOMAIN g_score \cup better
      /\ \A n \in better : g_score'[n] = g_score[s] + 1
      /\ \A n \in DOMAIN g_score \ better : g_score'[n] = g_score[n]
  BY <1>4 DEF Updated
<1>7. /\ DOMAIN came_from' = DOMAIN came_from \cup better
      /\ \A n \in better : came_from'[n] = s
      /\ \A n \in DOMAIN came_from \ better : came_from'[n] = came_from[n]
  BY <1>4 DEF Updated
<1>8. /\ better \cap DOMAIN g_score = {} /\ better \subseteq near
      /\ DOMAIN g_score' = DOMAIN g_score \cup neighbors
  BY <1>3, <1>5, <1>6
<1>9. DOMAIN came_from = DOMAIN g_score \ {i} /\ i \in DOMAIN g_score
  BY DEF AStar
<1>10. DOMAIN g_score' \subseteq States
  BY <1>2, <1>6, <1>8 DEF AStar
<1>11. open_set' \cup closed_set' = DOMAIN g_score'
  <2>1. open_set \cup closed_set = DOMAIN g_score
    BY DEF AStar
  <2> QED BY <1>1, <1>4, <1>8, <2>1, Zenon
<1>12. \A x \in DOMAIN g_score' : g_score'[x] = x.time
  <2>1. \A x \in DOMAIN g_score : g_score[x] = x.time
    BY DEF AStar
  <2>2. \A x \in better : x.time = g_score[s] + 1
    BY <1>1, <1>2, <1>8
  <2> QED BY <1>6, <2>1, <2>2
<1>13. \A x \in closed_set' : /\ ~AtGoalForGood(a, k, x)
                              /\ GetNeighbors(problem, k, x) \subseteq DOMAIN g_score'
  BY <1>4, <1>5, <1>8 DEF AStar
<1>14. \A x \in DOMAIN came_from' : /\ came_from'[x] \in DOMAIN g_score'
                                    /\ x \in GetNeighbors(problem, k, came_from'[x])
  <2>1. ASSUME NEW x \in better
        PROVE  came_from'[x] \in DOMAIN g_score' /\ x \in GetNeighbors(problem, k, came_from'[x])
    BY <1>1, <1>7, <1>8
  <2>2. ASSUME NEW x \in DOMAIN came_from \ better
        PROVE  came_from'[x] \in DOMAIN g_score' /\ x \in GetNeighbors(problem, k, came_from'[x])
    <3>1. came_from[x] \in DOMAIN g_score /\ x \in GetNeighbors(problem, k, came_from[x])
      BY DEF AStar
    <3> QED BY <1>7, <1>8, <3>1
  <2> QED BY <1>7, <2>1, <2>2
<1>15. (\E path : PathsBack(path))'
  <2>1. PICK path : PathsBack(path)
    BY DEF AStar
  <2> DEFINE longer == [x \in DOMAIN g_score' |->
                          IF x \in better THEN Append(path[s], x.location) ELSE path[x]]
  <2>2. \A x \in DOMAIN g_score : longer[x] = path[x]
    BY <1>6, <1>8
  <2>3. ASSUME NEW x \in DOMAIN g_score'
        PROVE  longer[x] = IF x \in DOMAIN came_from'
                           THEN Append(longer[came_from'[x]], x.location)
                           ELSE <<x.location>>
    <3>1. CASE x \in better
      <4>1. longer[x] = Append(path[s], x.location)
        BY <3>1
      <4> HIDE DEF longer
      <4> QED BY <1>1, <1>7, <2>2, <3>1, <4>1
    <3>2. CASE x \notin better
      <4>1. x \in DOMAIN g_score /\ longer[x] = path[x]
        BY <1>6, <2>2, <3>2
      <4>2. path[x] = IF x \in DOMAIN came_from THEN Append(path[came_from[x]], x.location)
                      ELSE <<x.location>>
        BY <2>1, <4>1 DEF PathsBack
      <4>3. x \in DOMAIN came_from =>
              longer[came_from[x]] = path[came_from[x]] /\ came_from'[x] = came_from[x]
        BY <1>7, <2>2, <3>2 DEF AStar
      <4>4. x \in DOMAIN came_from' <=> x \in DOMAIN came_from
        BY <1>7, <3>2
      <4> HIDE DEF longer
      <4> QED BY <4>1, <4>2, <4>3, <4>4
    <3> QED BY <3>1, <3>2
  <2>4. longer = [x \in DOMAIN g_score' |->
                    IF x \in DOMAIN came_from' THEN Append(longer[came_from'[x]], x.location)
                    ELSE <<x.location>>]
    BY <2>3
  <2> QED BY <2>4, Zenon DEF PathsBack
<1>16. State(0, problem.start[a])' = i
  BY DEF State
<1>17. \A x : AtGoalForGood(a, k, x)' <=> AtGoalForGood(a, k, x)
  BY DEF AtGoalForGood
<1>18. DOMAIN came_from' = DOMAIN g_score' \ {i} /\ i \in DOMAIN g_score'
  BY <1>6, <1>7, <1>8, <1>9
<1> HIDE DEF i, near
<1> QED BY <1>10, <1>11, <1>12, <1>13, <1>14, <1>15, <1>16, <1>17, <1>18 DEF AStar

\* The path to a state is a walk that comes there at its time.
LeadsTo(a, k, w, x) ==
  Walk(problem, a, k, w) /\ Len(w) = x.time + 1 /\ w[Len(w)] = x.location

LEMMA PathsAreWalks ==
  ASSUME NEW a, problem.start[a] \in Cells, NEW k, AStar(a, k), NEW path, PathsBack(path),
         NEW s \in DOMAIN g_score
  PROVE  LeadsTo(a, k, path[s], s)
<1> DEFINE initial == State(0, problem.start[a])
           Bad == {x \in DOMAIN g_score : ~LeadsTo(a, k, path[x], x)}
           T == {x.time : x \in Bad}
<1> SUFFICES ASSUME Bad # {} PROVE FALSE
  OBVIOUS
<1>1. DOMAIN g_score \subseteq States
  BY DEF AStar
<1>2. PICK t \in T : \A u \in T : t <= u
  <2>1. T \in SUBSET Nat /\ T # {}
    BY <1>1, StateFields
  <2> HIDE DEF T
  <2> QED BY <2>1, WellOrdered
<1>3. PICK x \in Bad : \A y \in Bad : x.time <= y.time
  BY <1>2
<1>4. x \in DOMAIN g_score /\ x \in States /\ x.time \in Nat /\ x.location \in Cells
  BY <1>1, StateFields
<1>5. path[x] = IF x \in DOMAIN came_from THEN Append(path[came_from[x]], x.location)
                ELSE <<x.location>>
  BY <1>4 DEF PathsBack
<1>6. CASE x \in DOMAIN came_from
  <2> DEFINE y == came_from[x]
             w == path[y]
  <2>1. y \in DOMAIN g_score /\ x \in GetNeighbors(problem, k, y) /\ y \in States
    BY <1>1, <1>6 DEF AStar
  <2>2. x.time = y.time + 1 /\ y.time \in Nat /\ y = State(y.time, y.location)
    <3> HIDE DEF y
    <3>1. Follows(k, y, x)
      BY <2>1, NeighborsFollow
    <3> QED BY <2>1, <3>1, StateFields DEF Follows
  <2>3. y \notin Bad
    BY <1>3, <2>2
  <2>4. Walk(problem, a, k, w) /\ Len(w) = y.time + 1 /\ w[Len(w)] = y.location
    BY <2>1, <2>3 DEF LeadsTo
  <2>5. Step(problem, k, Len(w) - 1, w[Len(w)], x.location)
    <3>1. x = State(y.time + 1, x.location)
      BY <1>4, <2>2, StateFields
    <3>2. Step(problem, k, y.time, y.location, x.location)
      BY <2>1, <2>2, <3>1 DEF Step
    <3>3. Len(w) - 1 = y.time
      BY <2>2, <2>4
    <3> QED BY <2>4, <3>2, <3>3
  <2>6. Walk(problem, a, k, Append(w, x.location))
    BY <2>4, <2>5, WalkLonger
  <2>7. Len(Append(w, x.location)) = Len(w) + 1 /\ Append(w, x.location)[Len(w) + 1] = x.location
    BY <1>4, <2>4 DEF Walk
  <2>8. path[x] = Append(w, x.location)
    BY <1>5, <1>6
  <2> HIDE DEF y, w
  <2> QED BY <2>2, <2>4, <2>6, <2>7, <2>8 DEF LeadsTo
<1>7. CASE x \notin DOMAIN came_from
  <2>1. x = initial
    BY <1>4, <1>7 DEF AStar
  <2>2. x.time = 0 /\ x.location = problem.start[a]
    BY <2>1, StateIs
  <2>3. path[x] = <<problem.start[a]>>
    BY <1>5, <1>7, <2>2
  <2>4. Walk(problem, a, k, <<problem.start[a]>>)
    BY DEF Walk
  <2>5. LeadsTo(a, k, path[x], x)
    BY <2>2, <2>3, <2>4 DEF LeadsTo
  <2> QED BY <2>5
<1> QED BY <1>6, <1>7

\* On a walk that arrives, the goal is as near at every place as the heuristic
\* says, or farther.
LEMMA GoalIsFarther ==
  ASSUME NEW p, NEW a, p.goal[a] \in Cells, NEW k, NEW w, Walk(p, a, k, w),
         w[Len(w)] = p.goal[a], NEW m \in 1 .. Len(w)
  PROVE  m + AdmissibleHeuristic(p, a, w[m]) <= Len(w)
<1> DEFINE h(i) == AdmissibleHeuristic(p, a, w[i])
           T == {n \in 0 .. Len(w) - 1 : ~(Len(w) - n + h(Len(w) - n) <= Len(w))}
<1>1. /\ Len(w) \in Nat /\ Len(w) > 0
      /\ \A i \in 1 .. Len(w) : w[i] \in Cells
  BY DEF Walk
<1>2. \A i \in 1 .. Len(w) : h(i) \in Nat
  BY <1>1, HeuristicType
<1>3. h(Len(w)) = 0
  BY <1>1, HeuristicType
<1>4. \A i \in 1 .. Len(w) - 1 : h(i) <= h(i + 1) + 1
  <2> TAKE i \in 1 .. Len(w) - 1
  <2>1. i - 1 \in Nat /\ w[i] \in Cells /\ w[i + 1] \in Cells /\ Step(p, k, i - 1, w[i], w[i + 1])
    BY WalkStep
  <2>2. State(i - 1, w[i]) \in States /\ State(i - 1, w[i]).location = w[i]
    BY <2>1, StateIs
  <2>3. State(i - 1 + 1, w[i + 1]).location = w[i + 1]
    BY DEF State
  <2> QED BY <2>1, <2>2, <2>3, Consistent DEF Step
<1> HIDE DEF h
<1>5. T = {}
  <2> SUFFICES ASSUME T # {} PROVE FALSE
    OBVIOUS
  <2>1. PICK n \in T : \A i \in T : n <= i
    <3>1. T \in SUBSET Nat
      BY <1>1
    <3> HIDE DEF T
    <3> QED BY <3>1, WellOrdered
  <2>2. n # 0
    BY <1>1, <1>3, <2>1
  <2>3. n - 1 \notin T /\ n - 1 \in 0 .. Len(w) - 1
    BY <1>1, <2>1, <2>2
  <2>4. PICK i \in 1 .. Len(w) - 1 : i = Len(w) - n
    <3> DEFINE j == Len(w) - n
    <3>1. j \in 1 .. Len(w) - 1
      BY <1>1, <2>1, <2>2
    <3> HIDE DEF j, T
    <3>2. \E i \in 1 .. Len(w) - 1 : i = j
      BY <3>1
    <3> QED BY <3>2 DEF j
  <2>5. i + 1 = Len(w) - (n - 1) /\ i + 1 \in 1 .. Len(w) /\ i \in 1 .. Len(w)
    BY <1>1, <2>4, <2>1
  <2>6. i + 1 + h(i + 1) <= Len(w)
    BY <2>3, <2>5
  <2>7. ~(i + h(i) <= Len(w))
    BY <2>1, <2>4
  <2>8. h(i) \in Nat /\ h(i + 1) \in Nat /\ h(i) <= h(i + 1) + 1
    BY <1>2, <1>4, <2>5
  <2> HIDE DEF T
  <2> QED BY <1>1, <2>6, <2>7, <2>8
<1>6. Len(w) - m \in 0 .. Len(w) - 1 /\ Len(w) - (Len(w) - m) = m
  BY <1>1
<1>7. m + h(m) <= Len(w)
  BY <1>5, <1>6
<1> QED BY <1>7 DEF h

\* A walk that arrives has a place that is still open, as no state at which
\* the search could have ended is closed.
LEMMA OpenOnWalk ==
  ASSUME NEW a, problem.start[a] \in Cells, NEW k, AStar(a, k),
         NEW w, Walk(problem, a, k, w), Arrives(problem, a, k, w)
  PROVE  \E m \in 1 .. Len(w) : State(m - 1, w[m]) \in open_set
<1> DEFINE Looked(i) == State(i - 1, w[i]) \in closed_set
           T == {i \in 1 .. Len(w) : ~Looked(i)}
<1>1. /\ Len(w) \in Nat /\ Len(w) > 0
      /\ \A i \in 1 .. Len(w) : w[i] \in Cells
      /\ w[1] = problem.start[a]
  BY DEF Walk
<1>2. ~Looked(Len(w))
  <2>1. State(Len(w) - 1, w[Len(w)]).time = Len(w) - 1
        /\ State(Len(w) - 1, w[Len(w)]).location = w[Len(w)]
    BY DEF State
  <2>2. AtGoalForGood(a, k, State(Len(w) - 1, w[Len(w)]))
    BY <2>1, Zenon DEF Arrives, AtGoalForGood
  <2> QED BY <2>2 DEF AStar
<1>3. PICK m \in T : \A i \in T : m <= i
  <2>1. T \in SUBSET Nat /\ Len(w) \in T
    BY <1>1, <1>2
  <2> HIDE DEF T
  <2> QED BY <2>1, WellOrdered
<1>4. State(m - 1, w[m]) \in DOMAIN g_score
  <2>1. CASE m = 1
    BY <1>1, <2>1 DEF AStar
  <2>2. CASE m # 1
    <3>1. PICK i \in 1 .. Len(w) - 1 : i = m - 1
      <4> DEFINE j == m - 1
      <4>1. j \in 1 .. Len(w) - 1
        BY <1>1, <2>2
      <4> HIDE DEF j
      <4>2. \E i \in 1 .. Len(w) - 1 : i = j
        BY <4>1
      <4> QED BY <4>2 DEF j
    <3>2. i + 1 = m /\ i - 1 + 1 = m - 1
      BY <3>1
    <3>3. Looked(i)
      <4>1. i \in 1 .. Len(w) /\ ~(m <= i)
        BY <1>1, <3>1
      <4> QED BY <1>3, <4>1
    <3>4. Step(problem, k, i - 1, w[i], w[i + 1])
      BY WalkStep
    <3>5. State(i - 1 + 1, w[i + 1]) \in GetNeighbors(problem, k, State(i - 1, w[i]))
      BY <3>4 DEF Step
    <3> QED BY <3>2, <3>3, <3>5 DEF AStar
  <2> QED BY <2>1, <2>2
<1>5. State(m - 1, w[m]) \in open_set
  BY <1>3, <1>4 DEF AStar
<1> QED BY <1>5

\* A* ends with a shortest walk of those that arrive.
LEMMA AStarFinds ==
  ASSUME IsProblem(problem), NEW a \in Agents(problem), NEW k, AStar(a, k),
         NEW s, Current(a, s), AtGoalForGood(a, k, s)
  PROVE  Best(problem, a, k, ReconstructPath(s))
<1> DEFINE path == CHOOSE f : PathsBack(f)
           v == path[s]
<1>1. problem.start[a] \in Cells /\ problem.goal[a] \in Cells
  BY ElementOfSeq DEF IsProblem, Agents
<1>2. PathsBack(path)
  BY DEF AStar
<1>3. ReconstructPath(s) = v
  BY Zenon DEF ReconstructPath, PathsBack
<1>4. s \in DOMAIN g_score /\ s \in open_set /\ s \in States /\ s.time \in Nat
      /\ g_score[s] = s.time
  BY StateFields DEF Current, AStar
<1>5. LeadsTo(a, k, v, s)
  BY <1>1, <1>2, <1>4, PathsAreWalks
<1> HIDE DEF path, v
<1>6. Walk(problem, a, k, v) /\ Len(v) = s.time + 1 /\ v[Len(v)] = s.location
  BY <1>5 DEF LeadsTo
<1>7. Len(v) - 1 = s.time
  BY <1>4, <1>6
<1>8. Arrives(problem, a, k, v)
  BY <1>6, <1>7 DEF Arrives, AtGoalForGood
<1>9. ASSUME NEW w \in Seq(Cells), Walk(problem, a, k, w), Arrives(problem, a, k, w)
      PROVE  Len(v) <= Len(w)
  <2>1. PICK m \in 1 .. Len(w) : State(m - 1, w[m]) \in open_set
    BY <1>1, <1>9, OpenOnWalk
  <2> DEFINE o == State(m - 1, w[m])
             h(l) == AdmissibleHeuristic(problem, a, l)
  <2>2. o.time = m - 1 /\ o.location = w[m] /\ g_score[o] = m - 1
    BY <2>1 DEF State, AStar
  <2>3. FScore(a, s) <= FScore(a, o)
    BY <2>1 DEF Current
  <2>4. h(s.location) = 0
    BY <1>1, HeuristicType DEF AtGoalForGood
  <2>5. m + h(w[m]) <= Len(w)
    BY <1>1, <1>9, GoalIsFarther DEF Arrives
  <2>6. h(w[m]) \in Nat
    BY <1>1, HeuristicType
  <2>7. FScore(a, s) = s.time + 0 /\ FScore(a, o) = m - 1 + h(w[m])
    BY <1>4, <2>2, <2>4 DEF FScore
  <2> HIDE DEF o, h
  <2> QED BY <1>4, <1>6, <2>3, <2>5, <2>6, <2>7
<1> QED BY <1>3, <1>6, <1>8, <1>9 DEF Best

-----------------------------------------------------------------------------
(* What Reach computes: the places to which walks lead.                    *)

\* The function of Reach, with the times up to n for its domain.
Reached(a, k, at, n) ==
  at = [t \in 0 .. n |->
          IF t = 0 THEN {problem.start[a]}
          ELSE UNION {{m.location : m \in GetNeighbors(problem, k, State(t - 1, l))} :
                        l \in at[t - 1]}]

LEMMA ReachedExists ==
  ASSUME NEW a, NEW k, NEW last \in Nat
  PROVE  \E at : Reached(a, k, at, last)
<1> DEFINE T == {n \in Nat : ~\E at : Reached(a, k, at, n)}
<1> SUFFICES ASSUME T # {} PROVE FALSE
  OBVIOUS
<1>1. PICK n \in T : \A i \in T : n <= i
  <2>1. T \in SUBSET Nat
    OBVIOUS
  <2> HIDE DEF T
  <2> QED BY <2>1, WellOrdered
<1>2. n \in Nat
  OBVIOUS
<1>3. CASE n = 0
  <2> DEFINE at == [t \in 0 .. 0 |-> {problem.start[a]}]
  <2>1. at = [t \in 0 .. 0 |->
               IF t = 0 THEN {problem.start[a]}
               ELSE UNION {{m.location : m \in GetNeighbors(problem, k, State(t - 1, l))} :
                             l \in at[t - 1]}]
    OBVIOUS
  <2>2. Reached(a, k, at, 0)
    BY <2>1, Zenon DEF Reached
  <2> QED BY <1>1, <1>3, <2>2
<1>4. CASE n # 0
  <2>1. n - 1 \in Nat /\ ~(n <= n - 1)
    BY <1>2, <1>4
  <2>2. PICK at : Reached(a, k, at, n - 1)
    BY <1>1, <2>1
  <2> DEFINE Value(f, t) ==
               IF t = 0 THEN {problem.start[a]}
               ELSE UNION {{m.location : m \in GetNeighbors(problem, k, State(t - 1, l))} :
                             l \in f[t - 1]}
             more == [t \in 0 .. n |-> Value(at, t)]
  <2>3. at = [t \in 0 .. n - 1 |-> Value(at, t)]
    BY <2>2 DEF Reached
  <2>4. ASSUME NEW t \in 0 .. n PROVE Value(at, t) = Value(more, t)
    <3>1. CASE t = 0
      BY <3>1
    <3>2. CASE t # 0
      <4>1. t - 1 \in 0 .. n - 1 /\ t - 1 \in 0 .. n
        BY <1>2, <3>2
      <4>2. at[t - 1] = Value(at, t - 1)
        <5> HIDE DEF Value
        <5> QED BY <2>3, <4>1
      <4>3. more[t - 1] = Value(at, t - 1)
        <5> HIDE DEF Value
        <5> QED BY <4>1
      <4>4. at[t - 1] = more[t - 1]
        BY <4>2, <4>3, Zenon
      <4> HIDE DEF more
      <4> QED BY <4>4, Zenon
    <3> QED BY <3>1, <3>2
  <2>5. more = [t \in 0 .. n |-> Value(more, t)]
    <3> HIDE DEF Value
    <3> QED BY <2>4
  <2> HIDE DEF more
  <2>6. Reached(a, k, more, n)
    BY <2>5, Zenon DEF Reached
  <2> QED BY <1>1, <2>6
<1> QED BY <1>3, <1>4

LEMMA ReachIs ==
  ASSUME NEW a, NEW k, NEW last \in Nat
  PROVE  Reached(a, k, Reach(a, k, last), last)
<1>1. \E at : Reached(a, k, at, last)
  BY ReachedExists
<1>2. Reach(a, k, last) = CHOOSE at : Reached(a, k, at, last)
  BY Zenon DEF Reach, Reached
<1> QED BY <1>1, <1>2

LEMMA ReachedByWalk ==
  ASSUME NEW a, problem.start[a] \in Cells, NEW k, NEW last \in Nat,
         NEW t \in 0 .. last, NEW l \in Reach(a, k, last)[t]
  PROVE  \E w \in Seq(Cells) : Walk(problem, a, k, w) /\ Len(w) = t + 1 /\ w[Len(w)] = l
<1> DEFINE at == Reach(a, k, last)
           WalkTo(u, m) ==
             \E w \in Seq(Cells) : Walk(problem, a, k, w) /\ Len(w) = u + 1 /\ w[Len(w)] = m
           T == {u \in 0 .. last : \E m \in at[u] : ~WalkTo(u, m)}
<1>1. \A u \in 0 .. last :
        at[u] = IF u = 0 THEN {problem.start[a]}
                ELSE UNION {{n.location : n \in GetNeighbors(problem, k, State(u - 1, m))} :
                              m \in at[u - 1]}
  <2>1. Reached(a, k, at, last)
    BY ReachIs
  <2> HIDE DEF at
  <2> QED BY <2>1 DEF Reached
<1> HIDE DEF at
<1>2. T = {}
  <2> SUFFICES ASSUME T # {} PROVE FALSE
    OBVIOUS
  <2>1. PICK u \in T : \A i \in T : u <= i
    <3>1. T \in SUBSET Nat
      OBVIOUS
    <3> HIDE DEF T
    <3> QED BY <3>1, WellOrdered
  <2>2. PICK m \in at[u] : ~WalkTo(u, m)
    BY <2>1
  <2>3. CASE u = 0
    <3>1. m = problem.start[a]
      <4>1. u \in 0 .. last
        BY <2>1
      <4> HIDE DEF T, WalkTo
      <4> QED BY <1>1, <2>2, <2>3, <4>1
    <3> DEFINE w == <<m>>
    <3>2. Len(w) = 1 /\ w[1] = m /\ w \in Seq(Cells)
      BY <3>1
    <3> HIDE DEF w
    <3>3. Walk(problem, a, k, w) /\ w[Len(w)] = m /\ Len(w) = u + 1
      BY <2>3, <3>1, <3>2 DEF Walk
    <3> QED BY <2>2, <3>2, <3>3
  <2>4. CASE u # 0
    <3>1. u - 1 \in 0 .. last /\ ~(u <= u - 1) /\ u - 1 \in Nat /\ u \in 0 .. last
      BY <2>1, <2>4
    <3>2. PICK o \in at[u - 1] : \E n \in GetNeighbors(problem, k, State(u - 1, o)) : m = n.location
      <4>1. at[u] = UNION {{n.location : n \in GetNeighbors(problem, k, State(u - 1, o))} :
                             o \in at[u - 1]}
        BY <1>1, <2>4, <3>1
      <4> HIDE DEF T, WalkTo
      <4> QED BY <2>2, <4>1
    <3>3. PICK n \in GetNeighbors(problem, k, State(u - 1, o)) : m = n.location
      BY <3>2
    <3>4. WalkTo(u - 1, o)
      BY <2>1, <3>1
    <3>5. PICK w \in Seq(Cells) :
            Walk(problem, a, k, w) /\ Len(w) = u - 1 + 1 /\ w[Len(w)] = o
      BY <3>4
    <3>6. Len(w) = u /\ o \in Cells
      BY <3>1, <3>5 DEF Walk
    <3>7. n = State(u - 1 + 1, m)
      <4>1. State(u - 1, o) \in States /\ State(u - 1, o).time = u - 1
        BY <3>1, <3>6, StateIs
      <4>2. Follows(k, State(u - 1, o), n)
        BY <4>1, NeighborsFollow
      <4> QED BY <3>3, <4>1, <4>2, StateFields DEF Follows
    <3>8. Step(problem, k, Len(w) - 1, w[Len(w)], m)
      BY <3>3, <3>5, <3>6, <3>7 DEF Step
    <3>9. Walk(problem, a, k, Append(w, m))
      BY <3>5, <3>8, WalkLonger
    <3>10. Append(w, m) \in Seq(Cells)
      BY <3>9 DEF Walk
    <3>11. m \in Cells
      BY <3>6, <3>8, <3>1, <3>5, StepFollows
    <3>12. Len(Append(w, m)) = u + 1 /\ Append(w, m)[u + 1] = m
      BY <3>5, <3>6, <3>11
    <3>13. WalkTo(u, m)
      BY <3>9, <3>10, <3>12
    <3> QED BY <2>2, <3>13
  <2> QED BY <2>3, <2>4
<1>3. WalkTo(t, l)
  BY <1>2 DEF at
<1> QED BY <1>3

\* What LowLevelIsShortest says of a path holds of one that no walk is shorter
\* than.
LEMMA BestIsShortest ==
  ASSUME IsProblem(problem), NEW a \in Agents(problem), NEW k \in Constraints, NEW path,
         Best(problem, a, k, path)
  PROVE  LET reach == Reach(a, k, Len(path) - 1)
         IN /\ KeepsTo(path, k)
            /\ path[1] = problem.start[a] /\ path[Len(path)] = problem.goal[a]
            /\ \A t \in 0 .. Len(path) - 2 :
                 \/ problem.goal[a] \notin reach[t]
                 \/ ~AtGoalForGood(a, k, State(t, problem.goal[a]))
<1>1. problem.start[a] \in Cells
  BY ElementOfSeq DEF IsProblem, Agents
<1>2. KeepsTo(path, k)
  BY WalkKeepsTo DEF Best
<1>3. path[1] = problem.start[a] /\ path[Len(path)] = problem.goal[a]
  BY DEF Best, Walk, Arrives
<1>4. ASSUME NEW t \in 0 .. Len(path) - 2,
             problem.goal[a] \in Reach(a, k, Len(path) - 1)[t],
             AtGoalForGood(a, k, State(t, problem.goal[a]))
      PROVE  FALSE
  <2>1. Len(path) \in Nat
    BY DEF Best, Walk
  <2>2. Len(path) - 1 \in Nat /\ t \in 0 .. Len(path) - 1
    BY <2>1
  <2>3. PICK w \in Seq(Cells) :
          Walk(problem, a, k, w) /\ Len(w) = t + 1 /\ w[Len(w)] = problem.goal[a]
    BY <1>1, <1>4, <2>2, ReachedByWalk
  <2>4. State(t, problem.goal[a]).time = t /\ State(t, problem.goal[a]).location = problem.goal[a]
    BY DEF State
  <2>5. Len(w) - 1 = t
    BY <2>3
  <2>6. Arrives(problem, a, k, w)
    BY <1>4, <2>3, <2>4, <2>5 DEF AtGoalForGood, Arrives
  <2>7. Len(path) <= Len(w)
    BY <2>3, <2>6 DEF Best
  <2> QED BY <2>1, <2>3, <2>7
<1> QED BY <1>2, <1>3, <1>4

-----------------------------------------------------------------------------
(* Conflicts.                                                              *)

Paths == {w \in Seq(Cells) : Len(w) > 0}

LEMMA StateAtIs ==
  ASSUME NEW w \in Paths, NEW t \in Nat
  PROVE  /\ StateAt(w, t) \in Cells
         /\ t >= Len(w) - 1 => StateAt(w, t) = w[Len(w)]
<1>1. Len(w) \in Nat /\ Len(w) > 0 /\ \A i \in 1 .. Len(w) : w[i] \in Cells
  BY DEF Paths
<1> QED BY <1>1 DEF StateAt

LEMMA MaxTIs ==
  ASSUME NEW n \in Nat, n > 0, NEW ps \in [1 .. n -> Paths]
  PROVE  /\ MaxT(ps) \in Nat /\ MaxT(ps) > 0
         /\ \A i \in 1 .. n : Len(ps[i]) <= MaxT(ps)
<1> DEFINE T == {Len(ps[i]) : i \in 1 .. n}
<1>1. DOMAIN ps = 1 .. n
  OBVIOUS
<1>2. T \in SUBSET Nat /\ T # {} /\ \A l \in T : l > 0
  <2>1. \A i \in 1 .. n : Len(ps[i]) \in Nat /\ Len(ps[i]) > 0
    BY DEF Paths
  <2>2. 1 \in 1 .. n
    OBVIOUS
  <2> QED BY <2>1, <2>2
<1>4. \E m \in T : \A l \in T : l <= m
  <2> DEFINE f == [i \in 1 .. n |-> Len(ps[i])]
  <2>1. f \in [1 .. n -> Nat]
    BY <1>2
  <2>2. PICK i \in 1 .. n : \A j \in 1 .. n : f[j] <= f[i]
    BY <2>1, GreatestOf
  <2> QED BY <2>2
<1> HIDE DEF T
<1>5. MaxT(ps) = CHOOSE m \in T : \A i \in 1 .. n : Len(ps[i]) <= m
  BY <1>1 DEF MaxT, T
<1>6. MaxT(ps) \in T /\ \A i \in 1 .. n : Len(ps[i]) <= MaxT(ps)
  BY <1>4, <1>5 DEF T
<1> QED BY <1>2, <1>6

LEMMA ConflictFields ==
  ASSUME NEW n \in Nat, NEW ps \in [1 .. n -> Paths], NEW c \in Conflicts(ps)
  PROVE  /\ c.type \in {VERTEX, EDGE} /\ c.type \in Nat
         /\ c.time \in Nat
         /\ c.agent_1 \in 1 .. n /\ c.agent_2 \in 1 .. n
<1>1. /\ c.type \in {VERTEX, EDGE} /\ c.time \in 0 .. MaxT(ps) - 1
      /\ c.agent_1 \in 1 .. n /\ c.agent_2 \in 1 .. n
  BY DEF Conflicts
<1>2. n > 0
  BY <1>1
<1>3. MaxT(ps) \in Nat
  BY <1>2, MaxTIs
<1> QED BY <1>1, <1>3 DEF VERTEX, EDGE

LEMMA LeastOf ==
  ASSUME NEW C, C # {}, NEW f \in [C -> Nat]
  PROVE  \E c \in C : \A d \in C : f[c] <= f[d]
<1> DEFINE T == {f[c] : c \in C}
<1>1. T \in SUBSET Nat /\ T # {}
  OBVIOUS
<1>2. PICK t \in T : \A u \in T : t <= u
  <2> HIDE DEF T
  <2> QED BY <1>1, WellOrdered
<1> QED BY <1>2

\* The order of the loops has a first conflict when there is one.
LEMMA FirstConflict ==
  ASSUME NEW n \in Nat, NEW ps \in [1 .. n -> Paths], Conflicts(ps) # {}
  PROVE  /\ GetFirstConflict(ps) \in Conflicts(ps)
         /\ \A d \in Conflicts(ps) : FoundBefore(GetFirstConflict(ps), d)
<1>1. PICK t \in Conflicts(ps) : \A d \in Conflicts(ps) : t.time <= d.time
  <2> DEFINE f == [c \in Conflicts(ps) |-> c.time]
  <2>1. f \in [Conflicts(ps) -> Nat]
    BY ConflictFields
  <2>2. \E c \in Conflicts(ps) : \A d \in Conflicts(ps) : f[c] <= f[d]
    BY <2>1, LeastOf
  <2> QED BY <2>2
<1> DEFINE A == {c \in Conflicts(ps) : c.time = t.time}
<1>2. PICK y \in A : \A d \in A : y.type <= d.type
  <2> DEFINE f == [c \in A |-> c.type]
  <2>1. f \in [A -> Nat] /\ A # {}
    BY ConflictFields
  <2>2. \E c \in A : \A d \in A : f[c] <= f[d]
    BY <2>1, LeastOf
  <2> QED BY <2>2
<1> DEFINE B == {c \in A : c.type = y.type}
<1>3. PICK i \in B : \A d \in B : i.agent_1 <= d.agent_1
  <2> DEFINE f == [c \in B |-> c.agent_1]
  <2>1. f \in [B -> Nat] /\ B # {}
    BY ConflictFields
  <2>2. \E c \in B : \A d \in B : f[c] <= f[d]
    BY <2>1, LeastOf
  <2> QED BY <2>2
<1> DEFINE D == {c \in B : c.agent_1 = i.agent_1}
<1>4. PICK j \in D : \A d \in D : j.agent_2 <= d.agent_2
  <2> DEFINE f == [c \in D |-> c.agent_2]
  <2>1. f \in [D -> Nat] /\ D # {}
    BY ConflictFields
  <2>2. \E c \in D : \A d \in D : f[c] <= f[d]
    <3> HIDE DEF D, f
    <3> QED BY <2>1, LeastOf
  <2> QED BY <2>2
<1>5. /\ j \in Conflicts(ps)
      /\ j.time = t.time /\ j.type = y.type /\ j.agent_1 = i.agent_1
  OBVIOUS
<1>6. ASSUME NEW d \in Conflicts(ps) PROVE FoundBefore(j, d)
  <2>1. /\ d.time \in Nat /\ d.type \in Nat /\ d.agent_1 \in Nat /\ d.agent_2 \in Nat
        /\ j.time \in Nat /\ j.type \in Nat /\ j.agent_1 \in Nat /\ j.agent_2 \in Nat
    BY <1>5, ConflictFields
  <2>2. j.time <= d.time
    BY <1>1, <1>5
  <2>3. j.time = d.time => j.type <= d.type
    BY <1>2, <1>5
  <2>4. j.time = d.time /\ j.type = d.type => j.agent_1 <= d.agent_1
    BY <1>3, <1>5
  <2>5. j.time = d.time /\ j.type = d.type /\ j.agent_1 = d.agent_1 => j.agent_2 <= d.agent_2
    BY <1>4, <1>5
  <2> QED BY <2>1, <2>2, <2>3, <2>4, <2>5 DEF FoundBefore
<1> QED BY <1>5, <1>6 DEF GetFirstConflict

\* The first conflict on an edge is one of two moves: where neither agent
\* moves there is a conflict in a place, which is found before.
LEMMA FirstEdgeIsAMove ==
  ASSUME NEW n \in Nat, NEW ps \in [1 .. n -> Paths],
         NEW c \in Conflicts(ps), \A d \in Conflicts(ps) : FoundBefore(c, d), c.type # VERTEX
  PROVE  StateAt(ps[c.agent_1], c.time) # StateAt(ps[c.agent_1], c.time + 1)
<1> SUFFICES ASSUME StateAt(ps[c.agent_1], c.time) = StateAt(ps[c.agent_1], c.time + 1)
             PROVE  FALSE
  OBVIOUS
<1> DEFINE d == [ type |-> VERTEX, time |-> c.time,
                  agent_1 |-> c.agent_1, agent_2 |-> c.agent_2 ]
<1>1. EdgeConflict(ps, c.agent_1, c.agent_2, c.time) /\ c.agent_1 < c.agent_2
  BY DEF Conflicts
<1>2. VertexConflict(ps, c.agent_1, c.agent_2, c.time)
  BY <1>1 DEF EdgeConflict, VertexConflict
<1>3. d \in Conflicts(ps)
  BY <1>1, <1>2 DEF Conflicts
<1>4. FoundBefore(c, d)
  BY <1>3
<1>5. c.time \in Nat /\ c.type = 2 /\ d.type = 1 /\ d.time = c.time
  BY ConflictFields DEF VERTEX, EDGE
<1> HIDE DEF d
<1> QED BY <1>4, <1>5 DEF FoundBefore

LEMMA CreateType ==
  ASSUME NEW n \in Nat, NEW ps \in [1 .. n -> Paths],
         NEW c \in Conflicts(ps), \A d \in Conflicts(ps) : FoundBefore(c, d), NEW a
  PROVE  CreateConstraints(ps, c, a) \in Constraints
<1> DEFINE from == StateAt(ps[c.agent_1], c.time)
           to == StateAt(ps[c.agent_1], c.time + 1)
<1>1. c.time \in Nat /\ c.agent_1 \in 1 .. n
  BY ConflictFields
<1>2. from \in Cells /\ to \in Cells
  BY <1>1, StateAtIs
<1>3. CASE c.type = VERTEX
  <2>1. State(c.time, from) \in States
    BY <1>1, <1>2, StateIs
  <2>2. CreateConstraints(ps, c, a) = [vertex |-> {State(c.time, from)}, edge |-> {}]
    BY <1>3 DEF CreateConstraints
  <2> HIDE DEF from
  <2> QED BY <2>1, <2>2 DEF Constraints
<1>4. CASE c.type # VERTEX
  <2>1. from # to
    BY <1>4, FirstEdgeIsAMove
  <2>2. PICK e \in {<<c.time, from, to>>, <<c.time, to, from>>} :
          CreateConstraints(ps, c, a) = [vertex |-> {}, edge |-> {e}]
    BY <1>4 DEF CreateConstraints
  <2> HIDE DEF from, to
  <2>3. e \in Moves
    BY <1>1, <1>2, <2>1 DEF Moves
  <2> QED BY <2>2, <2>3 DEF Constraints
<1> QED BY <1>3, <1>4

\* Without a conflict no two agents are in one place or exchange their places,
\* after the end of the longest path as well.
Apart(ps, n) ==
  \A t \in 0 .. MaxT(ps) : \A a, b \in 1 .. n :
    a # b => /\ StateAt(ps[a], t) # StateAt(ps[b], t)
             /\ <<StateAt(ps[a], t), StateAt(ps[a], t + 1)>> #
                  <<StateAt(ps[b], t + 1), StateAt(ps[b], t)>>

LEMMA ConflictFreeIsApart ==
  ASSUME NEW n \in Nat, NEW ps \in [1 .. n -> Paths], GetFirstConflict(ps) = NoConflict
  PROVE  Apart(ps, n)
<1>1. Conflicts(ps) = {}
  <2> SUFFICES ASSUME Conflicts(ps) # {} PROVE FALSE
    OBVIOUS
  <2>1. GetFirstConflict(ps).type \in {1, 2}
    BY FirstConflict, ConflictFields DEF VERTEX, EDGE
  <2> QED BY <2>1 DEF NoConflict
<1>2. SUFFICES ASSUME NEW t \in 0 .. MaxT(ps), NEW a \in 1 .. n, NEW b \in 1 .. n, a # b
               PROVE  /\ StateAt(ps[a], t) # StateAt(ps[b], t)
                      /\ ~ /\ StateAt(ps[a], t) = StateAt(ps[b], t + 1)
                           /\ StateAt(ps[a], t + 1) = StateAt(ps[b], t)
  BY DEF Apart
<1>3. /\ MaxT(ps) \in Nat /\ MaxT(ps) > 0 /\ n > 0
      /\ \A i \in 1 .. n : Len(ps[i]) <= MaxT(ps) /\ Len(ps[i]) \in Nat
  <2>1. n > 0
    OBVIOUS
  <2> QED BY <2>1, MaxTIs DEF Paths
<1>4. ASSUME NEW u \in 0 .. MaxT(ps) - 1, NEW i \in 1 .. n, NEW j \in 1 .. n, i < j
      PROVE  ~VertexConflict(ps, i, j, u) /\ ~EdgeConflict(ps, i, j, u)
  <2>1. ASSUME VertexConflict(ps, i, j, u) PROVE FALSE
    <3> DEFINE c == [type |-> VERTEX, time |-> u, agent_1 |-> i, agent_2 |-> j]
    <3>1. c \in Conflicts(ps)
      BY <1>4, <2>1 DEF Conflicts
    <3> QED BY <1>1, <3>1
  <2>2. ASSUME EdgeConflict(ps, i, j, u) PROVE FALSE
    <3> DEFINE c == [type |-> EDGE, time |-> u, agent_1 |-> i, agent_2 |-> j]
    <3>1. c \in Conflicts(ps)
      BY <1>4, <2>2 DEF Conflicts, VERTEX, EDGE
    <3> QED BY <1>1, <3>1
  <2> QED BY <2>1, <2>2
<1>5. ASSUME NEW u \in 0 .. MaxT(ps) - 1
      PROVE  /\ StateAt(ps[a], u) # StateAt(ps[b], u)
             /\ ~ /\ StateAt(ps[a], u) = StateAt(ps[b], u + 1)
                  /\ StateAt(ps[a], u + 1) = StateAt(ps[b], u)
  <2>1. CASE a < b
    BY <1>4, <2>1 DEF VertexConflict, EdgeConflict
  <2>2. CASE b < a
    BY <1>4, <2>2 DEF VertexConflict, EdgeConflict
  <2> QED BY <1>2, <2>1, <2>2
<1>6. CASE t = MaxT(ps)
  <2> DEFINE u == MaxT(ps) - 1
  <2>1. u \in 0 .. MaxT(ps) - 1 /\ u \in Nat /\ t \in Nat /\ t + 1 \in Nat
    BY <1>3, <1>6
  <2>2. ASSUME NEW i \in 1 .. n
        PROVE  StateAt(ps[i], t) = StateAt(ps[i], u) /\ StateAt(ps[i], t + 1) = StateAt(ps[i], u)
    <3>1. u >= Len(ps[i]) - 1 /\ t >= Len(ps[i]) - 1 /\ t + 1 >= Len(ps[i]) - 1
      BY <1>3, <1>6
    <3> HIDE DEF u
    <3> QED BY <2>1, <3>1, StateAtIs
  <2> HIDE DEF u
  <2> QED BY <1>5, <2>1, <2>2
<1>7. CASE t # MaxT(ps)
  <2>1. t \in 0 .. MaxT(ps) - 1
    BY <1>3, <1>7
  <2> QED BY <1>5, <2>1
<1> QED BY <1>6, <1>7

-----------------------------------------------------------------------------
(* Costs.                                                                  *)

\* The function of compute_solution_cost, for the first n agents.
Summed(ps, sum, n) ==
  sum = [i \in 0 .. n |-> IF i = 0 THEN 0 ELSE sum[i - 1] + Len(ps[i])]

LEMMA SummedExists ==
  ASSUME NEW ps, NEW n \in Nat
  PROVE  \E sum : Summed(ps, sum, n)
<1> DEFINE T == {i \in Nat : ~\E sum : Summed(ps, sum, i)}
<1> SUFFICES ASSUME T # {} PROVE FALSE
  OBVIOUS
<1>1. PICK m \in T : \A i \in T : m <= i
  <2>1. T \in SUBSET Nat
    OBVIOUS
  <2> HIDE DEF T
  <2> QED BY <2>1, WellOrdered
<1>2. CASE m = 0
  <2> DEFINE sum == [i \in 0 .. 0 |-> 0]
  <2>1. Summed(ps, sum, 0)
    BY DEF Summed
  <2> QED BY <1>1, <1>2, <2>1
<1>3. CASE m # 0
  <2>1. m - 1 \in Nat /\ ~(m <= m - 1)
    BY <1>3
  <2>2. PICK sum : Summed(ps, sum, m - 1)
    BY <1>1, <2>1
  <2> DEFINE Value(f, i) == IF i = 0 THEN 0 ELSE f[i - 1] + Len(ps[i])
             more == [i \in 0 .. m |-> Value(sum, i)]
  <2>3. sum = [i \in 0 .. m - 1 |-> Value(sum, i)]
    BY <2>2 DEF Summed
  <2>4. ASSUME NEW i \in 0 .. m, i # 0 PROVE sum[i - 1] = more[i - 1]
    <3>1. i - 1 \in 0 .. m - 1 /\ i - 1 \in 0 .. m
      BY <2>4
    <3> HIDE DEF Value
    <3>2. sum[i - 1] = Value(sum, i - 1)
      BY <2>3, <3>1
    <3>3. more[i - 1] = Value(sum, i - 1)
      BY <3>1
    <3> QED BY <3>2, <3>3
  <2> HIDE DEF more
  <2>5. \A i \in 0 .. m : Value(sum, i) = Value(more, i)
    BY <2>4
  <2>6. more = [i \in 0 .. m |-> Value(more, i)]
    <3> HIDE DEF Value
    <3> QED BY <2>5 DEF more
  <2>7. Summed(ps, more, m)
    BY <2>6 DEF Summed
  <2> QED BY <1>1, <2>7
<1> QED BY <1>2, <1>3

LEMMA CostIs ==
  ASSUME NEW n \in Nat, NEW ps \in [1 .. n -> Paths]
  PROVE  \E sum : Summed(ps, sum, n) /\ ComputeSolutionCost(ps) = sum[n]
<1> DEFINE sum == CHOOSE f : Summed(ps, f, n)
<1>1. Len(ps) = n
  BY FunctionIsSeq
<1>2. Summed(ps, sum, n)
  BY SummedExists
<1>3. ComputeSolutionCost(ps) = sum[n]
  BY <1>1, Zenon DEF ComputeSolutionCost, Summed
<1> QED BY <1>2, <1>3

\* A solution whose paths are not longer costs no more.
LEMMA CostIsMonotone ==
  ASSUME NEW n \in Nat, NEW ps \in [1 .. n -> Paths], NEW qs \in [1 .. n -> Paths],
         \A i \in 1 .. n : Len(ps[i]) <= Len(qs[i])
  PROVE  /\ ComputeSolutionCost(ps) \in Nat /\ ComputeSolutionCost(qs) \in Nat
         /\ ComputeSolutionCost(ps) <= ComputeSolutionCost(qs)
<1>1. PICK f : Summed(ps, f, n) /\ ComputeSolutionCost(ps) = f[n]
  BY CostIs
<1>2. PICK g : Summed(qs, g, n) /\ ComputeSolutionCost(qs) = g[n]
  BY CostIs
<1>3. \A i \in 0 .. n : /\ f[i] = IF i = 0 THEN 0 ELSE f[i - 1] + Len(ps[i])
                        /\ g[i] = IF i = 0 THEN 0 ELSE g[i - 1] + Len(qs[i])
  BY <1>1, <1>2 DEF Summed
<1>4. \A i \in 1 .. n : Len(ps[i]) \in Nat /\ Len(qs[i]) \in Nat
  BY DEF Paths
<1> DEFINE Below(i) == f[i] \in Nat /\ g[i] \in Nat /\ f[i] <= g[i]
           T == {i \in 0 .. n : ~Below(i)}
<1>5. T = {}
  <2> SUFFICES ASSUME T # {} PROVE FALSE
    OBVIOUS
  <2>1. PICK i \in T : \A j \in T : i <= j
    <3>1. T \in SUBSET Nat
      OBVIOUS
    <3> HIDE DEF T
    <3> QED BY <3>1, WellOrdered
  <2>2. i \in 0 .. n /\ ~Below(i)
    OBVIOUS
  <2>3. i # 0
    BY <1>3, <2>2
  <2>4. i - 1 \in 0 .. n /\ i \in 1 .. n /\ ~(i <= i - 1)
    BY <2>2, <2>3
  <2>5. Below(i - 1)
    BY <2>1, <2>4
  <2> HIDE DEF T
  <2>6. f[i] = f[i - 1] + Len(ps[i]) /\ g[i] = g[i - 1] + Len(qs[i])
    BY <1>3, <2>2, <2>3
  <2>7. Len(ps[i]) \in Nat /\ Len(qs[i]) \in Nat /\ Len(ps[i]) <= Len(qs[i])
    BY <1>4, <2>4
  <2>8. \A u, v, w, x \in Nat : u <= v /\ w <= x => u + w \in Nat /\ v + x \in Nat /\ u + w <= v + x
    OBVIOUS
  <2>9. f[i - 1] + Len(ps[i]) <= g[i - 1] + Len(qs[i])
    BY <2>5, <2>7, <2>8
  <2>10. Below(i)
    BY <2>5, <2>6, <2>7, <2>9
  <2> QED BY <2>2, <2>10
<1>6. Below(n)
  BY <1>5
<1> QED BY <1>1, <1>2, <1>6

-----------------------------------------------------------------------------
(* Nodes.                                                                  *)

ConstraintsOfAll(p) == [Agents(p) -> Constraints]

\* The paths of a node are shortest for its constraints.
IsNode(p, n) ==
  /\ n.solution \in [Agents(p) -> Paths]
  /\ n.constraints \in ConstraintsOfAll(p)
  /\ \A a \in Agents(p) : Best(p, a, n.constraints[a], n.solution[a])

\* ks forbids the agents what js forbids, and more.
Extends(p, ks, js) ==
  \A a \in Agents(p) : js[a].vertex \subseteq ks[a].vertex /\ js[a].edge \subseteq ks[a].edge

LEMMA ProblemFields ==
  ASSUME NEW p, IsProblem(p)
  PROVE  /\ Len(p.start) \in Nat /\ Agents(p) = 1 .. Len(p.start)
         /\ \A a \in Agents(p) : p.start[a] \in Cells /\ p.goal[a] \in Cells
BY LenProperties, ElementOfSeq DEF IsProblem, Agents

\* A walk that keeps to more constraints keeps to less.
LEMMA WalkForLess ==
  ASSUME NEW p, NEW a, NEW j, NEW k, j.vertex \subseteq k.vertex, j.edge \subseteq k.edge,
         NEW w, Walk(p, a, k, w), Arrives(p, a, k, w)
  PROVE  Walk(p, a, j, w) /\ Arrives(p, a, j, w)
<1>1. ASSUME NEW s, NEW n \in GetNeighbors(p, k, s) PROVE n \in GetNeighbors(p, j, s)
  BY <1>1 DEF GetNeighbors, StateValid, TransitionValid
<1>2. \A t, l, m : Step(p, k, t, l, m) => Step(p, j, t, l, m)
  BY <1>1 DEF Step
<1>3. Walk(p, a, j, w)
  BY <1>2 DEF Walk
<1>4. Arrives(p, a, j, w)
  BY DEF Arrives
<1> QED BY <1>3, <1>4

\* A node that has more constraints costs no less.
LEMMA MoreConstraintsCostMore ==
  ASSUME NEW p, IsProblem(p), NEW m, IsNode(p, m), NEW n, IsNode(p, n),
         Extends(p, n.constraints, m.constraints)
  PROVE  /\ ComputeSolutionCost(m.solution) \in Nat /\ ComputeSolutionCost(n.solution) \in Nat
         /\ ComputeSolutionCost(m.solution) <= ComputeSolutionCost(n.solution)
<1>1. Len(p.start) \in Nat /\ Agents(p) = 1 .. Len(p.start)
  BY ProblemFields
<1>2. ASSUME NEW a \in Agents(p)
      PROVE  Len(m.solution[a]) <= Len(n.solution[a])
  <2> DEFINE w == n.solution[a]
  <2>1. w \in Seq(Cells)
    BY DEF IsNode, Paths
  <2>2. Walk(p, a, n.constraints[a], w) /\ Arrives(p, a, n.constraints[a], w)
    BY DEF IsNode, Best
  <2>3. Walk(p, a, m.constraints[a], w) /\ Arrives(p, a, m.constraints[a], w)
    BY <2>2, WalkForLess DEF Extends
  <2> HIDE DEF w
  <2>4. Len(m.solution[a]) <= Len(w)
    BY <2>1, <2>3 DEF IsNode, Best
  <2> QED BY <2>4 DEF w
<1> QED BY <1>1, <1>2, CostIsMonotone DEF IsNode

\* The constraints of a new node extend those of the node with the conflict.
LEMMA NewNodeExtends ==
  ASSUME NEW p, IsProblem(p), NEW n, IsNode(p, n), Conflicts(n.solution) # {},
         NEW a, NEW c, c = GetFirstConflict(n.solution)
  PROVE  /\ NewNode(n, c, a) \in ConstraintsOfAll(p)
         /\ Extends(p, NewNode(n, c, a), n.constraints)
<1>1. Len(p.start) \in Nat /\ Agents(p) = 1 .. Len(p.start)
  BY ProblemFields
<1>2. n.solution \in [1 .. Len(p.start) -> Paths] /\ n.constraints \in [Agents(p) -> Constraints]
  BY <1>1 DEF IsNode, ConstraintsOfAll
<1> DEFINE new == CreateConstraints(n.solution, c, a)
<1>3. new \in Constraints
  BY <1>1, <1>2, FirstConflict, CreateType
<1> HIDE DEF new
<1>4. \A k \in Constraints : /\ AddConstraint(k, new) \in Constraints
                             /\ k.vertex \subseteq AddConstraint(k, new).vertex
                             /\ k.edge \subseteq AddConstraint(k, new).edge
  BY <1>3 DEF AddConstraint, Constraints
<1>5. NewNode(n, c, a) = [n.constraints EXCEPT ![a] = AddConstraint(n.constraints[a], new)]
  BY DEF NewNode, new
<1>6. \A b \in Agents(p) :
        NewNode(n, c, a)[b] = IF b = a THEN AddConstraint(n.constraints[b], new)
                              ELSE n.constraints[b]
  BY <1>2, <1>5
<1>7. NewNode(n, c, a) \in ConstraintsOfAll(p)
  BY <1>2, <1>4, <1>5 DEF ConstraintsOfAll
<1>8. Extends(p, NewNode(n, c, a), n.constraints)
  BY <1>2, <1>4, <1>6 DEF Extends
<1> QED BY <1>7, <1>8

-----------------------------------------------------------------------------
(* The invariant of the search.                                            *)

\* The nodes to be computed, and the paths found for the first of them.
NewNodesTyped ==
  /\ new_nodes \in Seq(ConstraintsOfAll(problem))
  /\ solution \in Seq(Paths) /\ Len(solution) <= Len(problem.start)
  /\ new_nodes = <<>> => solution = <<>>
  /\ \A a \in 1 .. Len(solution) : Best(problem, a, Head(new_nodes)[a], solution[a])

PathsFound ==
  \A x \in DOMAIN found_path :
    /\ x[1] \in Agents(problem) /\ x[2] \in Constraints
    /\ Best(problem, x[1], x[2], found_path[x])

OpenAreNodes == \A n \in open_nodes : IsNode(problem, n)

AStarRuns ==
  phase = "a_star" =>
    new_nodes # <<>> /\ agent \in Agents(problem) /\ AStar(agent, constraints)

\* No node that is open, or comes of those to be computed, is cheaper than
\* the last one taken.
NodeIsCheapest ==
  node # NoNode =>
    /\ IsNode(problem, node)
    /\ \A n \in open_nodes : ComputeSolutionCost(node.solution) <= ComputeSolutionCost(n.solution)
    /\ \A i \in DOMAIN new_nodes : Extends(problem, new_nodes[i], node.constraints)

AnswerIsApart ==
  phase = "found" => IsNode(problem, node) /\ Apart(node.solution, Len(problem.start))

SearchInv ==
  /\ IsProblem(problem)
  /\ NewNodesTyped
  /\ PathsFound
  /\ OpenAreNodes
  /\ AStarRuns
  /\ NodeIsCheapest
  /\ AnswerIsApart

LEMMA StartAStarKeeps ==
  ASSUME SearchInv, StartAStar
  PROVE  SearchInv'
<1>1. /\ phase' = "a_star"
      /\ UNCHANGED <<problem, open_nodes, node, new_nodes, solution, found_path>>
      /\ new_nodes # <<>> /\ agent \in Agents(problem)
  BY DEF StartAStar, Computing
<1>2. AStar(agent, constraints)'
  <2> SUFFICES ASSUME NEW a, a = agent, NEW k, k = constraints PROVE AStar(a, k)'
    BY <1>1 DEF agent, constraints
  <2>1. problem.start[a] \in Cells
    BY <1>1, ProblemFields DEF SearchInv
  <2>2. BeginSearch(a)
    BY DEF StartAStar
  <2> QED BY <1>1, <2>1, <2>2, BeginKeeps
<1>3. AStarRuns'
  BY <1>1, <1>2 DEF AStarRuns, agent
<1>4. IsProblem(problem)' /\ NewNodesTyped' /\ PathsFound' /\ OpenAreNodes'
      /\ NodeIsCheapest'
  BY <1>1 DEF SearchInv, NewNodesTyped, PathsFound, OpenAreNodes, NodeIsCheapest
<1>5. AnswerIsApart'
  BY <1>1 DEF AnswerIsApart
<1> QED BY <1>3, <1>4, <1>5 DEF SearchInv

LEMMA PathAppended ==
  ASSUME SearchInv, new_nodes # <<>>, agent \in Agents(problem),
         NEW w, Best(problem, agent, constraints, w),
         solution' = Append(solution, w), UNCHANGED <<problem, new_nodes>>
  PROVE  NewNodesTyped'
<1>1. /\ solution \in Seq(Paths) /\ Len(solution) \in Nat
      /\ \A a \in 1 .. Len(solution) : Best(problem, a, Head(new_nodes)[a], solution[a])
  BY DEF SearchInv, NewNodesTyped
<1>2. w \in Paths
  BY DEF Best, Walk, Paths
<1>3. /\ solution' \in Seq(Paths)
      /\ Len(solution') = Len(solution) + 1
      /\ solution'[Len(solution) + 1] = w
      /\ \A a \in 1 .. Len(solution) : solution'[a] = solution[a]
  BY <1>1, <1>2
<1>4. Len(solution') <= Len(problem.start)
  BY <1>1, <1>3, ProblemFields DEF SearchInv, agent
<1>5. ASSUME NEW a \in 1 .. Len(solution')
      PROVE  Best(problem, a, Head(new_nodes)[a], solution'[a])
  <2>1. CASE a = Len(solution) + 1
    BY <1>3, <2>1, Zenon DEF agent, constraints
  <2>2. CASE a # Len(solution) + 1
    <3>1. a \in 1 .. Len(solution)
      BY <1>1, <1>3, <2>2
    <3> QED BY <1>1, <1>3, <3>1
  <2> QED BY <2>1, <2>2
<1>6. new_nodes' \in Seq(ConstraintsOfAll(problem'))
  BY DEF SearchInv, NewNodesTyped
<1> QED BY <1>3, <1>4, <1>5, <1>6 DEF NewNodesTyped

LEMMA RepeatAStarKeeps ==
  ASSUME SearchInv, RepeatAStar
  PROVE  SearchInv'
<1>1. /\ phase = "compute" /\ new_nodes # <<>> /\ agent \in Agents(problem)
      /\ UNCHANGED <<problem, phase, open_nodes, node, new_nodes, found_path>>
      /\ Searched \in DOMAIN found_path
      /\ solution' = Append(solution, found_path[Searched])
  BY DEF RepeatAStar, Computing
<1>2. Best(problem, agent, constraints, found_path[Searched])
  BY <1>1 DEF SearchInv, PathsFound, Searched
<1>3. NewNodesTyped'
  BY <1>1, <1>2, PathAppended
<1>4. IsProblem(problem)' /\ PathsFound' /\ OpenAreNodes' /\ NodeIsCheapest'
  BY <1>1 DEF SearchInv, PathsFound, OpenAreNodes, NodeIsCheapest
<1>5. AStarRuns' /\ AnswerIsApart'
  BY <1>1 DEF AStarRuns, AnswerIsApart
<1> QED BY <1>3, <1>4, <1>5 DEF SearchInv

LEMMA AStarStepKeeps ==
  ASSUME SearchInv, AStarStep
  PROVE  SearchInv'
<1>1. /\ phase = "a_star"
      /\ UNCHANGED <<problem, phase, open_nodes, node, new_nodes, solution, found_path>>
  BY DEF AStarStep
<1>2. new_nodes # <<>> /\ agent \in Agents(problem) /\ AStar(agent, constraints)
  BY <1>1 DEF SearchInv, AStarRuns
<1>3. AStar(agent, constraints)'
  <2> SUFFICES ASSUME NEW a, a = agent, NEW k, k = constraints PROVE AStar(a, k)'
    BY <1>1 DEF agent, constraints
  <2>1. problem.start[a] \in Cells
    BY <1>2, ProblemFields DEF SearchInv
  <2>2. PICK s \in open_set : Expand(a, k, s)
    BY DEF AStarStep
  <2> QED BY <1>1, <1>2, <2>1, <2>2, ExpandKeeps
<1>4. AStarRuns'
  BY <1>1, <1>2, <1>3 DEF AStarRuns, agent
<1>5. IsProblem(problem)' /\ NewNodesTyped' /\ PathsFound' /\ OpenAreNodes'
      /\ NodeIsCheapest'
  BY <1>1 DEF SearchInv, NewNodesTyped, PathsFound, OpenAreNodes, NodeIsCheapest
<1>6. AnswerIsApart'
  BY <1>1 DEF AnswerIsApart
<1> QED BY <1>4, <1>5, <1>6 DEF SearchInv

LEMMA AStarReturnsKeeps ==
  ASSUME SearchInv, AStarReturns
  PROVE  SearchInv'
<1>1. PICK s \in open_set :
        /\ Current(agent, s)
        /\ AtGoalForGood(agent, constraints, s)
        /\ solution' = Append(solution, ReconstructPath(s))
        /\ found_path' = Updated(found_path, {Searched}, ReconstructPath(s))
  BY DEF AStarReturns
<1>2. /\ phase = "a_star" /\ phase' = "compute"
      /\ UNCHANGED <<problem, open_nodes, node, new_nodes>>
  BY DEF AStarReturns
<1>3. new_nodes # <<>> /\ agent \in Agents(problem) /\ AStar(agent, constraints)
  BY <1>2 DEF SearchInv, AStarRuns
<1>4. Best(problem, agent, constraints, ReconstructPath(s))
  BY <1>1, <1>3, AStarFinds DEF SearchInv
<1>5. NewNodesTyped'
  BY <1>1, <1>2, <1>3, <1>4, PathAppended
<1>6. constraints \in Constraints
  <2>1. new_nodes \in Seq(ConstraintsOfAll(problem))
    BY DEF SearchInv, NewNodesTyped
  <2>2. Head(new_nodes) \in ConstraintsOfAll(problem)
    BY <1>3, <2>1
  <2> QED BY <1>3, <2>2 DEF ConstraintsOfAll, constraints
<1>7. PathsFound'
  <2>1. Searched[1] = agent /\ Searched[2] = constraints
    BY DEF Searched
  <2>2. ASSUME NEW x \in DOMAIN found_path'
        PROVE  /\ x[1] \in Agents(problem) /\ x[2] \in Constraints
               /\ Best(problem, x[1], x[2], found_path'[x])
    <3>1. CASE x = Searched
      <4>1. found_path'[x] = ReconstructPath(s)
        BY <1>1, <3>1 DEF Updated
      <4> QED BY <1>3, <1>4, <1>6, <2>1, <3>1, <4>1
    <3>2. CASE x # Searched
      <4>1. x \in DOMAIN found_path /\ found_path'[x] = found_path[x]
        BY <1>1, <2>2, <3>2 DEF Updated
      <4> QED BY <4>1 DEF SearchInv, PathsFound
    <3> QED BY <3>1, <3>2
  <2> QED BY <1>2, <2>2 DEF PathsFound
<1>8. IsProblem(problem)' /\ OpenAreNodes' /\ NodeIsCheapest'
  BY <1>2 DEF SearchInv, OpenAreNodes, NodeIsCheapest
<1>9. AStarRuns' /\ AnswerIsApart'
  BY <1>2 DEF AStarRuns, AnswerIsApart
<1> QED BY <1>5, <1>7, <1>8, <1>9 DEF SearchInv

\* The first of the nodes to be computed is done with.
LEMMA NextNewNode ==
  ASSUME SearchInv, new_nodes # <<>>, new_nodes' = Tail(new_nodes), solution' = <<>>,
         UNCHANGED <<problem, node>>
  PROVE  /\ NewNodesTyped'
         /\ node # NoNode => \A i \in DOMAIN new_nodes' :
                               Extends(problem, new_nodes'[i], node.constraints)
<1>1. new_nodes \in Seq(ConstraintsOfAll(problem)) /\ Len(problem.start) \in Nat
  BY ProblemFields DEF SearchInv, NewNodesTyped
<1>2. new_nodes' \in Seq(ConstraintsOfAll(problem))
  BY <1>1
<1>3. \A i \in DOMAIN new_nodes' : i + 1 \in DOMAIN new_nodes /\ new_nodes'[i] = new_nodes[i + 1]
  BY <1>1
<1>4. solution' \in Seq(Paths) /\ Len(solution') = 0 /\ 1 .. Len(solution') = {}
  OBVIOUS
<1>5. NewNodesTyped'
  BY <1>1, <1>2, <1>4 DEF NewNodesTyped
<1> QED BY <1>3, <1>5 DEF SearchInv, NodeIsCheapest

LEMMA AStarFailsKeeps ==
  ASSUME SearchInv, AStarFails
  PROVE  SearchInv'
<1>1. /\ phase = "a_star" /\ phase' = "compute"
      /\ new_nodes' = Tail(new_nodes) /\ solution' = <<>>
      /\ UNCHANGED <<problem, open_nodes, node, found_path>>
  BY DEF AStarFails
<1>2. new_nodes # <<>>
  BY <1>1 DEF SearchInv, AStarRuns
<1>3. /\ NewNodesTyped'
      /\ node # NoNode => \A i \in DOMAIN new_nodes' :
                            Extends(problem, new_nodes'[i], node.constraints)
  BY <1>1, <1>2, NextNewNode
<1>4. IsProblem(problem)' /\ PathsFound' /\ OpenAreNodes'
  BY <1>1 DEF SearchInv, PathsFound, OpenAreNodes
<1>5. NodeIsCheapest'
  BY <1>1, <1>3 DEF SearchInv, NodeIsCheapest
<1>6. AStarRuns' /\ AnswerIsApart'
  BY <1>1 DEF AStarRuns, AnswerIsApart
<1> QED BY <1>3, <1>4, <1>5, <1>6 DEF SearchInv

LEMMA AddNodeKeeps ==
  ASSUME SearchInv, AddNode
  PROVE  SearchInv'
<1> DEFINE n == [solution |-> solution, constraints |-> Head(new_nodes)]
<1>1. /\ phase = "compute" /\ phase' = phase
      /\ new_nodes # <<>> /\ agent \notin Agents(problem)
      /\ new_nodes' = Tail(new_nodes) /\ solution' = <<>>
      /\ open_nodes' \subseteq open_nodes \cup {n}
      /\ UNCHANGED <<problem, node, found_path>>
  BY DEF AddNode
<1>2. IsNode(problem, n)
  <2>1. Len(problem.start) \in Nat /\ Agents(problem) = 1 .. Len(problem.start)
    BY ProblemFields DEF SearchInv
  <2>2. solution \in Seq(Paths) /\ Len(solution) \in Nat /\ Len(solution) <= Len(problem.start)
    BY DEF SearchInv, NewNodesTyped
  <2>3. Len(solution) = Len(problem.start)
    BY <1>1, <2>1, <2>2 DEF agent
  <2>4. solution \in [Agents(problem) -> Paths]
    BY <2>1, <2>2, <2>3
  <2>5. Head(new_nodes) \in ConstraintsOfAll(problem)
    BY <1>1 DEF SearchInv, NewNodesTyped
  <2>6. \A a \in Agents(problem) : Best(problem, a, Head(new_nodes)[a], solution[a])
    BY <2>1, <2>3 DEF SearchInv, NewNodesTyped
  <2> QED BY <2>4, <2>5, <2>6 DEF IsNode
<1>3. node # NoNode =>
        ComputeSolutionCost(node.solution) <= ComputeSolutionCost(n.solution)
  <2> SUFFICES ASSUME node # NoNode
               PROVE  ComputeSolutionCost(node.solution) <= ComputeSolutionCost(n.solution)
    OBVIOUS
  <2>1. 1 \in DOMAIN new_nodes /\ Head(new_nodes) = new_nodes[1]
    BY <1>1 DEF SearchInv, NewNodesTyped
  <2>2. IsNode(problem, node) /\ Extends(problem, Head(new_nodes), node.constraints)
    BY <2>1 DEF SearchInv, NodeIsCheapest
  <2>3. n.constraints = Head(new_nodes)
    OBVIOUS
  <2> HIDE DEF n
  <2> QED BY <1>2, <2>2, <2>3, MoreConstraintsCostMore DEF SearchInv
<1> HIDE DEF n
<1>4. /\ NewNodesTyped'
      /\ node # NoNode => \A i \in DOMAIN new_nodes' :
                            Extends(problem, new_nodes'[i], node.constraints)
  BY <1>1, NextNewNode
<1>5. IsProblem(problem)' /\ PathsFound' /\ OpenAreNodes'
  BY <1>1, <1>2 DEF SearchInv, PathsFound, OpenAreNodes
<1>6. NodeIsCheapest'
  BY <1>1, <1>3, <1>4 DEF SearchInv, NodeIsCheapest
<1>7. AStarRuns' /\ AnswerIsApart'
  BY <1>1 DEF AStarRuns, AnswerIsApart
<1> QED BY <1>4, <1>5, <1>6, <1>7 DEF SearchInv

LEMMA TakeNodeKeeps ==
  ASSUME SearchInv, TakeNode
  PROVE  SearchInv'
<1>1. /\ phase = "compute" /\ new_nodes = <<>>
      /\ UNCHANGED <<problem, solution, found_path>>
  BY DEF TakeNode
<1>2. PICK n \in open_nodes :
        LET c == GetFirstConflict(n.solution)
        IN /\ CheapestNode(n)
           /\ node' = n
           /\ open_nodes' = open_nodes \ {n}
           /\ IF c = NoConflict
              THEN phase' = "found" /\ UNCHANGED new_nodes
              ELSE /\ new_nodes' = <<NewNode(n, c, c.agent_1), NewNode(n, c, c.agent_2)>>
                   /\ UNCHANGED phase
  BY DEF TakeNode
<1> DEFINE c == GetFirstConflict(n.solution)
<1>3. IsNode(problem, n) /\ IsProblem(problem)
  BY DEF SearchInv, OpenAreNodes
<1>4. Len(problem.start) \in Nat /\ Agents(problem) = 1 .. Len(problem.start)
  BY <1>3, ProblemFields
<1>5. solution = <<>> /\ \A k : k \notin 1 .. Len(solution)
  BY <1>1 DEF SearchInv, NewNodesTyped
<1>6. \A m \in open_nodes : ComputeSolutionCost(n.solution) <= ComputeSolutionCost(m.solution)
  BY <1>2 DEF CheapestNode
<1>7. IsProblem(problem)' /\ PathsFound' /\ OpenAreNodes'
  BY <1>1, <1>2 DEF SearchInv, PathsFound, OpenAreNodes
<1>8. CASE c = NoConflict
  <2>1. phase' = "found" /\ new_nodes' = <<>> /\ node' = n /\ open_nodes' \subseteq open_nodes
    BY <1>1, <1>2, <1>8
  <2>2. NewNodesTyped'
    BY <1>1, <2>1 DEF SearchInv, NewNodesTyped
  <2>3. DOMAIN new_nodes' = {}
    BY <2>1
  <2>4. NodeIsCheapest'
    BY <1>1, <1>3, <1>6, <2>1, <2>3 DEF NodeIsCheapest
  <2>5. Apart(n.solution, Len(problem.start))
    BY <1>3, <1>4, <1>8, ConflictFreeIsApart DEF IsNode
  <2>6. AnswerIsApart'
    BY <1>1, <1>3, <2>1, <2>5 DEF AnswerIsApart
  <2>7. AStarRuns'
    BY <2>1 DEF AStarRuns
  <2> QED BY <1>7, <2>2, <2>4, <2>6, <2>7 DEF SearchInv
<1>9. CASE c # NoConflict
  <2> DEFINE first == NewNode(n, c, c.agent_1)
             second == NewNode(n, c, c.agent_2)
  <2>1. /\ phase' = "compute" /\ new_nodes' = <<first, second>>
        /\ node' = n /\ open_nodes' \subseteq open_nodes
    BY <1>1, <1>2, <1>9
  <2>2. Conflicts(n.solution) # {}
    BY <1>9 DEF GetFirstConflict
  <2>3. /\ first \in ConstraintsOfAll(problem) /\ Extends(problem, first, n.constraints)
        /\ second \in ConstraintsOfAll(problem) /\ Extends(problem, second, n.constraints)
    BY <1>3, <2>2, NewNodeExtends
  <2> HIDE DEF first, second
  <2>4. /\ new_nodes' \in Seq(ConstraintsOfAll(problem))
        /\ \A i \in DOMAIN new_nodes' : Extends(problem, new_nodes'[i], n.constraints)
    BY <2>1, <2>3
  <2>5. NewNodesTyped'
    BY <1>1, <1>4, <1>5, <2>4 DEF SearchInv, NewNodesTyped
  <2>6. NodeIsCheapest'
    BY <1>1, <1>3, <1>6, <2>1, <2>4 DEF NodeIsCheapest
  <2>7. AStarRuns' /\ AnswerIsApart'
    BY <2>1 DEF AStarRuns, AnswerIsApart
  <2> QED BY <1>7, <2>5, <2>6, <2>7 DEF SearchInv
<1> QED BY <1>8, <1>9

\* A step of the search keeps the invariant.
LEMMA NextKeeps ==
  ASSUME SearchInv, Next
  PROVE  SearchInv'
<1>1. CASE GiveUp
  <2>1. /\ phase' = "none"
        /\ UNCHANGED <<problem, open_nodes, node, new_nodes, solution, found_path>>
    BY <1>1 DEF GiveUp
  <2>2. IsProblem(problem)' /\ NewNodesTyped' /\ PathsFound' /\ OpenAreNodes'
        /\ NodeIsCheapest'
    BY <2>1 DEF SearchInv, NewNodesTyped, PathsFound, OpenAreNodes, NodeIsCheapest
  <2>3. AStarRuns' /\ AnswerIsApart'
    BY <2>1 DEF AStarRuns, AnswerIsApart
  <2> QED BY <2>2, <2>3 DEF SearchInv
<1> QED BY <1>1, StartAStarKeeps, RepeatAStarKeeps, AStarStepKeeps, AStarReturnsKeeps,
           AStarFailsKeeps, AddNodeKeeps, TakeNodeKeeps DEF Next

-----------------------------------------------------------------------------
(* The planner.                                                            *)

\* Nothing has been searched for before there is a grid, and the grid is that of
\* the case's file.
NothingYet ==
  phase \in {"start", "loaded", "ready"} =>
    /\ open_nodes = {} /\ node = NoNode
    /\ solution = <<>> /\ found_path = <<>>

GridOfTheFile ==
  /\ phase \in {"loaded", "ready"} => Loads(case.file) /\ map_data = LoadLif(case.file)
  /\ phase = "ready" => Snaps(map_data) /\ grid_map = GridOf(map_data)

PlanningInv ==
  /\ case \in Cases
  /\ NothingYet
  /\ GridOfTheFile
  /\ SearchInv

LEMMA PlanningInitInv ==
  ASSUME PlanningInit
  PROVE  PlanningInv
<1>1. /\ case \in Cases /\ phase = "start" /\ problem = NoProblem
      /\ open_nodes = {} /\ node = NoNode
      /\ new_nodes = <<>> /\ solution = <<>> /\ found_path = <<>>
  BY DEF PlanningInit, Init
<1>2. NothingYet /\ GridOfTheFile
  BY <1>1 DEF NothingYet, GridOfTheFile
<1>3. IsProblem(problem)
  BY <1>1 DEF IsProblem, Agents, NoProblem
<1>4. NewNodesTyped
  <2>1. Len(problem.start) = 0 /\ Len(solution) = 0
    BY <1>1 DEF NoProblem
  <2>2. new_nodes \in Seq(ConstraintsOfAll(problem)) /\ solution \in Seq(Paths)
    BY <1>1
  <2> QED BY <1>1, <2>1, <2>2 DEF NewNodesTyped
<1>5. DOMAIN found_path = {}
  BY <1>1
<1>6. PathsFound /\ OpenAreNodes /\ AStarRuns /\ NodeIsCheapest /\ AnswerIsApart
  BY <1>1, <1>5 DEF PathsFound, OpenAreNodes, AStarRuns, NodeIsCheapest, AnswerIsApart
<1> QED BY <1>1, <1>2, <1>3, <1>4, <1>6 DEF PlanningInv, SearchInv

\* What the search knows is left as it is.
LEMMA SearchInvStays ==
  ASSUME SearchInv,
         UNCHANGED <<nodeVars, new_nodes, solution, found_path, problem, searchVars>>,
         phase' \notin {"a_star", "found"} \/ UNCHANGED phase
  PROVE  SearchInv'
<1>1. UNCHANGED <<open_nodes, node, new_nodes, solution, found_path, problem,
                  open_set, closed_set, came_from, g_score>>
  BY DEF nodeVars, searchVars
<1>2. IsProblem(problem)' /\ NewNodesTyped' /\ PathsFound' /\ OpenAreNodes' /\ NodeIsCheapest'
  BY <1>1 DEF SearchInv, NewNodesTyped, PathsFound, OpenAreNodes, NodeIsCheapest
<1>3. CASE phase' \notin {"a_star", "found"}
  BY <1>2, <1>3 DEF SearchInv, AStarRuns, AnswerIsApart
<1>4. CASE UNCHANGED phase
  <2>1. agent' = agent /\ constraints' = constraints
    BY <1>1 DEF agent, constraints
  <2>2. AStar(agent, constraints)' <=> AStar(agent, constraints)
    <3> SUFFICES ASSUME NEW a, a = agent, NEW k, k = constraints
                 PROVE  AStar(a, k)' <=> AStar(a, k)
      BY <2>1
    <3> QED BY <1>1 DEF AStar, PathsBack, AtGoalForGood
  <2>3. AStarRuns' /\ AnswerIsApart'
    BY <1>1, <1>4, <2>1, <2>2 DEF SearchInv, AStarRuns, AnswerIsApart
  <2> QED BY <1>2, <2>3 DEF SearchInv
<1> QED BY <1>3, <1>4

\* The problem given to the search is one: this is what CasesAssumption says.
LEMMA SolveKeeps ==
  ASSUME PlanningInv, Solve
  PROVE  PlanningInv'
<1>1. /\ phase = "ready" /\ case.start # <<>> /\ UNCHANGED mapVars
      /\ case \in Cases /\ SearchInv
  BY DEF Solve, PlanningInv
<1>2. /\ Loads(case.file) /\ map_data = LoadLif(case.file) /\ Snaps(map_data)
      /\ grid_map = GridOf(map_data)
  BY <1>1 DEF PlanningInv, GridOfTheFile
<1>3. open_nodes = {} /\ node = NoNode /\ solution = <<>> /\ found_path = <<>>
  BY <1>1 DEF PlanningInv, NothingYet
<1>4. case' \in Cases
  BY <1>1 DEF mapVars
<1>5. CASE ProblemLocations(case) \subseteq DOMAIN grid_map.grid_nodes
  <2> DEFINE p == ProblemOf(grid_map, case)
  <2>1. Begin(p)
    BY <1>5 DEF Solve
  <2>2. IsProblem(p)
    BY <1>1, <1>2, <1>5, CasesAssumption, Zenon
  <2> HIDE DEF p
  <2> DEFINE first == [a \in Agents(p) |-> NoConstraints]
  <2>3. /\ problem' = p /\ phase' = "compute" /\ new_nodes' = <<first>>
        /\ open_nodes' = {} /\ node' = NoNode /\ solution' = <<>> /\ found_path' = <<>>
    BY <1>3, <2>1 DEF Begin, nodeVars
  <2>4. first \in ConstraintsOfAll(p)
    BY DEF ConstraintsOfAll, Constraints, NoConstraints
  <2> HIDE DEF first
  <2>5. IsProblem(problem)'
    BY <2>2, <2>3
  <2>6. NewNodesTyped'
    <3>1. <<first>> \in Seq(ConstraintsOfAll(p)) /\ solution' \in Seq(Paths)
      BY <2>3, <2>4
    <3>2. Len(solution') = 0 /\ Len(p.start) \in Nat
      BY <2>2, <2>3, ProblemFields
    <3> QED BY <2>3, <3>1, <3>2 DEF NewNodesTyped
  <2>7. DOMAIN found_path' = {}
    BY <2>3
  <2>8. PathsFound' /\ OpenAreNodes' /\ AStarRuns' /\ NodeIsCheapest' /\ AnswerIsApart'
    BY <2>3, <2>7 DEF PathsFound, OpenAreNodes, AStarRuns, NodeIsCheapest, AnswerIsApart
  <2>9. NothingYet' /\ GridOfTheFile'
    BY <2>3 DEF NothingYet, GridOfTheFile
  <2> QED BY <1>4, <2>5, <2>6, <2>8, <2>9 DEF PlanningInv, SearchInv
<1>6. CASE ~(ProblemLocations(case) \subseteq DOMAIN grid_map.grid_nodes)
  <2>1. /\ phase' = "refused"
        /\ UNCHANGED <<nodeVars, new_nodes, solution, found_path, problem, searchVars>>
    BY <1>6 DEF Solve
  <2>2. SearchInv'
    BY <1>1, <2>1, SearchInvStays
  <2>3. NothingYet' /\ GridOfTheFile'
    BY <2>1 DEF NothingYet, GridOfTheFile
  <2> QED BY <1>4, <2>2, <2>3 DEF PlanningInv
<1> QED BY <1>5, <1>6

LEMMA PlanningKeeps ==
  ASSUME PlanningInv, [PlanningNext]_allVars
  PROVE  PlanningInv'
<1>1. case \in Cases /\ NothingYet /\ GridOfTheFile /\ SearchInv
  BY DEF PlanningInv
<1>2. CASE LoadMap
  <2>1. /\ UNCHANGED case /\ UNCHANGED <<nodeVars, new_nodes, solution, found_path, problem, searchVars>>
        /\ phase = "start" /\ phase' \in {"loaded", "rejected"}
        /\ phase' = "loaded" => Loads(case.file) /\ map_data' = LoadLif(case.file)
    BY <1>2 DEF LoadMap
  <2>2. SearchInv'
    BY <1>1, <2>1, SearchInvStays
  <2>3. NothingYet'
    BY <1>1, <2>1 DEF NothingYet, nodeVars
  <2>4. GridOfTheFile'
    BY <1>1, <2>1, Zenon DEF GridOfTheFile
  <2> QED BY <1>1, <2>1, <2>2, <2>3, <2>4 DEF PlanningInv
<1>3. CASE Snap
  <2>1. /\ UNCHANGED <<case, map_data>>
        /\ UNCHANGED <<nodeVars, new_nodes, solution, found_path, problem, searchVars>>
        /\ phase = "loaded" /\ phase' \in {"ready", "rejected"}
        /\ phase' = "ready" => Snaps(map_data) /\ grid_map' = GridOf(map_data)
    BY <1>3 DEF Snap
  <2>2. SearchInv'
    BY <1>1, <2>1, SearchInvStays
  <2>3. NothingYet'
    BY <1>1, <2>1 DEF NothingYet, nodeVars
  <2>4. GridOfTheFile'
    BY <1>1, <2>1, Zenon DEF GridOfTheFile
  <2> QED BY <1>1, <2>1, <2>2, <2>3, <2>4 DEF PlanningInv
<1>4. CASE Search
  <2>1. Next /\ UNCHANGED case
    BY <1>4 DEF Search, mapVars
  <2>2. SearchInv'
    BY <1>1, <2>1, NextKeeps
  <2>3. phase' \notin {"start", "loaded", "ready"}
    BY <2>1 DEF Next, StartAStar, Computing, RepeatAStar, AStarStep, AStarReturns,
                AStarFails, AddNode, TakeNode, GiveUp
  <2>4. NothingYet' /\ GridOfTheFile'
    BY <2>3 DEF NothingYet, GridOfTheFile
  <2> QED BY <1>1, <2>1, <2>2, <2>4 DEF PlanningInv
<1>5. CASE ConvertCbs
  <2>1. /\ UNCHANGED case /\ phase' \in {"planned", "crashed"}
        /\ UNCHANGED <<nodeVars, new_nodes, solution, found_path, problem, searchVars>>
    BY <1>5 DEF ConvertCbs
  <2>2. SearchInv'
    BY <1>1, <2>1, SearchInvStays
  <2>3. NothingYet' /\ GridOfTheFile'
    BY <2>1 DEF NothingYet, GridOfTheFile
  <2> QED BY <1>1, <2>1, <2>2, <2>3 DEF PlanningInv
<1>6. CASE UNCHANGED allVars
  <2>1. /\ UNCHANGED <<case, map_data, grid_map, phase>>
        /\ UNCHANGED <<nodeVars, new_nodes, solution, found_path, problem, searchVars>>
    BY <1>6 DEF allVars, mapVars, vars, nodeVars, searchVars
  <2>2. SearchInv'
    BY <1>1, <2>1, SearchInvStays
  <2>3. NothingYet' /\ GridOfTheFile'
    BY <1>1, <2>1, Zenon DEF NothingYet, GridOfTheFile, nodeVars
  <2> QED BY <1>1, <2>1, <2>2, <2>3 DEF PlanningInv
<1> QED BY <1>2, <1>3, <1>4, <1>5, <1>6, SolveKeeps DEF PlanningNext

THEOREM PlanningInvariant == PlanningSpec => []PlanningInv
<1>1. PlanningInit => PlanningInv
  BY PlanningInitInv
<1>2. PlanningInv /\ [PlanningNext]_allVars => PlanningInv'
  BY PlanningKeeps
<1> QED BY <1>1, <1>2, PTL DEF PlanningSpec

\* Every path A* has found keeps to the agent's constraints and leads to its
\* goal, and no shorter one does: whatever the map, the problem, and the order in
\* which equally promising states are looked at (a_star.py).
THEOREM AStarFindsShortestPaths == PlanningSpec => []LowLevelIsShortest
<1>1. PlanningInv => LowLevelIsShortest
  <2> SUFFICES ASSUME PlanningInv, NEW x \in DOMAIN found_path
               PROVE  LET a == x[1]
                          path == found_path[x]
                          reach == Reach(a, x[2], Len(path) - 1)
                      IN /\ KeepsTo(path, x[2])
                         /\ path[1] = problem.start[a] /\ path[Len(path)] = problem.goal[a]
                         /\ \A t \in 0 .. Len(path) - 2 :
                              \/ problem.goal[a] \notin reach[t]
                              \/ ~AtGoalForGood(a, x[2], State(t, problem.goal[a]))
    BY Zenon DEF LowLevelIsShortest
  <2>1. /\ IsProblem(problem) /\ x[1] \in Agents(problem) /\ x[2] \in Constraints
        /\ Best(problem, x[1], x[2], found_path[x])
    BY DEF PlanningInv, SearchInv, PathsFound
  <2> QED BY <2>1, BestIsShortest, Zenon
<1> QED BY <1>1, PlanningInvariant, PTL

\* What CBS.search returns is a solution: its paths lead from the starts to the
\* goals, and no two agents meet or exchange their places, after the longest
\* path as well.
THEOREM SearchIsSound == PlanningSpec => []AnswerIsASolution
<1>1. PlanningInv => AnswerIsASolution
  <2> SUFFICES ASSUME PlanningInv, phase = "found"
               PROVE  AnswerIsASolution
    BY DEF AnswerIsASolution
  <2>1. IsProblem(problem) /\ IsNode(problem, node) /\ Apart(node.solution, Len(problem.start))
    BY DEF PlanningInv, SearchInv, AnswerIsApart
  <2>2. Agents(problem) = 1 .. Len(problem.start)
    BY <2>1, ProblemFields
  <2>3. \A a \in Agents(problem) :
          /\ node.solution[a][1] = problem.start[a]
          /\ node.solution[a][Len(node.solution[a])] = problem.goal[a]
    BY <2>1 DEF IsNode, Best, Walk, Arrives
  <2> QED BY <2>1, <2>2, <2>3, Zenon DEF AnswerIsASolution, Apart
<1> QED BY <1>1, PlanningInvariant, PTL

\* A node taken costs no less than the node taken before it: nodes are taken in
\* the order of their costs, although new ones come in all the time.
THEOREM NodesAreTakenInOrder == PlanningSpec => CostNeverDrops
<1> DEFINE NotCheaper == node # NoNode /\ node' # node =>
                           ComputeSolutionCost(node'.solution) >= ComputeSolutionCost(node.solution)
<1>1. PlanningInv /\ [PlanningNext]_allVars => [NotCheaper]_vars
  <2> SUFFICES ASSUME PlanningInv, PlanningNext, node # NoNode, node' # node
               PROVE  ComputeSolutionCost(node'.solution) >= ComputeSolutionCost(node.solution)
    BY DEF allVars, vars
  <2>1. TakeNode
    BY DEF PlanningNext, LoadMap, Snap, Solve, Begin, Search, ConvertCbs, Next, StartAStar,
           RepeatAStar, AStarStep, AStarReturns, AStarFails, AddNode, GiveUp, nodeVars
  <2>2. node' \in open_nodes
    BY <2>1 DEF TakeNode, CheapestNode
  <2>3. ComputeSolutionCost(node.solution) <= ComputeSolutionCost(node'.solution)
    BY <2>2 DEF PlanningInv, SearchInv, NodeIsCheapest
  <2>4. IsProblem(problem) /\ IsNode(problem, node) /\ IsNode(problem, node')
    BY <2>2 DEF PlanningInv, SearchInv, NodeIsCheapest, OpenAreNodes
  <2>5. ComputeSolutionCost(node.solution) \in Nat /\ ComputeSolutionCost(node'.solution) \in Nat
    <3>1. \A n : IsNode(problem, n) => ComputeSolutionCost(n.solution) \in Nat
      BY <2>4, ProblemFields, CostIsMonotone DEF IsNode
    <3> QED BY <2>4, <3>1
  <2> QED BY <2>3, <2>5
<1> QED BY <1>1, PlanningInvariant, PTL DEF PlanningSpec, CostNeverDrops

-----------------------------------------------------------------------------
(* From the cells back to the nodes.                                         *)

\* A step leads to a free cell, the same one or a neighbouring one.
LEMMA StepMoves ==
  ASSUME NEW p, NEW k, NEW t, NEW l \in Cells, NEW m, Step(p, k, t, l, m)
  PROVE  /\ m \notin p.obstacles
         /\ m = l \/ Distance(l[1], m[1]) + Distance(l[2], m[2]) = 1
<1> DEFINE s == State(t, l)
           n == State(t + 1, m)
<1>1. /\ s.time = t /\ s.location = l /\ n.location = m
  BY DEF State
<1>2. n \in GetNeighbors(p, k, s)
  BY DEF Step
<1> HIDE DEF s, n
<1>3. StateValid(p, k, n)
  BY <1>2 DEF GetNeighbors
<1>4. n = State(s.time + 1, s.location)
        \/ \E d \in Directions : n = State(s.time + 1, <<s.location[1] + d[1], s.location[2] + d[2]>>)
  BY <1>2 DEF GetNeighbors
<1>5. m = l \/ \E d \in Directions : m = <<l[1] + d[1], l[2] + d[2]>>
  BY <1>1, <1>4 DEF State
<1>6. ASSUME NEW d \in Directions, m = <<l[1] + d[1], l[2] + d[2]>>
      PROVE  Distance(l[1], m[1]) + Distance(l[2], m[2]) = 1
  <2>1. l[1] \in Int /\ l[2] \in Int
    BY DEF Cells
  <2>2. d = <<0, 1>> \/ d = <<0, -1>> \/ d = <<-1, 0>> \/ d = <<1, 0>>
    BY DEF Directions
  <2> QED BY <1>6, <2>1, <2>2 DEF Distance
<1>7. m \notin p.obstacles
  BY <1>1, <1>3 DEF StateValid
<1> QED BY <1>5, <1>6, <1>7

\* A file of the cases that is a map, and the grid that it gives.
IsMap(file, map, grid) ==
  /\ Loads(file) /\ map = LoadLif(file)
  /\ Snaps(map) /\ grid = GridOf(map)

LEMMA MapIs ==
  ASSUME NEW c \in Cases, NEW map, NEW grid, IsMap(c.file, map, grid)
  PROVE  /\ DOMAIN grid.grid_nodes = DOMAIN map.world_positions
         /\ \A m, n \in DOMAIN grid.grid_nodes : grid.grid_nodes[m] = grid.grid_nodes[n] => m = n
         /\ \A n \in DOMAIN grid.grid_nodes :
              grid.grid_nodes[n] \notin grid.obstacles => EdgeCount(map, n) >= 2
<1> DEFINE nodes == c.file.layouts[1].nodes
           edges == c.file.layouts[1].edges
           named == DOMAIN map.world_positions
<1>1. Loads(c.file) /\ map = LoadLif(c.file) /\ Snaps(map) /\ grid = GridOf(map)
  BY DEF IsMap
<1>2. IsFiniteSet(DOMAIN nodes) /\ IsFiniteSet(DOMAIN edges)
  BY <1>1, FilesAssumption
<1>3. map.edges = edges /\ named = {nodes[i].nodeId : i \in DOMAIN nodes}
  BY <1>1 DEF LoadLif
<1>4. grid.grid_nodes = GridNodes(map) /\ DOMAIN GridNodes(map) = named
  BY <1>1 DEF GridOf, SnapToGrid, GridNodes
<1>5. grid.obstacles = InferObstacles(map, SnapToGrid(map), {}) /\ SnapToGrid(map).grid_nodes = GridNodes(map)
  BY <1>1 DEF GridOf, SnapToGrid
<1>6. IsFiniteSet(named)
  <2> DEFINE Name == [i \in DOMAIN nodes |-> nodes[i].nodeId]
  <2>1. Name \in [DOMAIN nodes -> named]
    BY <1>3
  <2>2. \A n \in named : \E i \in DOMAIN nodes : Name[i] = n
    BY <1>3
  <2>3. IsFiniteSet(DOMAIN nodes)
    BY <1>2
  <2> HIDE DEF nodes, named, Name
  <2> QED BY <2>1, <2>2, <2>3, ImageIsFinite
<1>7. ASSUME NEW m \in named, NEW n \in named, GridNodes(map)[m] = GridNodes(map)[n] PROVE m = n
  <2>1. CASE Cardinality(named) = 1
    <3> HIDE DEF named
    <3>1. PICK x : named = {x}
      BY <1>6, <2>1, FS_Singleton
    <3> QED BY <3>1
  <2>2. CASE Cardinality(named) # 1
    BY <1>1, <1>7, <2>2 DEF Snaps
  <2> QED BY <2>1, <2>2
<1>8. ASSUME NEW n \in named, GridNodes(map)[n] \notin grid.obstacles PROVE EdgeCount(map, n) >= 2
  <2>1. ~(EdgeCount(map, n) < 2)
    BY <1>5, <1>8 DEF InferObstacles
  <2>2. EdgeCount(map, n) \in Nat
    <3> DEFINE ends == {x \in (DOMAIN map.edges) \X {1, 2} : map.edges[x[1]][x[2]] = n}
    <3>1. IsFiniteSet({1, 2})
      <4>1. IsFiniteSet({1})
        BY FS_Singleton, Zenon
      <4>2. IsFiniteSet({1} \cup {2})
        BY <4>1, FS_AddElement, Zenon
      <4>3. {1} \cup {2} = {1, 2}
        OBVIOUS
      <4> QED BY <4>2, <4>3, Zenon
    <3>2. IsFiniteSet((DOMAIN map.edges) \X {1, 2})
      <4> HIDE DEF edges
      <4> QED BY <1>2, <1>3, <3>1, FS_Product
    <3>3. IsFiniteSet(ends)
      BY <3>2, FS_Subset
    <3> HIDE DEF ends
    <3>4. Cardinality(ends) \in Nat
      BY <3>3, FS_CardinalityType
    <3> QED BY <3>4 DEF EdgeCount, ends
  <2> QED BY <2>1, <2>2
<1> QED BY <1>4, <1>7, <1>8

\* What the search is given and what is made of its answer.
IsGiven(c, map, grid, p) ==
  /\ IsMap(c.file, map, grid)
  /\ ProblemLocations(c) \subseteq DOMAIN grid.grid_nodes
  /\ p = ProblemOf(grid, c)

IsNamed(grid, paths, names) ==
  /\ DOMAIN names = DOMAIN paths
  /\ \A a \in DOMAIN paths :
       /\ Len(names[a]) = Len(paths[a])
       /\ \A k \in DOMAIN paths[a] :
            names[a][k] \in DOMAIN grid.grid_nodes /\ grid.grid_nodes[names[a][k]] = paths[a][k]

ProblemOfTheCase ==
  phase \in {"compute", "a_star", "found", "planned"} =>
    IsGiven(case, map_data, grid_map, problem)

PlanOfTheNode ==
  phase = "planned" => IsNode(problem, node) /\ IsNamed(grid_map, node.solution, plan)

LEMMA SearchKeepsProblem ==
  ASSUME Next
  PROVE  /\ problem' = problem
         /\ phase \in {"compute", "a_star"}
         /\ phase' \in {"compute", "a_star", "found", "none"}
BY DEF Next, StartAStar, Computing, RepeatAStar, AStarStep, AStarReturns,
       AStarFails, AddNode, TakeNode, GiveUp

LEMMA ConvertNames ==
  ASSUME PlanningInv, ConvertCbs, phase' = "planned"
  PROVE  IsNode(problem, node) /\ IsNamed(grid_map, node.solution, plan')
<1>1. phase = "found" /\ IsNode(problem, node)
  BY DEF ConvertCbs, PlanningInv, SearchInv, AnswerIsApart
<1> DEFINE paths == node.solution
           named == {grid_map.grid_nodes[n] : n \in DOMAIN grid_map.grid_nodes}
<1>2. /\ \A a \in DOMAIN paths : \A k \in DOMAIN paths[a] : paths[a][k] \in named
      /\ plan' = [a \in DOMAIN paths |-> [k \in DOMAIN paths[a] |-> CoordToNode(paths[a][k])]]
  BY DEF ConvertCbs
<1>3. ASSUME NEW a \in DOMAIN paths
      PROVE  /\ Len(plan'[a]) = Len(paths[a])
             /\ \A k \in DOMAIN paths[a] :
                  /\ plan'[a][k] \in DOMAIN grid_map.grid_nodes
                  /\ grid_map.grid_nodes[plan'[a][k]] = paths[a][k]
  <2>1. plan'[a] = [k \in DOMAIN paths[a] |-> CoordToNode(paths[a][k])]
    BY <1>2
  <2>2. Len(paths[a]) \in Nat /\ DOMAIN paths[a] = 1 .. Len(paths[a])
    BY <1>1 DEF IsNode, Paths
  <2> HIDE DEF paths
  <2>3. ASSUME NEW k \in DOMAIN paths[a]
        PROVE  /\ plan'[a][k] \in DOMAIN grid_map.grid_nodes
               /\ grid_map.grid_nodes[plan'[a][k]] = paths[a][k]
    <3>1. \E n \in DOMAIN grid_map.grid_nodes : grid_map.grid_nodes[n] = paths[a][k]
      BY <1>2
    <3>2. plan'[a][k] = CoordToNode(paths[a][k])
      BY <2>1
    <3> QED BY <3>1, <3>2 DEF CoordToNode
  <2>4. DOMAIN plan'[a] = 1 .. Len(paths[a])
    BY <2>1, <2>2
  <2>5. Len(plan'[a]) = Len(paths[a])
    <3> DEFINE name == [k \in 1 .. Len(paths[a]) |-> CoordToNode(paths[a][k])]
    <3>1. name = plan'[a]
      BY <2>1, <2>2
    <3>2. Len(name) = Len(paths[a])
      BY <2>2
    <3> QED BY <3>1, <3>2
  <2> QED BY <2>3, <2>5
<1>4. DOMAIN plan' = DOMAIN paths
  BY <1>2
<1> HIDE DEF named
<1> QED BY <1>1, <1>3, <1>4 DEF IsNamed

LEMMA AnswerIsNamed ==
  ASSUME PlanningInv, ProblemOfTheCase, PlanOfTheNode, [PlanningNext]_allVars
  PROVE  ProblemOfTheCase' /\ PlanOfTheNode'
<1>1. CASE LoadMap
  <2>1. phase' \in {"loaded", "rejected"}
    BY <1>1 DEF LoadMap
  <2> QED BY <2>1 DEF ProblemOfTheCase, PlanOfTheNode
<1>2. CASE Snap
  <2>1. phase' \in {"ready", "rejected"}
    BY <1>2 DEF Snap
  <2> QED BY <2>1 DEF ProblemOfTheCase, PlanOfTheNode
<1>3. CASE Solve
  <2>1. /\ phase = "ready" /\ case' = case /\ map_data' = map_data /\ grid_map' = grid_map
        /\ \/ phase' = "refused"
           \/ /\ phase' = "compute" /\ problem' = ProblemOf(grid_map, case)
              /\ ProblemLocations(case) \subseteq DOMAIN grid_map.grid_nodes
    BY <1>3 DEF Solve, Begin, mapVars
  <2>2. /\ Loads(case.file) /\ map_data = LoadLif(case.file)
        /\ Snaps(map_data) /\ grid_map = GridOf(map_data)
    BY <2>1 DEF PlanningInv, GridOfTheFile
  <2>3. IsMap(case.file, map_data, grid_map)
    BY <2>2, Zenon DEF IsMap
  <2>4. CASE phase' = "refused"
    BY <2>4 DEF ProblemOfTheCase, PlanOfTheNode
  <2>5. CASE phase' = "compute"
    <3>1. IsGiven(case, map_data, grid_map, problem')
      BY <2>1, <2>3, <2>5 DEF IsGiven
    <3> QED BY <2>1, <2>5, <3>1 DEF ProblemOfTheCase, PlanOfTheNode
  <2> QED BY <2>1, <2>4, <2>5
<1>4. CASE Search
  <2>1. Next /\ case' = case /\ map_data' = map_data /\ grid_map' = grid_map
    BY <1>4 DEF Search, mapVars
  <2> QED BY <2>1, SearchKeepsProblem DEF ProblemOfTheCase, PlanOfTheNode
<1>5. CASE ConvertCbs
  <2>1. /\ phase = "found" /\ phase' \in {"planned", "crashed"}
        /\ case' = case /\ map_data' = map_data /\ grid_map' = grid_map
        /\ problem' = problem /\ node' = node
    BY <1>5 DEF ConvertCbs, nodeVars
  <2>2. ProblemOfTheCase'
    BY <2>1 DEF ProblemOfTheCase
  <2>3. PlanOfTheNode'
    BY <1>5, <2>1, ConvertNames DEF PlanOfTheNode
  <2> QED BY <2>2, <2>3
<1>6. CASE UNCHANGED allVars
  <2>1. UNCHANGED <<phase, case, map_data, grid_map, problem, node, plan>>
    BY <1>6 DEF allVars, mapVars, vars
  <2> QED BY <2>1 DEF ProblemOfTheCase, PlanOfTheNode
<1> QED BY <1>1, <1>2, <1>3, <1>4, <1>5, <1>6 DEF PlanningNext

\* Steps lead from the agent's start to its goal along the edges of the file, for
\* any file that is a full grid (CBSAdapter.solve, _convert_cbs): the answer in
\* the cells of the grid is one in the nodes of the map.
THEOREM StepsAlwaysFollowEdges == PlanningSpec => []StepsFollowEdges
<1>1. PlanningInv /\ ProblemOfTheCase /\ PlanOfTheNode => StepsFollowEdges
  <2> SUFFICES ASSUME PlanningInv, ProblemOfTheCase, PlanOfTheNode,
                      phase = "planned", IsFullGrid, NEW a \in DOMAIN plan
               PROVE  /\ plan[a][1] = case.start[a] /\ plan[a][Len(plan[a])] = case.goal[a]
                      /\ \A k \in 1 .. Len(plan[a]) - 1 :
                           \/ plan[a][k] = plan[a][k + 1]
                           \/ HasEdge(plan[a][k], plan[a][k + 1])
                           \/ ~Passable(plan[a][k])
    BY DEF StepsFollowEdges
  <2> DEFINE cell == grid_map.grid_nodes
             path == node.solution[a]
             names == plan[a]
  <2>1. IsGiven(case, map_data, grid_map, problem)
    BY DEF ProblemOfTheCase
  <2>2. IsMap(case.file, map_data, grid_map) /\ problem = ProblemOf(grid_map, case)
    BY <2>1 DEF IsGiven
  <2>3. /\ \A m, n \in DOMAIN cell : cell[m] = cell[n] => m = n
        /\ \A n \in DOMAIN cell : cell[n] \notin grid_map.obstacles => EdgeCount(map_data, n) >= 2
    BY <2>2, MapIs DEF PlanningInv
  <2>4. /\ IsNode(problem, node) /\ IsNamed(grid_map, node.solution, plan)
        /\ a \in Agents(problem)
    BY DEF PlanOfTheNode, IsNode, IsNamed
  <2>5. /\ Walk(problem, a, node.constraints[a], path)
        /\ Arrives(problem, a, node.constraints[a], path)
    BY <2>4 DEF IsNode, Best
  <2>6. /\ path \in Seq(Cells) /\ Len(path) \in Nat /\ Len(path) > 0
        /\ DOMAIN path = 1 .. Len(path)
    BY <2>5 DEF Walk
  <2>7. /\ Len(names) = Len(path)
        /\ \A k \in 1 .. Len(path) : names[k] \in DOMAIN cell /\ cell[names[k]] = path[k]
    BY <2>4, <2>6 DEF IsNamed, IsNode
  <2>8. /\ a \in DOMAIN case.start
        /\ problem.start[a] = cell[case.start[a]] /\ case.start[a] \in DOMAIN cell
        /\ problem.obstacles = grid_map.obstacles \cup {cell[n] : n \in case.obstacles}
    BY <2>1, <2>2, <2>4 DEF IsGiven, ProblemOf, ProblemLocations, Agents
  <2>9. names[1] = case.start[a]
    BY <2>3, <2>5, <2>6, <2>7, <2>8 DEF Walk
  <2>10. names[Len(names)] = case.goal[a]
    <3>1. problem.goal[a] = cell[case.goal[a]] /\ case.goal[a] \in DOMAIN cell
      <4>1. case \in Cases /\ a \in DOMAIN case.goal
        BY <2>8, GoalsAssumption DEF PlanningInv
      <4> QED BY <2>1, <2>2, <2>8, <4>1 DEF IsGiven, ProblemOf, ProblemLocations
    <3>2. Len(path) \in 1 .. Len(path)
      BY <2>6
    <3> QED BY <2>3, <2>5, <2>7, <3>1, <3>2 DEF Arrives
  <2>11. ASSUME NEW k \in 1 .. Len(path) - 1
         PROVE  \/ names[k] = names[k + 1]
                \/ HasEdge(names[k], names[k + 1])
                \/ ~Passable(names[k])
    <3>1. /\ path[k] \in Cells
          /\ Step(problem, node.constraints[a], k - 1, path[k], path[k + 1])
      BY <2>5, WalkStep
    <3>2. /\ path[k + 1] \notin problem.obstacles
          /\ \/ path[k + 1] = path[k]
             \/ Distance(path[k][1], path[k + 1][1]) + Distance(path[k][2], path[k + 1][2]) = 1
      BY <3>1, StepMoves
    <3>3. k \in 1 .. Len(path) /\ k + 1 \in 1 .. Len(path)
      BY <2>6
    <3>4. /\ names[k] \in DOMAIN cell /\ cell[names[k]] = path[k]
          /\ names[k + 1] \in DOMAIN cell /\ cell[names[k + 1]] = path[k + 1]
      BY <2>7, <3>3
    <3>5. Passable(names[k + 1])
      BY <2>3, <2>8, <3>2, <3>4 DEF Passable
    <3> HIDE DEF names, path
    <3>6. CASE path[k + 1] = path[k]
      BY <2>3, <3>4, <3>6
    <3>7. CASE path[k + 1] # path[k]
      BY <3>2, <3>4, <3>5, <3>7 DEF IsFullGrid
    <3> QED BY <3>6, <3>7
  <2> HIDE DEF path
  <2> QED BY <2>7, <2>9, <2>10, <2>11
<1>2. PlanningInit => ProblemOfTheCase /\ PlanOfTheNode
  BY DEF PlanningInit, ProblemOfTheCase, PlanOfTheNode
<1>3. PlanningInv /\ ProblemOfTheCase /\ PlanOfTheNode /\ [PlanningNext]_allVars
        => ProblemOfTheCase' /\ PlanOfTheNode'
  BY AnswerIsNamed
<1> QED BY <1>1, <1>2, <1>3, PlanningInvariant, PTL DEF PlanningSpec

=============================================================================
