--------------------------- MODULE SolutionProofs ---------------------------
(***************************************************************************)
(* Proofs about the plans that are generated from a solution, for any      *)
(* robots, any map and paths of any length: what the execution relies on   *)
(* in a batch of plans, and that robots do not wait in a circle.           *)
(***************************************************************************)
EXTENDS PlanGenerator, MapfSolution, FiniteSets, NatOrder

\* A path for every robot.
Paths == [Robots -> Seq(Locations) \ {<<>>}]

LEMMA PathFields ==
  ASSUME NEW ps \in Paths, NEW r \in Robots
  PROVE  /\ ps[r] \in Seq(Locations)
         /\ Len(ps[r]) \in Nat
         /\ Len(ps[r]) >= 1
         /\ \A k \in 1 .. Len(ps[r]) : ps[r][k] \in Locations
<1>1. ps[r] \in Seq(Locations) /\ ps[r] # <<>>
  BY DEF Paths
<1>2. Len(ps[r]) \in Nat /\ Len(ps[r]) # 0
  BY <1>1
<1> QED BY <1>1, <1>2

\* The steps of a path, and the waypoints they give.
LEMMA StepFields ==
  ASSUME NEW path \in Seq(Locations), Len(path) >= 1
  PROVE  /\ Len(Steps(path)) = Len(path) - 1
         /\ Steps(path) # <<>> <=> Len(path) > 1
         /\ \A k \in 1 .. Len(path) - 1 :
              /\ Steps(path)[k].timestep = k - 1
              /\ Steps(path)[k].step_from = path[k]
              /\ Steps(path)[k].step_to = path[k + 1]
<1> DEFINE n == Len(path) - 1
           Step(k) == [timestep |-> k - 1, step_from |-> path[k], step_to |-> path[k + 1]]
           AllSteps == {Step(k) : k \in 1 .. n}
<1>1. n \in Nat
  OBVIOUS
<1>2. Steps(path) = [k \in 1 .. n |-> Step(k)]
  BY DEF Steps
<1> HIDE DEF Step
<1>3. Steps(path) \in [1 .. n -> AllSteps]
  BY <1>2
<1> HIDE DEF AllSteps
<1>4. Steps(path) \in Seq(AllSteps) /\ Len(Steps(path)) = n
  <2> HIDE DEF n
  <2> QED BY <1>1, <1>3, FunctionIsSeq
<1>5. Steps(path) # <<>> <=> Len(path) > 1
  <2>1. Steps(path) = <<>> <=> Len(Steps(path)) = 0
    BY <1>4
  <2> QED BY <1>4, <2>1
<1>6. \A k \in 1 .. n : Steps(path)[k] = Step(k)
  BY <1>2
<1>7. \A k : /\ Step(k).timestep = k - 1
             /\ Step(k).step_from = path[k]
             /\ Step(k).step_to = path[k + 1]
  BY DEF Step
<1> QED BY <1>4, <1>5, <1>6, <1>7

LEMMA StepWaypoints ==
  ASSUME NEW path \in Seq(Locations), Len(path) > 1, NEW k \in 0 .. Len(path) - 1
  PROVE  /\ WaypointName(Steps(path), k) = path[k + 1]
         /\ \A o \in Int : WaypointProgress(Steps(path), k, o) = k + o
<1> DEFINE steps == Steps(path)
<1>1. /\ Len(steps) = Len(path) - 1
      /\ \A m \in 1 .. Len(path) - 1 :
           /\ steps[m].timestep = m - 1
           /\ steps[m].step_from = path[m]
           /\ steps[m].step_to = path[m + 1]
  BY StepFields
<1>2. Len(path) \in Nat /\ k \in Nat
  OBVIOUS
<1> HIDE DEF steps
<1>3. CASE k < Len(path) - 1
  <2>1. k + 1 \in 1 .. Len(path) - 1 /\ k < Len(steps)
    BY <1>1, <1>2, <1>3
  <2>2. steps[k + 1].step_from = path[k + 1] /\ steps[k + 1].timestep = k
    BY <1>1, <1>2, <2>1
  <2> QED BY <2>1, <2>2 DEF WaypointName, WaypointProgress, steps
<1>4. CASE k = Len(path) - 1
  <2>1. k \in 1 .. Len(path) - 1 /\ ~(k < Len(steps)) /\ Len(steps) = k
    BY <1>1, <1>2, <1>4
  <2>2. steps[k].step_to = path[k + 1] /\ steps[k].timestep = k - 1
    BY <1>1, <1>2, <2>1
  <2>3. steps[Len(steps)].timestep + 1 = k
    BY <1>2, <2>1, <2>2
  <2> QED BY <2>1, <2>2, <2>3 DEF WaypointName, WaypointProgress, steps
<1> QED BY <1>2, <1>3, <1>4

-----------------------------------------------------------------------------
(* The plans, in terms of the paths.                                       *)

\* The n-th step of j is its first to enter, no earlier, what step m of i leaves.
FirstEntry(ps, j, n, i, m) ==
  /\ ps[i][m] = ps[j][n + 1] /\ m <= n
  /\ \A q \in 1 .. n - 1 : ~(ps[i][m] = ps[j][q + 1] /\ m <= q)

Blocker(ps, ids, offset, i, m) ==
  [name |-> i, plan_id |-> ids[i], required_progress |-> m + offset[i]]

\* d is a blocker of waypoint k of j.
IsBlocker(ps, ids, offset, j, k, d) ==
  /\ k < Len(ps[j]) - 1
  /\ \E i \in Robots \ {j} : \E m \in 1 .. Len(ps[i]) - 1 :
       FirstEntry(ps, j, k + 1, i, m) /\ d = Blocker(ps, ids, offset, i, m)

LEMMA BlockersOf ==
  ASSUME NEW ps \in Paths, NEW ids, NEW offset \in [Robots -> Int],
         NEW steps, steps = [i \in Robots |-> Steps(ps[i])],
         NEW j \in Robots, NEW k \in 0 .. Len(ps[j]) - 1
  PROVE  \A d : d \in DepartureBlockers(steps, ids, offset, j, k) <=> IsBlocker(ps, ids, offset, j, k, d)
<1> DEFINE Some(i) == {m \in 1 .. Len(steps[i]) : FirstToEnter(steps[j], k + 1, steps[i][m])}
           Dep(i, m) == [name |-> i, plan_id |-> ids[i],
                         required_progress |-> WaypointProgress(steps[i], m, offset[i])]
<1>1. \A i \in Robots :
        /\ ps[i] \in Seq(Locations) /\ Len(ps[i]) \in Nat /\ Len(ps[i]) >= 1
        /\ steps[i] = Steps(ps[i])
        /\ Len(steps[i]) = Len(ps[i]) - 1
        /\ \A m \in 1 .. Len(ps[i]) - 1 :
             /\ steps[i][m].timestep = m - 1
             /\ steps[i][m].step_from = ps[i][m]
             /\ steps[i][m].step_to = ps[i][m + 1]
  <2> TAKE i \in Robots
  <2>1. ps[i] \in Seq(Locations) /\ Len(ps[i]) \in Nat /\ Len(ps[i]) >= 1
    BY PathFields
  <2>2. steps[i] = Steps(ps[i])
    OBVIOUS
  <2> QED BY <2>1, <2>2, StepFields
<1>2. DOMAIN steps = Robots
  OBVIOUS
<1>3. DepartureBlockers(steps, ids, offset, j, k) =
        IF k = Len(steps[j]) THEN {} ELSE UNION {{Dep(i, m) : m \in Some(i)} : i \in Robots \ {j}}
  BY <1>2 DEF DepartureBlockers
<1>4. CASE k = Len(ps[j]) - 1
  <2>1. DepartureBlockers(steps, ids, offset, j, k) = {}
    BY <1>1, <1>3, <1>4
  <2>2. ~(k < Len(ps[j]) - 1)
    <3>1. Len(ps[j]) \in Nat
      BY <1>1
    <3> QED BY <1>4, <3>1
  <2> QED BY <2>1, <2>2, Zenon DEF IsBlocker
<1>5. CASE k < Len(ps[j]) - 1
  <2>1. ASSUME NEW i \in Robots \ {j}, NEW m \in 1 .. Len(ps[i]) - 1
        PROVE  /\ FirstToEnter(steps[j], k + 1, steps[i][m]) <=> FirstEntry(ps, j, k + 1, i, m)
               /\ Dep(i, m) = Blocker(ps, ids, offset, i, m)
    <3>1. ASSUME NEW q \in 1 .. Len(ps[j]) - 1
          PROVE  EntersAfter(steps[j][q], steps[i][m]) <=> ps[i][m] = ps[j][q + 1] /\ m <= q
      <4>1. /\ steps[i][m].timestep = m - 1 /\ steps[i][m].step_from = ps[i][m]
            /\ steps[j][q].timestep = q - 1 /\ steps[j][q].step_to = ps[j][q + 1]
        BY <1>1
      <4>2. m - 1 <= q - 1 <=> m <= q
        BY <1>1
      <4> QED BY <4>1, <4>2 DEF EntersAfter
    <3>2. k + 1 \in 1 .. Len(ps[j]) - 1 /\ 1 .. (k + 1) - 1 \subseteq 1 .. Len(ps[j]) - 1
      BY <1>1, <1>5
    <3>3. FirstToEnter(steps[j], k + 1, steps[i][m]) <=> FirstEntry(ps, j, k + 1, i, m)
      BY <3>1, <3>2 DEF FirstToEnter, FirstEntry
    <3>4. m \in 0 .. Len(ps[i]) - 1 /\ Len(ps[i]) > 1 /\ offset[i] \in Int
      BY <1>1
    <3>5. WaypointProgress(steps[i], m, offset[i]) = m + offset[i]
      BY <1>1, <3>4, StepWaypoints
    <3> QED BY <3>3, <3>5 DEF Blocker
  <2>2. \A i \in Robots \ {j} :
          Some(i) = {m \in 1 .. Len(ps[i]) - 1 : FirstEntry(ps, j, k + 1, i, m)}
    BY <1>1, <2>1
  <2>3. k # Len(steps[j])
    BY <1>1, <1>5
  <2> HIDE DEF Some, Dep
  <2>4. \A d : d \in DepartureBlockers(steps, ids, offset, j, k)
                 <=> \E i \in Robots \ {j} : \E m \in Some(i) : d = Dep(i, m)
    BY <1>3, <2>3
  <2>5. \A i \in Robots \ {j} : \A m \in Some(i) : Dep(i, m) = Blocker(ps, ids, offset, i, m)
    BY <2>1, <2>2
  <2> TAKE d
  <2>6. (\E i \in Robots \ {j} : \E m \in Some(i) : d = Dep(i, m))
          <=> \E i \in Robots \ {j} : \E m \in 1 .. Len(ps[i]) - 1 :
                FirstEntry(ps, j, k + 1, i, m) /\ d = Blocker(ps, ids, offset, i, m)
    BY <2>2, <2>5, Zenon
  <2> QED BY <1>5, <2>4, <2>6, Zenon DEF IsBlocker
<1>6. k = Len(ps[j]) - 1 \/ k < Len(ps[j]) - 1
  <2>1. Len(ps[j]) \in Nat
    BY <1>1
  <2> QED BY <2>1
<1> QED BY <1>4, <1>5, <1>6

\* The waypoints of the plan of j, whose path has more than one position.
WaypointsOf(ps, ids, offset, j) ==
  LET steps == [i \in Robots |-> Steps(ps[i])]
  IN [n \in 1 .. Len(ps[j]) |->
        [ name |-> ps[j][n],
          progress |-> n - 1 + offset[j],
          departure_blockers |-> DepartureBlockers(steps, ids, offset, j, n - 1) ]]

LEMMA GeneratedIs ==
  ASSUME NEW ps \in Paths, NEW ids, NEW offset \in [Robots -> Int]
  PROVE  /\ DOMAIN Generate(ps, ids, offset) = {j \in Robots : Len(ps[j]) > 1}
         /\ \A j \in DOMAIN Generate(ps, ids, offset) :
              Generate(ps, ids, offset)[j] =
                [plan_id |-> ids[j], waypoints |-> WaypointsOf(ps, ids, offset, j)]
<1> DEFINE steps == [i \in Robots |-> Steps(ps[i])]
           Moving == {j \in Robots : Len(ps[j]) > 1}
           W(j, n) == [ name |-> WaypointName(steps[j], n - 1),
                        progress |-> WaypointProgress(steps[j], n - 1, offset[j]),
                        departure_blockers |->
                          DepartureBlockers(steps, ids, offset, j, n - 1) ]
           V(j, n) == [ name |-> ps[j][n],
                        progress |-> n - 1 + offset[j],
                        departure_blockers |->
                          DepartureBlockers(steps, ids, offset, j, n - 1) ]
           P(j) == [plan_id |-> ids[j], waypoints |-> [n \in 1 .. Len(steps[j]) + 1 |-> W(j, n)]]
<1>1. DOMAIN ps = Robots
  BY DEF Paths
<1>2. \A i \in Robots :
        /\ ps[i] \in Seq(Locations) /\ Len(ps[i]) \in Nat /\ Len(ps[i]) >= 1
        /\ steps[i] = Steps(ps[i])
        /\ Len(steps[i]) = Len(ps[i]) - 1
        /\ steps[i] # <<>> <=> Len(ps[i]) > 1
  <2> TAKE i \in Robots
  <2>1. ps[i] \in Seq(Locations) /\ Len(ps[i]) \in Nat /\ Len(ps[i]) >= 1
    BY PathFields
  <2>2. steps[i] = Steps(ps[i])
    OBVIOUS
  <2> QED BY <2>1, <2>2, StepFields
<1>3. Generate(ps, ids, offset) = [j \in {i \in Robots : steps[i] # <<>>} |-> P(j)]
  BY <1>1 DEF Generate
<1>4. {i \in Robots : steps[i] # <<>>} = Moving
  BY <1>2
<1>5. ASSUME NEW j \in Moving
      PROVE  P(j) = [plan_id |-> ids[j], waypoints |-> WaypointsOf(ps, ids, offset, j)]
  <2>1. Len(steps[j]) + 1 = Len(ps[j])
    BY <1>2
  <2>2. ASSUME NEW n \in 1 .. Len(ps[j]) PROVE W(j, n) = V(j, n)
    <3>1. /\ n - 1 \in 0 .. Len(ps[j]) - 1 /\ (n - 1) + 1 = n
          /\ offset[j] \in Int /\ ps[j] \in Seq(Locations) /\ Len(ps[j]) > 1
          /\ steps[j] = Steps(ps[j])
      BY <1>2
    <3>2. WaypointName(steps[j], n - 1) = ps[j][n]
      BY <3>1, StepWaypoints
    <3>3. WaypointProgress(steps[j], n - 1, offset[j]) = n - 1 + offset[j]
      BY <3>1, StepWaypoints
    <3> QED BY <3>2, <3>3, Zenon
  <2>3. WaypointsOf(ps, ids, offset, j) = [n \in 1 .. Len(ps[j]) |-> V(j, n)]
    BY Zenon DEF WaypointsOf
  <2> HIDE DEF W, V
  <2>4. [n \in 1 .. Len(steps[j]) + 1 |-> W(j, n)] = [n \in 1 .. Len(ps[j]) |-> V(j, n)]
    BY <2>1, <2>2
  <2> QED BY <2>3, <2>4, Zenon
<1> HIDE DEF P
<1> QED BY <1>3, <1>4, <1>5

LEMMA GeneratedFields ==
  ASSUME NEW ps \in Paths, NEW ids, NEW offset \in [Robots -> Int],
         NEW g, g = Generate(ps, ids, offset), NEW j \in DOMAIN g
  PROVE  /\ j \in Robots
         /\ Len(ps[j]) \in Nat /\ Len(ps[j]) > 1
         /\ g[j].plan_id = ids[j]
         /\ LastIndex(g[j]) = Len(ps[j]) - 1
         /\ Indices(g[j]) = 0 .. Len(ps[j]) - 1
         /\ \A k \in 0 .. Len(ps[j]) - 1 :
              /\ WaypointAt(g[j], k).name = ps[j][k + 1]
              /\ WaypointAt(g[j], k).progress = k + offset[j]
<1> DEFINE steps == [i \in Robots |-> Steps(ps[i])]
           V(n) == [ name |-> ps[j][n],
                     progress |-> n - 1 + offset[j],
                     departure_blockers |->
                       DepartureBlockers(steps, ids, offset, j, n - 1) ]
<1>1. j \in Robots /\ Len(ps[j]) > 1 /\ Len(ps[j]) \in Nat
  BY GeneratedIs, PathFields
<1>2. g[j] = [plan_id |-> ids[j], waypoints |-> WaypointsOf(ps, ids, offset, j)]
  BY GeneratedIs
<1>3. g[j].plan_id = ids[j] /\ g[j].waypoints = WaypointsOf(ps, ids, offset, j)
  BY <1>2
<1>4. g[j].waypoints = [n \in 1 .. Len(ps[j]) |-> V(n)]
  BY <1>3, Zenon DEF WaypointsOf
<1> HIDE DEF V
<1>5. Len(g[j].waypoints) = Len(ps[j])
  <2>1. g[j].waypoints \in [1 .. Len(ps[j]) -> {V(n) : n \in 1 .. Len(ps[j])}]
    BY <1>4
  <2> QED BY <1>1, <2>1, FunctionIsSeq
<1>6. LastIndex(g[j]) = Len(ps[j]) - 1 /\ Indices(g[j]) = 0 .. Len(ps[j]) - 1
  BY <1>5 DEF LastIndex, Indices
<1>7. ASSUME NEW k \in 0 .. Len(ps[j]) - 1
      PROVE  /\ WaypointAt(g[j], k).name = ps[j][k + 1]
             /\ WaypointAt(g[j], k).progress = k + offset[j]
  <2>1. k + 1 \in 1 .. Len(ps[j]) /\ (k + 1) - 1 = k
    BY <1>1
  <2>2. WaypointAt(g[j], k) = V(k + 1)
    BY <1>4, <2>1 DEF WaypointAt
  <2>3. V(k + 1).name = ps[j][k + 1] /\ V(k + 1).progress = (k + 1) - 1 + offset[j]
    BY DEF V
  <2> QED BY <2>1, <2>2, <2>3
<1> QED BY <1>1, <1>3, <1>6, <1>7

LEMMA GeneratedBlockers ==
  ASSUME NEW ps \in Paths, NEW ids, NEW offset \in [Robots -> Int],
         NEW g, g = Generate(ps, ids, offset), NEW j \in DOMAIN g, NEW k \in 0 .. Len(ps[j]) - 1
  PROVE  \A d : d \in WaypointAt(g[j], k).departure_blockers <=> IsBlocker(ps, ids, offset, j, k, d)
<1> DEFINE steps == [i \in Robots |-> Steps(ps[i])]
           V(n) == [ name |-> ps[j][n],
                     progress |-> n - 1 + offset[j],
                     departure_blockers |->
                       DepartureBlockers(steps, ids, offset, j, n - 1) ]
<1>1. j \in Robots /\ Len(ps[j]) \in Nat
  BY GeneratedIs, PathFields
<1>2. g[j] = [plan_id |-> ids[j], waypoints |-> WaypointsOf(ps, ids, offset, j)]
  BY GeneratedIs
<1>3. g[j].waypoints = WaypointsOf(ps, ids, offset, j)
  BY <1>2
<1>4. g[j].waypoints = [n \in 1 .. Len(ps[j]) |-> V(n)]
  BY <1>3, Zenon DEF WaypointsOf
<1>5. \A n : V(n).departure_blockers = DepartureBlockers(steps, ids, offset, j, n - 1)
  OBVIOUS
<1> HIDE DEF V
<1>6. k + 1 \in 1 .. Len(ps[j]) /\ (k + 1) - 1 = k
  BY <1>1
<1>7. WaypointAt(g[j], k) = V(k + 1)
  BY <1>4, <1>6 DEF WaypointAt
<1>8. WaypointAt(g[j], k).departure_blockers = DepartureBlockers(steps, ids, offset, j, k)
  BY <1>5, <1>6, <1>7
<1> HIDE DEF steps
<1>9. steps = [i \in Robots |-> Steps(ps[i])]
  BY DEF steps
<1>10. \A d : d \in DepartureBlockers(steps, ids, offset, j, k) <=> IsBlocker(ps, ids, offset, j, k, d)
  BY <1>1, <1>9, BlockersOf
<1> QED BY <1>8, <1>10, Zenon

-----------------------------------------------------------------------------
(* Solutions.                                                              *)

LEMMA MaxTIs ==
  ASSUME IsFiniteSet(Robots), Robots # {}, NEW ps \in Paths
  PROVE  /\ MaxT(ps) \in Nat
         /\ \A r \in Robots : Len(ps[r]) <= MaxT(ps)
         /\ \E r \in Robots : Len(ps[r]) = MaxT(ps)
<1> DEFINE T == {Len(ps[r]) : r \in Robots}
<1>1. DOMAIN ps = Robots
  BY DEF Paths
<1>2. T \in SUBSET Nat /\ T # {}
  BY PathFields
<1>3. IsFiniteSet(T)
  <2> DEFINE f == [r \in Robots |-> Len(ps[r])]
  <2>1. f \in Surjection(Robots, T)
    BY DEF Surjection
  <2> QED BY <2>1, FS_Surjection
<1> HIDE DEF T
<1>4. \E m \in T : \A n \in T : n <= m
  BY <1>2, <1>3, FiniteHasGreatest
<1>5. MaxT(ps) = CHOOSE n \in T : \A i \in Robots : Len(ps[i]) <= n
  BY <1>1 DEF MaxT, T
<1>6. MaxT(ps) \in T /\ \A i \in Robots : Len(ps[i]) <= MaxT(ps)
  BY <1>4, <1>5 DEF T
<1> QED BY <1>2, <1>6 DEF T

\* Two robots of a solution that are at the same location are not there at
\* the same time: if i is there at its waypoint a and j at its waypoint b, no
\* earlier, then i goes on before j comes.
LEMMA VisitsApart ==
  ASSUME IsFiniteSet(Robots), NEW ps \in Paths, ConflictFree(ps),
         NEW i \in Robots, NEW j \in Robots, i # j,
         NEW a \in 0 .. Len(ps[i]) - 1, NEW b \in 0 .. Len(ps[j]) - 1,
         ps[i][a + 1] = ps[j][b + 1], a <= b
  PROVE  a < b /\ a < Len(ps[i]) - 1
<1>1. /\ Len(ps[i]) \in Nat /\ Len(ps[j]) \in Nat /\ MaxT(ps) \in Nat
      /\ Len(ps[j]) <= MaxT(ps)
  BY PathFields, MaxTIs
<1>2. b \in 0 .. MaxT(ps) - 1
  BY <1>1
<1>3. StateAt(ps[i], b) # StateAt(ps[j], b)
  <2>1. DOMAIN ps = Robots
    BY DEF Paths
  <2> QED BY <1>2, <2>1 DEF ConflictFree, VertexConflict
<1>4. StateAt(ps[j], b) = ps[j][b + 1]
  BY <1>1 DEF StateAt
<1>5. a # b
  <2> SUFFICES ASSUME a = b PROVE FALSE
    OBVIOUS
  <2>1. StateAt(ps[i], b) = ps[i][a + 1]
    BY <1>1 DEF StateAt
  <2> QED BY <1>3, <1>4, <2>1
<1>6. a # Len(ps[i]) - 1
  <2> SUFFICES ASSUME a = Len(ps[i]) - 1 PROVE FALSE
    OBVIOUS
  <2>1. ~(b < Len(ps[i])) /\ Len(ps[i]) = a + 1
    BY <1>1, <1>5
  <2>2. StateAt(ps[i], b) = ps[i][a + 1]
    BY <2>1 DEF StateAt
  <2> QED BY <1>3, <1>4, <2>2
<1> QED BY <1>1, <1>5, <1>6

-----------------------------------------------------------------------------
(* What execution relies on.                                               *)

LEMMA GeneratedProgress ==
  ASSUME NEW ps \in Paths, NEW ids, NEW offset \in [Robots -> Int],
         NEW g, g = Generate(ps, ids, offset), NEW j \in DOMAIN g
  PROVE  ProgressIncreases(g[j])
<1> SUFFICES ASSUME NEW k \in Indices(g[j]), NEW m \in Indices(g[j]), k < m
             PROVE  WaypointAt(g[j], k).progress < WaypointAt(g[j], m).progress
  BY DEF ProgressIncreases
<1>1. /\ j \in Robots /\ Len(ps[j]) \in Nat
      /\ k \in 0 .. Len(ps[j]) - 1 /\ m \in 0 .. Len(ps[j]) - 1
  BY GeneratedFields
<1>2. /\ WaypointAt(g[j], k).progress = k + offset[j]
      /\ WaypointAt(g[j], m).progress = m + offset[j]
  BY <1>1, GeneratedFields
<1>3. offset[j] \in Int
  BY <1>1
<1> QED BY <1>1, <1>2, <1>3

\* The blocker that makes j wait for i where i comes first.
LEMMA GeneratedPrecedes ==
  ASSUME IsFiniteSet(Robots), NEW ps \in Paths, ConflictFree(ps),
         NEW ids, NEW offset \in [Robots -> Int],
         NEW g, g = Generate(ps, ids, offset),
         NEW i \in DOMAIN g, NEW j \in DOMAIN g, i # j,
         NEW a \in Indices(g[i]), NEW b \in Indices(g[j]),
         SameLocation(g, i, a, j, b), a <= b
  PROVE  Precedes(g, i, a, j, b)
<1>1. /\ i \in Robots /\ Len(ps[i]) \in Nat /\ a \in 0 .. Len(ps[i]) - 1
      /\ WaypointAt(g[i], a).name = ps[i][a + 1]
      /\ WaypointAt(g[i], a).progress = a + offset[i]
      /\ g[i].plan_id = ids[i]
  BY GeneratedFields
<1>2. /\ j \in Robots /\ Len(ps[j]) \in Nat /\ b \in 0 .. Len(ps[j]) - 1
      /\ WaypointAt(g[j], b).name = ps[j][b + 1]
  <2>1. j \in Robots /\ Len(ps[j]) \in Nat /\ b \in 0 .. Len(ps[j]) - 1
    BY GeneratedFields
  <2> QED BY <2>1, GeneratedFields
<1>3. ps[i][a + 1] = ps[j][b + 1]
  BY <1>1, <1>2 DEF SameLocation
<1>4. a < b /\ a < Len(ps[i]) - 1
  BY <1>1, <1>2, <1>3, VisitsApart
<1> DEFINE Enters(n) == ps[i][a + 1] = ps[j][n + 1] /\ a + 1 <= n
           T == {n \in 1 .. b : Enters(n)}
<1>5. PICK n \in T : \A q \in T : n <= q
  <2>1. b \in T
    BY <1>1, <1>2, <1>3, <1>4
  <2>2. T \in SUBSET Nat
    BY <1>2
  <2> HIDE DEF T
  <2> QED BY <2>1, <2>2, WellOrdered
<1>6. n \in 1 .. b /\ Enters(n) /\ \A q \in 1 .. n - 1 : ~Enters(q)
  <2>1. n \in 1 .. b /\ Enters(n)
    BY <1>5
  <2>2. ASSUME NEW q \in 1 .. n - 1, Enters(q) PROVE FALSE
    <3>1. q \in T
      BY <1>2, <2>1, <2>2
    <3>2. n <= q
      BY <1>5, <3>1
    <3> QED BY <1>2, <2>1, <3>2
  <2> HIDE DEF Enters
  <2> QED BY <2>1, <2>2
<1>7. FirstEntry(ps, j, n, i, a + 1)
  BY <1>6 DEF FirstEntry
<1> HIDE DEF T, Enters
<1>8. n - 1 \in 0 .. b - 1 /\ n - 1 \in 0 .. Len(ps[j]) - 1 /\ n - 1 < Len(ps[j]) - 1 /\ (n - 1) + 1 = n
  BY <1>2, <1>6
<1>9. a + 1 \in 1 .. Len(ps[i]) - 1 /\ i \in Robots \ {j}
  BY <1>1, <1>4
<1> DEFINE d == Blocker(ps, ids, offset, i, a + 1)
<1>10. d \in WaypointAt(g[j], n - 1).departure_blockers
  <2>1. FirstEntry(ps, j, (n - 1) + 1, i, a + 1)
    BY <1>7, <1>8
  <2>2. IsBlocker(ps, ids, offset, j, n - 1, d)
    BY <1>8, <1>9, <2>1, Zenon DEF IsBlocker
  <2> QED BY <1>8, <2>2, GeneratedBlockers
<1>11. d.name = i /\ d.plan_id = ids[i] /\ d.required_progress = a + 1 + offset[i]
  BY DEF Blocker
<1>12. d.required_progress > WaypointAt(g[i], a).progress
  <2>1. offset[i] \in Int
    BY <1>1
  <2> QED BY <1>1, <1>11, <2>1
<1> HIDE DEF d
<1> QED BY <1>1, <1>8, <1>10, <1>11, <1>12 DEF Precedes

LEMMA GeneratedVisits ==
  ASSUME IsFiniteSet(Robots), NEW ps \in Paths, ConflictFree(ps),
         NEW ids, NEW offset \in [Robots -> Int],
         NEW g, g = Generate(ps, ids, offset)
  PROVE  VisitsOrdered(g)
<1> SUFFICES ASSUME NEW i \in DOMAIN g, NEW j \in DOMAIN g, i # j,
                    NEW a \in Indices(g[i]), NEW b \in Indices(g[j]),
                    SameLocation(g, i, a, j, b)
             PROVE  Precedes(g, i, a, j, b) \/ Precedes(g, j, b, i, a)
  BY DEF VisitsOrdered
<1>1. a \in Nat /\ b \in Nat
  <2>1. Indices(g[i]) = 0 .. Len(ps[i]) - 1 /\ Indices(g[j]) = 0 .. Len(ps[j]) - 1
    BY GeneratedFields
  <2> QED BY <2>1
<1>2. CASE a <= b
  BY <1>2, GeneratedPrecedes
<1>3. CASE b <= a
  <2>1. SameLocation(g, j, b, i, a)
    BY DEF SameLocation
  <2> QED BY <1>3, <2>1, GeneratedPrecedes
<1> QED BY <1>1, <1>2, <1>3

\* A blocker of j names a robot with a plan, and a waypoint of that plan.
LEMMA BlockerFields ==
  ASSUME NEW ps \in Paths, NEW ids, NEW offset \in [Robots -> Int],
         NEW g, g = Generate(ps, ids, offset), NEW j \in DOMAIN g, NEW k \in Indices(g[j]),
         NEW d \in WaypointAt(g[j], k).departure_blockers
  PROVE  \E i \in DOMAIN g \ {j} : \E m \in Indices(g[i]) :
           /\ m \in 1 .. Len(ps[i]) - 1
           /\ FirstEntry(ps, j, k + 1, i, m)
           /\ d = Blocker(ps, ids, offset, i, m)
           /\ d.name = i
           /\ d.plan_id = g[i].plan_id
           /\ d.required_progress = m + offset[i]
           /\ WaypointAt(g[i], m).progress = m + offset[i]
<1>1. k \in 0 .. Len(ps[j]) - 1
  BY GeneratedFields
<1>2. IsBlocker(ps, ids, offset, j, k, d)
  BY <1>1, GeneratedBlockers
<1>3. PICK i \in Robots \ {j} : \E m \in 1 .. Len(ps[i]) - 1 :
        FirstEntry(ps, j, k + 1, i, m) /\ d = Blocker(ps, ids, offset, i, m)
  BY <1>2 DEF IsBlocker
<1>9. PICK m \in 1 .. Len(ps[i]) - 1 :
        FirstEntry(ps, j, k + 1, i, m) /\ d = Blocker(ps, ids, offset, i, m)
  BY <1>3
<1>4. Len(ps[i]) \in Nat /\ Len(ps[i]) > 1 /\ m \in 0 .. Len(ps[i]) - 1
  <2>1. Len(ps[i]) \in Nat
    BY PathFields
  <2> QED BY <2>1
<1>5. i \in DOMAIN g \ {j}
  BY <1>4, GeneratedIs
<1>6. g[i].plan_id = ids[i] /\ m \in Indices(g[i]) /\ WaypointAt(g[i], m).progress = m + offset[i]
  BY <1>4, <1>5, GeneratedFields
<1>7. d.name = i /\ d.plan_id = ids[i] /\ d.required_progress = m + offset[i]
  BY <1>9 DEF Blocker
<1> QED BY <1>5, <1>6, <1>7, <1>9

LEMMA GeneratedEnd ==
  ASSUME NEW ps \in Paths, NEW ids, NEW offset \in [Robots -> Int],
         NEW g, g = Generate(ps, ids, offset), NEW h \in DOMAIN g
  PROVE  WaypointAt(g[h], LastIndex(g[h])).progress = Len(ps[h]) - 1 + offset[h]
<1>1. Len(ps[h]) \in Nat /\ Len(ps[h]) > 1 /\ LastIndex(g[h]) = Len(ps[h]) - 1
  BY GeneratedFields
<1>2. \A n \in 0 .. Len(ps[h]) - 1 : WaypointAt(g[h], n).progress = n + offset[h]
  BY GeneratedFields
<1>3. Len(ps[h]) - 1 \in 0 .. Len(ps[h]) - 1
  BY <1>1
<1> QED BY <1>1, <1>2, <1>3, Zenon

LEMMA GeneratedAttainable ==
  ASSUME NEW ps \in Paths, NEW ids, NEW offset \in [Robots -> Int],
         NEW g, g = Generate(ps, ids, offset),
         \A r, s \in DOMAIN g : ids[r] = ids[s] => r = s
  PROVE  Attainable(g)
<1> SUFFICES ASSUME NEW j \in DOMAIN g, NEW k \in Indices(g[j]),
                    NEW d \in WaypointAt(g[j], k).departure_blockers,
                    NEW h \in DOMAIN g, d.plan_id = g[h].plan_id
             PROVE  d.required_progress <= WaypointAt(g[h], LastIndex(g[h])).progress
  BY DEF Attainable
<1>1. PICK i \in DOMAIN g \ {j} : \E m \in Indices(g[i]) :
        d.plan_id = g[i].plan_id /\ d.required_progress = m + offset[i]
  BY BlockerFields
<1>7. PICK m \in Indices(g[i]) : d.required_progress = m + offset[i]
  BY <1>1
<1>2. i = h
  <2>1. g[i].plan_id = ids[i] /\ g[h].plan_id = ids[h] /\ i \in Robots /\ h \in Robots
    BY GeneratedFields
  <2> QED BY <1>1, <2>1
<1>3. Len(ps[h]) \in Nat /\ Len(ps[h]) > 1 /\ h \in Robots
  BY GeneratedFields
<1>4. LastIndex(g[h]) = Len(ps[h]) - 1 /\ m \in 0 .. Len(ps[h]) - 1
  BY <1>2, GeneratedFields
<1>5. WaypointAt(g[h], LastIndex(g[h])).progress = Len(ps[h]) - 1 + offset[h]
  BY GeneratedEnd
<1>6. offset[h] \in Int
  BY <1>3
<1> QED BY <1>2, <1>3, <1>4, <1>5, <1>6, <1>7

LEMMA GeneratedType ==
  ASSUME NEW ps \in Paths, NEW ids \in [Robots -> PlanIds], NEW offset \in [Robots -> Int],
         NEW g, g = Generate(ps, ids, offset)
  PROVE  g \in [DOMAIN g -> Plan]
<1> SUFFICES ASSUME NEW j \in DOMAIN g PROVE g[j] \in Plan
  <2>1. Generate(ps, ids, offset) = [j \in DOMAIN g |-> g[j]]
    BY DEF Generate
  <2> QED BY <2>1
<1> DEFINE steps == [i \in Robots |-> Steps(ps[i])]
           V(n) == [ name |-> ps[j][n],
                     progress |-> n - 1 + offset[j],
                     departure_blockers |->
                       DepartureBlockers(steps, ids, offset, j, n - 1) ]
<1>1. j \in Robots /\ Len(ps[j]) > 1 /\ Len(ps[j]) \in Nat
  BY GeneratedFields
<1>2. g[j] = [plan_id |-> ids[j], waypoints |-> WaypointsOf(ps, ids, offset, j)]
  BY GeneratedIs
<1>3. WaypointsOf(ps, ids, offset, j) = [n \in 1 .. Len(ps[j]) |-> V(n)]
  BY Zenon DEF WaypointsOf
<1>4. ASSUME NEW n \in 1 .. Len(ps[j]) PROVE V(n) \in Waypoint
  <2>1. ps[j][n] \in Locations
    BY <1>1, PathFields
  <2>2. n - 1 + offset[j] \in Int
    BY <1>1
  <2>3. ASSUME NEW d \in DepartureBlockers(steps, ids, offset, j, n - 1)
        PROVE  d \in TrafficDependency
    <3>1. n - 1 \in 0 .. Len(ps[j]) - 1
      BY <1>1
    <3>2. steps = [i \in Robots |-> Steps(ps[i])]
      OBVIOUS
    <3> HIDE DEF steps
    <3>3. IsBlocker(ps, ids, offset, j, n - 1, d)
      BY <1>1, <2>3, <3>1, <3>2, BlockersOf
    <3>4. PICK i \in Robots \ {j} : \E m \in 1 .. Len(ps[i]) - 1 : d = Blocker(ps, ids, offset, i, m)
      BY <3>3 DEF IsBlocker
    <3>6. PICK m \in 1 .. Len(ps[i]) - 1 : d = Blocker(ps, ids, offset, i, m)
      BY <3>4
    <3>5. m + offset[i] \in Int
      <4>1. Len(ps[i]) \in Nat /\ offset[i] \in Int
        BY PathFields
      <4> QED BY <4>1
    <3> QED BY <3>5, <3>6 DEF Blocker, TrafficDependency
  <2>4. DepartureBlockers(steps, ids, offset, j, n - 1) \in SUBSET TrafficDependency
    BY <2>3
  <2> HIDE DEF steps
  <2> QED BY <2>1, <2>2, <2>4 DEF Waypoint
<1> HIDE DEF V
<1>5. WaypointsOf(ps, ids, offset, j) \in [1 .. Len(ps[j]) -> Waypoint]
  BY <1>3, <1>4
<1>6. /\ WaypointsOf(ps, ids, offset, j) \in Seq(Waypoint)
      /\ Len(WaypointsOf(ps, ids, offset, j)) = Len(ps[j])
  BY <1>1, <1>5, FunctionIsSeq
<1>7. WaypointsOf(ps, ids, offset, j) # <<>>
  BY <1>1, <1>6
<1>8. ids[j] \in PlanIds
  BY <1>1
<1> QED BY <1>2, <1>6, <1>7, <1>8 DEF Plan

-----------------------------------------------------------------------------
(* No circular wait.                                                       *)

\* Among the robots that are not at their end, those with the least index
\* wait for each other, if all wait: one that waits at index t waits for one
\* that is at index t too and goes where that one is.
LEMMA GeneratedNoCircularWait ==
  ASSUME IsFiniteSet(Robots), NEW ps \in Paths, ConflictFree(ps), ~Rotates(ps),
         NEW ids, NEW offset \in [Robots -> Int],
         NEW g, g = Generate(ps, ids, offset)
  PROVE  NoCircularWait(g)
<1> SUFFICES ASSUME NEW c, \A r \in DOMAIN g : c[r] \in Indices(g[r]),
                    \E r \in DOMAIN g : c[r] < LastIndex(g[r]),
                    \A r \in DOMAIN g : ~MayDepart(g, c, r)
             PROVE  FALSE
  BY DEF NoCircularWait
<1>1. \A r \in DOMAIN g : /\ r \in Robots /\ Len(ps[r]) \in Nat /\ Len(ps[r]) > 1
                          /\ LastIndex(g[r]) = Len(ps[r]) - 1
                          /\ c[r] \in 0 .. Len(ps[r]) - 1
  BY GeneratedFields
<1> DEFINE Under == {r \in DOMAIN g : c[r] < LastIndex(g[r])}
           Times == {c[r] : r \in Under}
<1>2. PICK t \in Times : \A n \in Times : t <= n
  <2>1. Times \in SUBSET Nat /\ Times # {}
    BY <1>1
  <2> HIDE DEF Times
  <2> QED BY <2>1, WellOrdered
<1> DEFINE ring == {r \in Under : c[r] = t}
<1>3. t \in Nat /\ ring # {} /\ ring \in SUBSET Robots
  BY <1>1
<1>4. \A r \in Under : t <= c[r]
  BY <1>2
<1>5. \A r \in Robots : Len(ps[r]) <= MaxT(ps)
  BY <1>3, MaxTIs
<1>6. MaxT(ps) \in Nat /\ DOMAIN ps = Robots
  BY <1>3, MaxTIs DEF Paths
<1>7. t \in 0 .. MaxT(ps) - 2
  <2>1. PICK r \in ring : TRUE
    BY <1>3
  <2>2. r \in DOMAIN g /\ t < Len(ps[r]) - 1 /\ Len(ps[r]) \in Nat /\ Len(ps[r]) <= MaxT(ps)
    BY <1>1, <1>5
  <2> HIDE DEF ring
  <2> QED BY <1>3, <1>6, <2>2
<1>8. \A r \in ring : /\ r \in DOMAIN g
                      /\ t + 1 \in 0 .. Len(ps[r]) - 1
                      /\ StateAt(ps[r], t) = ps[r][t + 1]
                      /\ StateAt(ps[r], t + 1) = ps[r][t + 1 + 1]
  <2> TAKE r \in ring
  <2>1. r \in DOMAIN g /\ t < Len(ps[r]) - 1 /\ Len(ps[r]) \in Nat
    BY <1>1
  <2> HIDE DEF ring
  <2> QED BY <1>3, <2>1 DEF StateAt
<1>9. ASSUME NEW j \in ring
      PROVE  \E i \in ring : i # j /\ ps[i][t + 1] = ps[j][t + 1 + 1]
  <2>1. j \in DOMAIN g /\ c[j] = t /\ c[j] < LastIndex(g[j]) /\ t \in Indices(g[j])
    OBVIOUS
  <2>2. PICK d \in WaypointAt(g[j], t).departure_blockers :
          ~ /\ d.name \in DOMAIN g
            /\ d.plan_id = g[d.name].plan_id
            /\ WaypointAt(g[d.name], c[d.name]).progress >= d.required_progress
    BY <2>1 DEF MayDepart
  <2>12. PICK i \in DOMAIN g \ {j} : \E m \in Indices(g[i]) :
           /\ m \in 1 .. Len(ps[i]) - 1
           /\ FirstEntry(ps, j, t + 1, i, m)
           /\ d.name = i
           /\ d.plan_id = g[i].plan_id
           /\ d.required_progress = m + offset[i]
    BY <2>1, BlockerFields
  <2>3. PICK m \in 1 .. Len(ps[i]) - 1 :
           /\ FirstEntry(ps, j, t + 1, i, m)
           /\ d.name = i
           /\ d.plan_id = g[i].plan_id
           /\ d.required_progress = m + offset[i]
    BY <2>12
  <2>4. i \in Robots /\ Len(ps[i]) \in Nat /\ c[i] \in 0 .. Len(ps[i]) - 1 /\ offset[i] \in Int
    BY <1>1
  <2>5. WaypointAt(g[i], c[i]).progress = c[i] + offset[i]
    <3>1. \A k \in 0 .. Len(ps[i]) - 1 : WaypointAt(g[i], k).progress = k + offset[i]
      BY GeneratedFields
    <3> QED BY <2>4, <3>1, Zenon
  <2>6. c[i] < m
    <3>1. ~(c[i] + offset[i] >= m + offset[i])
      BY <2>2, <2>3, <2>5
    <3> QED BY <2>3, <2>4, <3>1
  <2>7. m <= t + 1 /\ ps[i][m] = ps[j][t + 1 + 1]
    BY <2>3 DEF FirstEntry
  <2>8. c[i] < LastIndex(g[i])
    BY <1>1, <2>3, <2>4, <2>6
  <2>9. t <= c[i]
    BY <1>4, <2>8
  <2>10. c[i] = t /\ m = t + 1
    BY <1>3, <2>3, <2>4, <2>6, <2>7, <2>9
  <2>11. i \in ring
    BY <2>8, <2>10
  <2> QED BY <2>3, <2>7, <2>10, <2>11
<1> HIDE DEF ring
<1>10. ASSUME NEW r \in ring
       PROVE  /\ StateAt(ps[r], t) # StateAt(ps[r], t + 1)
              /\ \E s \in ring : StateAt(ps[r], t + 1) = StateAt(ps[s], t)
  <2>1. PICK s \in ring : s # r /\ ps[s][t + 1] = ps[r][t + 1 + 1]
    BY <1>9
  <2>2. StateAt(ps[r], t + 1) = StateAt(ps[s], t)
    BY <1>8, <2>1
  <2>3. t \in 0 .. MaxT(ps) - 1
    BY <1>6, <1>7
  <2>4. StateAt(ps[r], t) # StateAt(ps[s], t)
    BY <1>3, <1>6, <2>1, <2>3 DEF ConflictFree, VertexConflict
  <2> QED BY <2>2, <2>4
<1> QED BY <1>3, <1>6, <1>7, <1>10 DEF Rotates

=============================================================================
