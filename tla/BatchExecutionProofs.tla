------------------------ MODULE BatchExecutionProofs ------------------------
(***************************************************************************)
(* Proofs about the execution of a batch, for any robots, maps, plans that *)
(* satisfy BatchAssumption, window size and number of requests.            *)
(***************************************************************************)
EXTENDS BatchExecution, DependencyManagerProofs, FiniteSetTheorems

\* The fields of a manager, and the robots it knows.
LEMMA ManagerIs ==
  ASSUME NEW STATE d, ManagerType(d)
  PROVE  /\ d.robots \in Seq(Robots)
         /\ d.plan \in [Robots -> Plan \cup {NoPlan}]
         /\ d.current_waypoint \in [Robots -> Nat]
         /\ d.latest_enqueued \in [Robots -> Nat]
         /\ d.completed_plan_ids \subseteq PlanIds
         /\ DOMAIN d.cut_indices \subseteq Robots
         /\ d.cut_indices \in [DOMAIN d.cut_indices -> Nat]
         /\ Known(d) \subseteq Robots
<1>1. d.robots \in Seq(Robots)
  BY DEF ManagerType
<1>2. \A n \in DOMAIN d.robots : d.robots[n] \in Robots
  BY <1>1
<1> QED BY <1>1, <1>2 DEF ManagerType, Known

\* Waypoints of a plan.
LEMMA PlanFields ==
  ASSUME NEW p \in Plan
  PROVE  /\ p.plan_id \in PlanIds
         /\ LastIndex(p) \in Nat
         /\ Indices(p) = 0 .. LastIndex(p)
         /\ \A k \in 0 .. LastIndex(p) :
              /\ WaypointAt(p, k) \in Waypoint
              /\ WaypointAt(p, k).name \in Locations
              /\ WaypointAt(p, k).progress \in Int
<1>1. p.plan_id \in PlanIds /\ p.waypoints \in Seq(Waypoint) /\ p.waypoints # <<>>
  BY DEF Plan
<1>2. Len(p.waypoints) \in Nat \ {0}
  BY <1>1
<1>3. ASSUME NEW k \in 0 .. LastIndex(p) PROVE WaypointAt(p, k) \in Waypoint
  <2>1. k + 1 \in 1 .. Len(p.waypoints)
    BY <1>2 DEF LastIndex
  <2> QED BY <1>1, <2>1 DEF WaypointAt
<1>4. \A w \in Waypoint : w.name \in Locations /\ w.progress \in Int
  BY DEF Waypoint
<1> QED BY <1>1, <1>2, <1>3, <1>4 DEF LastIndex, Indices

-----------------------------------------------------------------------------
(* The dispatcher.                                                         *)

\* The loop of get_valid_waypoints_and_advance ends, at a waypoint of the plan
\* that it reaches.
LEMMA AdvancedReaches ==
  ASSUME NEW STATE d, ManagerType(d), NEW r \in Robots,
         d.plan[r] \in Plan, d.latest_enqueued[r] <= LastIndex(d.plan[r])
  PROVE  /\ Advanced(d, r) \in d.latest_enqueued[r] .. LastIndex(d.plan[r])
         /\ Reaches(d, r, Advanced(d, r))
         /\ Advanced(d, r) = LastIndex(d.plan[r]) \/ ~MayEnqueueAfter(d, r, Advanced(d, r))
<1> DEFINE e == d.latest_enqueued[r]
           last == LastIndex(d.plan[r])
           Stops(k) == k = last \/ ~MayEnqueueAfter(d, r, k)
           T == {k \in e .. last : Stops(k)}
<1>1. e \in Nat /\ last \in Nat /\ e <= last
  BY DEF ManagerType, LastIndex, Plan
<1>2. T \in SUBSET Nat /\ last \in T
  BY <1>1
<1>3. PICK m \in T : \A n \in T : m <= n
  BY <1>2, WellOrdered
<1>4. ASSUME NEW i \in e .. m - 1 PROVE MayEnqueueAfter(d, r, i)
  <2>1. i \notin T
    BY <1>1, <1>2, <1>3
  <2>2. i \in e .. last
    BY <1>1, <1>2, <1>3
  <2> QED BY <2>1, <2>2
<1>5. Reaches(d, r, m)
  BY <1>4 DEF Reaches
<1>6. \E k \in e .. last : Reaches(d, r, k) /\ Stops(k)
  BY <1>3, <1>5
<1> QED BY <1>6 DEF Advanced

\* A cut within the plan keeps the loop from reading behind its end.
LEMMA NoOverrun ==
  ASSUME NEW STATE d, ManagerType(d), NEW r \in Robots, d.plan[r] \in Plan,
         r \in DOMAIN d.cut_indices => d.cut_indices[r] <= LastIndex(d.plan[r])
  PROVE  ~Overruns(d, r)
<1> DEFINE last == LastIndex(d.plan[r])
<1>1. last \in Nat /\ d.latest_enqueued[r] \in Nat
  BY DEF ManagerType, LastIndex, Plan
<1>2. UpperBound(d, r) <= last /\ UpperBound(d, r) \in Nat
  BY <1>1 DEF UpperBound, ManagerType
<1>3. ~MayEnqueueAfter(d, r, last)
  BY <1>1, <1>2 DEF MayEnqueueAfter
<1> SUFFICES ASSUME Overruns(d, r) PROVE FALSE
  OBVIOUS
<1>4. last \in d.latest_enqueued[r] .. (last + 1) - 1
  BY <1>1 DEF Overruns
<1> QED BY <1>3, <1>4 DEF Overruns, Reaches

\* Every robot has as much of its plan as it may have.
FullyDispatchedIn(d) ==
  \A r \in Known(d) :
    d.latest_enqueued[r] = LastIndex(batch[r]) \/ ~MayEnqueueAfter(d, r, d.latest_enqueued[r])

\* What a dispatch from d gives to r: behind what it has, the next waypoints
\* up to one it reaches, or nothing when it has no plan.
Gets(d, r) ==
  IF r \in Known(d)
  THEN /\ dm'.latest_enqueued[r] \in d.latest_enqueued[r] .. LastIndex(batch[r])
       /\ Reaches(d, r, dm'.latest_enqueued[r])
       /\ \/ dm'.latest_enqueued[r] = LastIndex(batch[r])
          \/ ~MayEnqueueAfter(d, r, dm'.latest_enqueued[r])
       /\ pending'[r] = pending[r] \o
            [n \in 1 .. dm'.latest_enqueued[r] - d.latest_enqueued[r] |->
               [ index |-> d.latest_enqueued[r] + n,
                 name |-> WaypointAt(batch[r], d.latest_enqueued[r] + n).name ]]
  ELSE /\ dm'.latest_enqueued[r] = d.latest_enqueued[r]
       /\ pending'[r] = pending[r]

\* What _dispatch_unblocked does from a manager whose plans are installed:
\* nothing overruns, and each robot with a plan gets, behind what it has, the
\* next waypoints up to one it reaches.
LEMMA Dispatch ==
  ASSUME NEW STATE d, ManagerType(d), BatchAssumption(batch),
         pending \in [Robots -> Seq([index : Nat, name : Locations])],
         \A r \in Robots : Installed(d, r),
         DispatchUnblocked(d)
  PROVE  /\ ManagerType(dm')
         /\ dm' = [d EXCEPT !.latest_enqueued = dm'.latest_enqueued]
         /\ alive' = TRUE
         /\ pending' \in [Robots -> Seq([index : Nat, name : Locations])]
         /\ \A r \in Robots : Gets(d, r)
<1>1. \A r \in Robots : batch[r] \in Plan
  BY DEF BatchAssumption
<1>2. \A r \in Known(d) : r \in Robots /\ d.plan[r] = batch[r]
  BY ManagerIs DEF Installed
<1>3. OverrunAt(d) = {}
  <2> SUFFICES ASSUME NEW n \in DOMAIN d.robots PROVE ~Overruns(d, d.robots[n])
    BY DEF OverrunAt
  <2>1. d.robots[n] \in Known(d)
    BY DEF Known
  <2> QED BY <1>1, <1>2, <2>1, NoOverrun DEF Installed
<1>4. {d.robots[n] : n \in Turns(d)} = Known(d)
  BY <1>3 DEF Turns, Known
<1>5. {d.robots[n] : n \in Turns(d) \ OverrunAt(d)} = Known(d)
  BY <1>3, <1>4
<1>6. /\ dm' = [d EXCEPT !.latest_enqueued =
                  [r \in Robots |-> IF r \in Known(d) THEN Advanced(d, r)
                                    ELSE d.latest_enqueued[r]]]
      /\ pending' = [r \in Robots |-> IF r \in Known(d) THEN pending[r] \o Released(d, r)
                                      ELSE pending[r]]
      /\ alive' = TRUE
  BY <1>3, <1>4, <1>5 DEF DispatchUnblocked
<1>7. \A r \in Robots : dm'.latest_enqueued[r] =
          IF r \in Known(d) THEN Advanced(d, r) ELSE d.latest_enqueued[r]
  BY <1>6 DEF ManagerType
<1>8. \A r \in Known(d) :
        /\ Advanced(d, r) \in d.latest_enqueued[r] .. LastIndex(batch[r])
        /\ Reaches(d, r, Advanced(d, r))
        /\ Advanced(d, r) = LastIndex(batch[r]) \/ ~MayEnqueueAfter(d, r, Advanced(d, r))
  BY <1>1, <1>2, AdvancedReaches DEF Installed
<1>9. \A r \in Known(d) :
        /\ d.latest_enqueued[r] \in Nat
        /\ LastIndex(batch[r]) \in Nat
        /\ Advanced(d, r) \in Nat
  <2> TAKE r \in Known(d)
  <2>1. r \in Robots /\ batch[r] \in Plan
    BY <1>1, <1>2
  <2>2. d.latest_enqueued[r] \in Nat
    BY <2>1, ManagerIs
  <2>3. LastIndex(batch[r]) \in Nat
    BY <2>1, PlanFields
  <2> QED BY <1>8, <2>2, <2>3
<1>10. \A r \in Known(d) :
         Released(d, r) = [n \in 1 .. Advanced(d, r) - d.latest_enqueued[r] |->
                             [ index |-> d.latest_enqueued[r] + n,
                               name |-> WaypointAt(batch[r], d.latest_enqueued[r] + n).name ]]
  BY <1>2 DEF Released
<1>11. \A r \in Known(d) : Released(d, r) \in Seq([index : Nat, name : Locations])
  <2> TAKE r \in Known(d)
  <2>1. \A k \in 0 .. LastIndex(batch[r]) : WaypointAt(batch[r], k).name \in Locations
    BY <1>1, <1>2, PlanFields
  <2>2. \A n \in 1 .. Advanced(d, r) - d.latest_enqueued[r] :
          /\ d.latest_enqueued[r] + n \in Nat
          /\ d.latest_enqueued[r] + n \in 0 .. LastIndex(batch[r])
    BY <1>8, <1>9
  <2>3. [n \in 1 .. Advanced(d, r) - d.latest_enqueued[r] |->
           [ index |-> d.latest_enqueued[r] + n,
             name |-> WaypointAt(batch[r], d.latest_enqueued[r] + n).name ]]
          \in [1 .. Advanced(d, r) - d.latest_enqueued[r] -> [index : Nat, name : Locations]]
    BY <2>1, <2>2
  <2>4. Advanced(d, r) - d.latest_enqueued[r] \in Nat
    BY <1>8, <1>9
  <2> QED BY <1>10, <2>3, <2>4, FunctionIsSeq
<1>12. ManagerType(dm')
  <2>1. [r \in Robots |-> IF r \in Known(d) THEN Advanced(d, r)
                          ELSE d.latest_enqueued[r]] \in [Robots -> Nat]
    BY <1>9 DEF ManagerType
  <2> QED BY <1>6, <2>1 DEF ManagerType
<1>13. pending' \in [Robots -> Seq([index : Nat, name : Locations])]
  <2> DEFINE S == Seq([index : Nat, name : Locations])
  <2>1. \A x, y \in S : x \o y \in S
    OBVIOUS
  <2>2. \A r \in Robots : (IF r \in Known(d) THEN pending[r] \o Released(d, r)
                                            ELSE pending[r]) \in S
    BY <1>11, <2>1
  <2> QED BY <1>6, <2>2
<1>14. dm' = [d EXCEPT !.latest_enqueued = dm'.latest_enqueued]
  BY <1>6 DEF ManagerType
<1>15. ASSUME NEW r \in Known(d)
       PROVE  pending'[r] = pending[r] \o
                [n \in 1 .. dm'.latest_enqueued[r] - d.latest_enqueued[r] |->
                   [ index |-> d.latest_enqueued[r] + n,
                     name |-> WaypointAt(batch[r], d.latest_enqueued[r] + n).name ]]
  BY <1>2, <1>6, <1>7, <1>10
<1>16. \A r \in Robots : Gets(d, r)
  BY <1>2, <1>6, <1>7, <1>8, <1>15 DEF Gets
<1> QED BY <1>6, <1>12, <1>13, <1>14, <1>16

\* A satisfied blocker that waits for i to be past a says that it is.
LEMMA BlockerPassed ==
  ASSUME NEW STATE d, ManagerType(d), BatchAssumption(batch), CompletedAtEndIn(d),
         NEW i \in Robots, NEW j \in Robots,
         Installed(d, i), d.current_waypoint[i] <= d.latest_enqueued[i],
         NEW a \in Indices(batch[i]), NEW k \in Indices(batch[j]),
         NEW b \in WaypointAt(batch[j], k).departure_blockers,
         b.name = i, b.plan_id = batch[i].plan_id,
         b.required_progress > WaypointAt(batch[i], a).progress,
         Satisfied(d, b)
  PROVE  d.current_waypoint[i] > a
<1> DEFINE cur == d.current_waypoint[i]
           last == LastIndex(batch[i])
           Progress(n) == WaypointAt(batch[i], n).progress
<1>1. batch[i] \in Plan /\ batch[j] \in Plan /\ ProgressIncreases(batch[i])
  BY DEF BatchAssumption
<1>2. /\ last \in Nat
      /\ Indices(batch[i]) = 0 .. last
      /\ \A n \in 0 .. last : Progress(n) \in Int
  BY <1>1, PlanFields
<1>3. cur \in 0 .. last
  BY <1>2, ManagerIs DEF Installed
<1>4. b.required_progress \in Int
  <2>1. WaypointAt(batch[j], k) \in Waypoint
    BY <1>1, PlanFields
  <2>2. b \in TrafficDependency
    BY <2>1 DEF Waypoint
  <2> QED BY <2>2 DEF TrafficDependency
<1>5. \A n \in 0 .. last : Progress(n) > Progress(a) => n > a
  BY <1>1, <1>2 DEF ProgressIncreases
<1>6. CASE b.plan_id \in d.completed_plan_ids
  <2>1. cur = last
    BY <1>6 DEF CompletedAtEndIn
  <2>2. b.required_progress <= Progress(last)
    <3>1. DOMAIN batch = Robots
      BY DEF BatchAssumption
    <3> QED BY <3>1 DEF BatchAssumption, Attainable
  <2>3. Progress(last) > Progress(a)
    BY <1>2, <1>4, <2>2
  <2> QED BY <1>2, <1>5, <2>1, <2>3
<1>7. CASE b.plan_id \notin d.completed_plan_ids
  <2>1. i \in Known(d) /\ ProgressOf(d, i) >= b.required_progress
    BY <1>7 DEF Satisfied
  <2>2. Progress(cur) >= b.required_progress
    BY <2>1 DEF ProgressOf, Installed
  <2>3. Progress(cur) > Progress(a)
    BY <1>2, <1>3, <1>4, <2>2
  <2> QED BY <1>3, <1>5, <2>3
<1> QED BY <1>6, <1>7

\* What the dispatch at the end of a handler keeps, when it starts from a
\* manager d for which it holds.
LEMMA DispatchKeeps ==
  ASSUME NEW STATE d, ManagerType(d), BatchAssumption(batch), CompletedAtEndIn(d),
         VisitOrderIn(d),
         pending \in [Robots -> Seq([index : Nat, name : Locations])],
         \A r \in Robots : Installed(d, r) /\ InOrder(d, r),
         DispatchUnblocked(d), UNCHANGED <<at, batch, delivered>>
  PROVE  /\ PlansInstalled'
         /\ PendingInOrder'
         /\ CompletedAtEnd'
         /\ VisitOrder'
         /\ \A r \in Robots : Position(dm, r)' = Position(d, r) /\ Holds(r) \subseteq Holds(r)'
<1> DEFINE e(r) == d.latest_enqueued[r]
           f(r) == dm'.latest_enqueued[r]
<1>1. /\ dm' = [d EXCEPT !.latest_enqueued = dm'.latest_enqueued]
      /\ ManagerType(dm')
      /\ pending' \in [Robots -> Seq([index : Nat, name : Locations])]
      /\ \A r \in Robots : Gets(d, r)
  BY Dispatch
<1>2. /\ dm'.robots = d.robots
      /\ dm'.plan = d.plan
      /\ dm'.current_waypoint = d.current_waypoint
      /\ dm'.completed_plan_ids = d.completed_plan_ids
      /\ dm'.cut_indices = d.cut_indices
      /\ Known(dm') = Known(d)
  <2>1. /\ dm'.robots = d.robots
        /\ dm'.plan = d.plan
        /\ dm'.current_waypoint = d.current_waypoint
        /\ dm'.completed_plan_ids = d.completed_plan_ids
        /\ dm'.cut_indices = d.cut_indices
    BY <1>1 DEF ManagerType
  <2> QED BY <2>1 DEF Known
<1>3. \A r \in Robots : batch[r] \in Plan /\ LastIndex(batch[r]) \in Nat
  BY PlanFields DEF BatchAssumption
<1>4. \A r \in Robots : e(r) \in Nat /\ f(r) \in Nat /\ d.current_waypoint[r] \in Nat
  BY <1>1, ManagerIs
<1>5. \A r \in Robots : e(r) <= f(r) /\ f(r) <= LastIndex(batch[r])
                        /\ (r \notin Known(d) => f(r) = e(r))
  <2> TAKE r \in Robots
  <2>1. e(r) <= LastIndex(batch[r])
    BY DEF Installed
  <2> QED BY <1>1, <1>3, <1>4, <2>1 DEF Gets
<1>6. PlansInstalled'
  BY <1>2, <1>4, <1>5 DEF PlansInstalled, Installed
<1>7. CompletedAtEnd'
  BY <1>2 DEF CompletedAtEnd, CompletedAtEndIn
<1>8. ASSUME NEW r \in Robots
      PROVE  /\ Len(pending'[r]) = Len(pending[r]) + (f(r) - e(r))
             /\ \A n \in 1 .. Len(pending'[r]) :
                  pending'[r][n] = IF n <= Len(pending[r]) THEN pending[r][n]
                    ELSE [index |-> e(r) + (n - Len(pending[r])),
                          name |-> WaypointAt(batch[r], e(r) + (n - Len(pending[r]))).name]
  <2>1. CASE r \notin Known(d)
    <3>1. pending'[r] = pending[r] /\ f(r) = e(r)
      BY <1>1, <2>1 DEF Gets
    <3>2. Len(pending[r]) \in Nat
      BY LenProperties
    <3> QED BY <1>4, <3>1, <3>2
  <2>2. CASE r \in Known(d)
    <3> DEFINE more == [n \in 1 .. f(r) - e(r) |->
                          [index |-> e(r) + n, name |-> WaypointAt(batch[r], e(r) + n).name]]
               S == {more[n] : n \in 1 .. f(r) - e(r)}
                      \cup {pending[r][n] : n \in DOMAIN pending[r]}
    <3>1. pending'[r] = pending[r] \o more
      BY <1>1, <2>2 DEF Gets
    <3>2. more \in Seq(S) /\ Len(more) = f(r) - e(r)
      <4>1. f(r) - e(r) \in Nat /\ more \in [1 .. f(r) - e(r) -> S]
        BY <1>4, <1>5
      <4> HIDE DEF more, S
      <4> QED BY <4>1, FunctionIsSeq
    <3>3. pending[r] \in Seq(S)
      BY LenProperties, FunctionIsSeq
    <3>4. /\ Len(pending'[r]) = Len(pending[r]) + (f(r) - e(r))
          /\ \A n \in 1 .. Len(pending'[r]) :
               pending'[r][n] = IF n <= Len(pending[r]) THEN pending[r][n]
                                                        ELSE more[n - Len(pending[r])]
      <4> HIDE DEF more, S
      <4>1. /\ Len(pending[r] \o more) = Len(pending[r]) + Len(more)
            /\ \A n \in 1 .. Len(pending[r]) + Len(more) :
                 (pending[r] \o more)[n] = IF n <= Len(pending[r]) THEN pending[r][n]
                                           ELSE more[n - Len(pending[r])]
        BY <3>2, <3>3, ConcatProperties
      <4> QED BY <3>1, <3>2, <4>1
    <3>5. \A n \in 1 .. f(r) - e(r) :
            more[n] = [index |-> e(r) + n, name |-> WaypointAt(batch[r], e(r) + n).name]
      OBVIOUS
    <3>6. \A n \in 1 .. Len(pending'[r]) :
            ~(n <= Len(pending[r])) => n - Len(pending[r]) \in 1 .. f(r) - e(r)
      <4>1. Len(pending[r]) \in Nat
        BY LenProperties
      <4> QED BY <1>4, <1>5, <3>4, <4>1
    <3> HIDE DEF more
    <3> QED BY <3>4, <3>5, <3>6
  <2> QED BY <2>1, <2>2
<1>9. \A r \in Robots : Position(dm, r)' = Position(d, r)
  BY <1>4, <1>8, LenProperties DEF Position
<1>10. PendingInOrder'
  <2> SUFFICES ASSUME NEW r \in Robots PROVE InOrder(dm, r)'
    BY DEF PendingInOrder
  <2>1. /\ d.current_waypoint[r] <= Position(d, r)
        /\ at[r] = WaypointAt(batch[r], Position(d, r)).name
    BY DEF InOrder
  <2>2. ASSUME NEW n \in DOMAIN pending'[r]
        PROVE  pending'[r][n] =
                 [index |-> Position(d, r) + n,
                  name |-> WaypointAt(batch[r], Position(d, r) + n).name]
    <3>1. DOMAIN pending'[r] = 1 .. Len(pending'[r]) /\ DOMAIN pending[r] = 1 .. Len(pending[r])
          /\ Len(pending[r]) \in Nat
      BY <1>1, LenProperties
    <3>2. CASE n <= Len(pending[r])
      <4>1. n \in DOMAIN pending[r] /\ n \in 1 .. Len(pending'[r])
        BY <3>1, <3>2
      <4>2. pending'[r][n] = pending[r][n]
        BY <1>8, <3>2, <4>1
      <4> QED BY <4>1, <4>2 DEF InOrder
    <3>3. CASE ~(n <= Len(pending[r]))
      <4>1. e(r) + (n - Len(pending[r])) = Position(d, r) + n
        BY <1>4, <3>1 DEF Position
      <4> QED BY <1>8, <3>1, <3>3, <4>1
    <3> QED BY <3>2, <3>3
  <2> QED BY <1>2, <1>9, <2>1, <2>2 DEF InOrder
<1>11. VisitOrder'
  <2> SUFFICES ASSUME NEW i \in Robots, NEW j \in Robots, i # j,
                      NEW a \in Indices(batch[i]), NEW b \in Indices(batch[j]),
                      Precedes(batch, i, a, j, b), b <= f(j)
               PROVE  d.current_waypoint[i] > a
    BY <1>2 DEF VisitOrder, VisitOrderIn
  <2>1. PICK k \in 0 .. b - 1 : \E x \in WaypointAt(batch[j], k).departure_blockers :
          /\ x.name = i
          /\ x.plan_id = batch[i].plan_id
          /\ x.required_progress > WaypointAt(batch[i], a).progress
    BY DEF Precedes
  <2>2. PICK x \in WaypointAt(batch[j], k).departure_blockers :
          /\ x.name = i
          /\ x.plan_id = batch[i].plan_id
          /\ x.required_progress > WaypointAt(batch[i], a).progress
    BY <2>1
  <2>3. b \in 0 .. LastIndex(batch[j]) /\ k \in Indices(batch[j]) /\ k + 1 \in Indices(batch[j])
    BY <1>3, PlanFields
  <2>4. CASE k + 1 <= e(j)
    <3>1. Precedes(batch, i, a, j, k + 1)
      BY <2>2, <2>3, <1>3 DEF Precedes
    <3> QED BY <2>3, <2>4, <3>1 DEF VisitOrderIn
  <2>5. CASE ~(k + 1 <= e(j))
    <3>1. k \in e(j) .. f(j) - 1
      BY <1>3, <1>4, <2>3, <2>5
    <3>2. j \in Known(d)
      BY <1>4, <1>5, <3>1
    <3>3. MayEnqueueAfter(d, j, k)
      BY <1>1, <3>1, <3>2 DEF Gets, Reaches
    <3>4. Satisfied(d, x)
      BY <2>2, <3>2, <3>3 DEF MayEnqueueAfter, AllBlockersSatisfied, Blockers, Installed
    <3>5. d.current_waypoint[i] <= e(i)
      BY <1>4, LenProperties DEF InOrder, Position
    <3> QED BY <2>2, <2>3, <3>4, <3>5, BlockerPassed
  <2> QED BY <2>4, <2>5
<1>12. ASSUME NEW r \in Robots PROVE Holds(r) \subseteq Holds(r)'
  <2>1. /\ DOMAIN pending[r] = 1 .. Len(pending[r]) /\ Len(pending[r]) \in Nat
        /\ DOMAIN pending'[r] = 1 .. Len(pending'[r])
    BY <1>1, LenProperties
  <2>2. \A n \in DOMAIN pending[r] : n \in DOMAIN pending'[r] /\ pending'[r][n] = pending[r][n]
    <3> TAKE n \in DOMAIN pending[r]
    <3>1. n \in 1 .. Len(pending[r]) /\ n <= Len(pending[r])
      BY <2>1
    <3>2. Len(pending[r]) <= Len(pending'[r])
      <4>1. e(r) <= f(r) /\ e(r) \in Nat /\ f(r) \in Nat
        BY <1>4, <1>5
      <4>2. Len(pending'[r]) = Len(pending[r]) + (f(r) - e(r))
        BY <1>8
      <4> QED BY <2>1, <4>1, <4>2
    <3>3. n \in 1 .. Len(pending'[r])
      BY <1>1, <2>1, <3>1, <3>2, LenProperties
    <3> QED BY <1>8, <2>1, <3>1, <3>3
  <2> QED BY <2>2 DEF Holds
<1> QED BY <1>6, <1>7, <1>9, <1>10, <1>11, <1>12

-----------------------------------------------------------------------------
(* IInv holds initially and is kept by every step.                         *)

\* A message joins the queue, or its head leaves it.
LEMMA QueueGrows ==
  ASSUME message_queue \in Seq(Messages), NEW m \in Messages,
         message_queue' = Append(message_queue, m)
  PROVE  /\ message_queue' \in Seq(Messages)
         /\ DOMAIN message_queue = 1 .. Len(message_queue)
         /\ Len(message_queue) \in Nat
         /\ DOMAIN message_queue' = 1 .. Len(message_queue) + 1
         /\ message_queue'[Len(message_queue) + 1] = m
         /\ \A n \in 1 .. Len(message_queue) : message_queue'[n] = message_queue[n]
BY AppendProperties, LenProperties

LEMMA QueueShrinks ==
  ASSUME message_queue \in Seq(Messages), message_queue # <<>>,
         message_queue' = Tail(message_queue)
  PROVE  /\ message_queue' \in Seq(Messages)
         /\ DOMAIN message_queue = 1 .. Len(message_queue)
         /\ Len(message_queue) \in Nat \ {0}
         /\ DOMAIN message_queue' = 1 .. Len(message_queue) - 1
         /\ \A n \in 1 .. Len(message_queue) - 1 : message_queue'[n] = message_queue[n + 1]
         /\ Head(message_queue) = message_queue[1]
         /\ Head(message_queue) \in Messages
BY HeadTailProperties, LenProperties, EmptySeq, ElementOfSeq

LEMMA ReportedIndex ==
  ASSUME message_queue \in Seq(Messages), NEW r \in Robots,
         NEW n \in DOMAIN message_queue, Reached(n, r)
  PROVE  message_queue[n].index \in Nat
<1>1. message_queue[n] \in Messages
  BY ElementOfSeq, LenProperties
<1> QED BY <1>1 DEF Messages, Reached

\* The robots have no plan, no waypoint and no message to begin with.
LEMMA Initially == Init => IInv
<1> SUFFICES ASSUME Init PROVE IInv
  OBVIOUS
<1>1. BatchAssumption(batch) /\ \A r \in Robots : batch[r] \in Plan
  BY BatchesAssumption DEF Init, BatchAssumption
<1>2. /\ dm.robots = <<>>
      /\ dm.plan = [r \in Robots |-> NoPlan]
      /\ dm.current_waypoint = [r \in Robots |-> 0]
      /\ dm.latest_enqueued = [r \in Robots |-> 0]
      /\ dm.completed_plan_ids = {}
      /\ dm.cut_indices = <<>>
      /\ message_queue = <<>>
      /\ alive = TRUE
      /\ pending = [r \in Robots |-> <<>>]
      /\ at = [r \in Robots |-> WaypointAt(batch[r], 0).name]
      /\ delivered = {}
      /\ requests = 0
  BY DEF Init, ExecutorInit, EmptyManager
<1>3. Known(dm) = {} /\ DOMAIN dm.cut_indices = {} /\ DOMAIN message_queue = {}
  BY <1>2 DEF Known
<1>4. \A r \in Robots : LastIndex(batch[r]) \in Nat /\ WaypointAt(batch[r], 0).name \in Locations
  <2> TAKE r \in Robots
  <2>1. /\ LastIndex(batch[r]) \in Nat
        /\ \A k \in 0 .. LastIndex(batch[r]) : WaypointAt(batch[r], k).name \in Locations
    BY <1>1, PlanFields
  <2>2. 0 \in 0 .. LastIndex(batch[r])
    BY <2>1
  <2> QED BY <2>1, <2>2
<1>5. TypeOK
  <2>1. ManagerType(dm)
    <3>1. dm.cut_indices \in [DOMAIN dm.cut_indices -> Nat]
      BY <1>2, <1>3
    <3> QED BY <1>2, <1>3, <3>1 DEF Init, ExecutorInit, EmptyManager, ManagerType
  <2>2. at \in [Robots -> Locations] /\ batch \in [Robots -> Plan]
    BY <1>1, <1>2, <1>4 DEF BatchAssumption
  <2>3. requests \in 0 .. MaxRequests
    BY <1>2, MaxRequestsAssumption
  <2>4. pending \in [Robots -> Seq([index : Nat, name : Locations])]
    BY <1>2
  <2> QED BY <1>2, <2>1, <2>2, <2>3, <2>4 DEF TypeOK
<1>6. PlansInstalled
  <2> SUFFICES ASSUME NEW r \in Robots PROVE Installed(dm, r)
    BY DEF PlansInstalled
  <2>1. dm.plan[r] = NoPlan /\ dm.current_waypoint[r] = 0 /\ dm.latest_enqueued[r] = 0
    BY <1>2
  <2>2. 0 <= LastIndex(batch[r])
    BY <1>4
  <2> QED BY <1>3, <2>1, <2>2 DEF Installed
<1>7. PlansQueued /\ ReportsInOrder
  BY <1>3 DEF PlansQueued, ReportsInOrder
<1>8. ASSUME NEW r \in Robots
      PROVE  /\ dm.current_waypoint[r] = 0
             /\ Position(dm, r) = 0
             /\ DOMAIN pending[r] = {}
             /\ at[r] = WaypointAt(batch[r], 0).name
  <2>1. /\ dm.current_waypoint[r] = 0
        /\ dm.latest_enqueued[r] = 0
        /\ pending[r] = <<>>
        /\ at[r] = WaypointAt(batch[r], 0).name
    BY <1>2
  <2>2. Len(pending[r]) = 0 /\ DOMAIN pending[r] = {}
    BY <2>1
  <2>3. Position(dm, r) = 0 - 0
    BY <2>1, <2>2, Zenon DEF Position
  <2> QED BY <2>1, <2>2, <2>3
<1>9. PendingInOrder
  <2> SUFFICES ASSUME NEW r \in Robots PROVE InOrder(dm, r)
    BY DEF PendingInOrder
  <2> QED BY <1>8 DEF InOrder
<1>10. CompletedAtEnd
  BY <1>2 DEF CompletedAtEnd, CompletedAtEndIn
<1>11. VisitOrder
  <2> SUFFICES ASSUME NEW i \in Robots, NEW j \in Robots, i # j,
                      NEW a \in Indices(batch[i]), NEW b \in Indices(batch[j]),
                      Precedes(batch, i, a, j, b), b <= dm.latest_enqueued[j]
               PROVE  FALSE
    BY DEF VisitOrder, VisitOrderIn
  <2>1. b \in Nat /\ b <= 0
    BY <1>1, <1>2, PlanFields
  <2>2. PICK k \in 0 .. b - 1 : TRUE
    BY DEF Precedes
  <2> QED BY <2>1, <2>2
<1> QED BY <1>1, <1>5, <1>6, <1>7, <1>9, <1>10, <1>11 DEF IInv

\* The delivery of a plan.
LEMMA DeliverPlanKeeps ==
  ASSUME IInv, NEW r \in Robots, DeliverPlan(r)
  PROVE  IInv'
<1> USE DEF DeliverPlan, OnPlan
<1>1. PlanMessage(r, batch[r]) \in Messages
  BY DEF PlanMessage, Messages, IInv, TypeOK
<1>2. /\ message_queue' \in Seq(Messages)
      /\ DOMAIN message_queue = 1 .. Len(message_queue)
      /\ Len(message_queue) \in Nat
      /\ DOMAIN message_queue' = 1 .. Len(message_queue) + 1
      /\ message_queue'[Len(message_queue) + 1] = PlanMessage(r, batch[r])
      /\ \A n \in 1 .. Len(message_queue) : message_queue'[n] = message_queue[n]
  BY <1>1, QueueGrows DEF IInv, TypeOK
<1>3. TypeOK'
  BY <1>2 DEF IInv, TypeOK, ManagerType
<1>4. PlansInstalled'
  BY DEF IInv, PlansInstalled, Installed
<1>5. PlansQueued'
  BY <1>2 DEF IInv, PlansQueued, PlansInstalled, Installed, PlanMessage
<1>6. PendingInOrder'
  BY DEF IInv, PendingInOrder, InOrder, Position
<1>7. ReportsInOrder'
  BY <1>2 DEF IInv, ReportsInOrder, Reached, PlanMessage, Position
<1>8. CompletedAtEnd' /\ VisitOrder' /\ BatchAssumption(batch)'
  BY DEF IInv, CompletedAtEnd, CompletedAtEndIn, VisitOrder, VisitOrderIn
<1> QED BY <1>3, <1>4, <1>5, <1>6, <1>7, <1>8 DEF IInv

\* The delivery of a request.
LEMMA DeliverRequestKeeps ==
  ASSUME IInv, DeliverRequest
  PROVE  IInv'
<1> USE DEF DeliverRequest, OnCommittedLocationsRequest
<1>1. RequestMessage(requests') \in Messages
  BY DEF RequestMessage, Messages, IInv, TypeOK
<1>2. /\ message_queue' \in Seq(Messages)
      /\ DOMAIN message_queue = 1 .. Len(message_queue)
      /\ Len(message_queue) \in Nat
      /\ DOMAIN message_queue' = 1 .. Len(message_queue) + 1
      /\ message_queue'[Len(message_queue) + 1] = RequestMessage(requests')
      /\ \A n \in 1 .. Len(message_queue) : message_queue'[n] = message_queue[n]
  BY <1>1, QueueGrows DEF IInv, TypeOK
<1>3. TypeOK'
  <2>1. ManagerType(dm)'
    BY DEF IInv, TypeOK, ManagerType
  <2>2. requests' \in 0 .. MaxRequests
    <3>1. requests \in 0 .. MaxRequests /\ requests < MaxRequests /\ requests' = requests + 1
      BY DEF IInv, TypeOK
    <3> QED BY <3>1, MaxRequestsAssumption
  <2> QED BY <1>2, <2>1, <2>2 DEF IInv, TypeOK
<1>4. PlansInstalled' /\ PendingInOrder'
  BY DEF IInv, PlansInstalled, Installed, PendingInOrder, InOrder, Position
<1>5. PlansQueued'
  BY <1>2 DEF IInv, PlansQueued, RequestMessage
<1>6. ReportsInOrder'
  BY <1>2 DEF IInv, ReportsInOrder, Reached, RequestMessage, Position
<1>7. CompletedAtEnd' /\ VisitOrder' /\ BatchAssumption(batch)'
  BY DEF IInv, CompletedAtEnd, CompletedAtEndIn, VisitOrder, VisitOrderIn
<1> QED BY <1>3, <1>4, <1>5, <1>6, <1>7 DEF IInv

\* A robot arrives: its position moves to the waypoint it reports.
LEMMA ArriveKeeps ==
  ASSUME IInv, NEW r \in Robots, RobotArrives(r)
  PROVE  IInv'
<1> DEFINE p == Position(dm, r)
           m == ReachedMessage(r, p + 1)
<1>1. /\ ManagerType(dm)
      /\ pending \in [Robots -> Seq([index : Nat, name : Locations])]
      /\ at \in [Robots -> Locations]
      /\ batch \in [Robots -> Plan]
  BY DEF IInv, TypeOK
<1>2. /\ pending[r] # <<>>
      /\ UNCHANGED <<dm, alive, batch, delivered, requests>>
      /\ pending' = [pending EXCEPT ![r] = Tail(pending[r])]
      /\ at' = [at EXCEPT ![r] = Head(pending[r]).name]
      /\ message_queue' = Append(message_queue, ReachedMessage(r, Head(pending[r]).index))
  BY DEF RobotArrives, Arrive, envVars
<1>3. /\ Len(pending[r]) \in Nat \ {0}
      /\ DOMAIN pending[r] = 1 .. Len(pending[r])
      /\ Head(pending[r]) = pending[r][1]
      /\ Head(pending[r]) \in [index : Nat, name : Locations]
      /\ Tail(pending[r]) \in Seq([index : Nat, name : Locations])
      /\ Len(Tail(pending[r])) = Len(pending[r]) - 1
      /\ DOMAIN Tail(pending[r]) = 1 .. Len(pending[r]) - 1
      /\ \A n \in 1 .. Len(pending[r]) - 1 : Tail(pending[r])[n] = pending[r][n + 1]
  <2>1. pending[r] \in Seq([index : Nat, name : Locations])
    BY <1>1
  <2>2. /\ Head(pending[r]) \in [index : Nat, name : Locations]
        /\ Tail(pending[r]) \in Seq([index : Nat, name : Locations])
        /\ Len(Tail(pending[r])) = Len(pending[r]) - 1
        /\ \A n \in 1 .. Len(Tail(pending[r])) : Tail(pending[r])[n] = pending[r][n + 1]
    BY <1>2, <2>1, HeadTailProperties
  <2>3. /\ Len(pending[r]) \in Nat \ {0}
        /\ DOMAIN pending[r] = 1 .. Len(pending[r])
    BY <1>2, <2>1, LenProperties, EmptySeq
  <2>4. DOMAIN Tail(pending[r]) = 1 .. Len(Tail(pending[r]))
    BY <2>2, LenProperties
  <2>5. Head(pending[r]) = pending[r][1]
    BY <1>2, <2>1
  <2> QED BY <2>2, <2>3, <2>4, <2>5
<1>4. /\ dm.latest_enqueued[r] \in Nat
      /\ dm.current_waypoint[r] \in Nat
      /\ p = dm.latest_enqueued[r] - Len(pending[r])
      /\ p \in Int
  BY <1>1, <1>3, ManagerIs DEF Position
<1>5. InOrder(dm, r)
  BY DEF IInv, PendingInOrder
<1>6. /\ dm.current_waypoint[r] <= p
      /\ Head(pending[r]).index = p + 1
      /\ Head(pending[r]).name = WaypointAt(batch[r], p + 1).name
  <2>1. 1 \in DOMAIN pending[r]
    BY <1>3
  <2>2. pending[r][1] = [index |-> p + 1, name |-> WaypointAt(batch[r], p + 1).name]
    BY <1>5, <2>1 DEF InOrder
  <2> QED BY <1>3, <1>5, <2>2 DEF InOrder
<1>7. m \in Messages /\ message_queue' = Append(message_queue, m)
  <2>1. p + 1 \in Nat
    BY <1>3, <1>6
  <2> QED BY <1>2, <1>6, <2>1 DEF Messages, ReachedMessage
<1>8. /\ message_queue' \in Seq(Messages)
      /\ DOMAIN message_queue = 1 .. Len(message_queue)
      /\ Len(message_queue) \in Nat
      /\ DOMAIN message_queue' = 1 .. Len(message_queue) + 1
      /\ message_queue'[Len(message_queue) + 1] = m
      /\ \A n \in 1 .. Len(message_queue) : message_queue'[n] = message_queue[n]
  BY <1>7, QueueGrows DEF IInv, TypeOK
<1>9. Position(dm, r)' = p + 1
  BY <1>1, <1>2, <1>3, <1>4 DEF Position
<1>10. \A s \in Robots : s # r => Position(dm, s)' = Position(dm, s)
                                  /\ pending'[s] = pending[s] /\ at'[s] = at[s]
  BY <1>1, <1>2 DEF Position
<1>11. TypeOK'
  <2>1. pending' \in [Robots -> Seq([index : Nat, name : Locations])]
    BY <1>1, <1>2, <1>3
  <2>2. at' \in [Robots -> Locations]
    BY <1>1, <1>2, <1>3
  <2>3. ManagerType(dm)'
    BY <1>1, <1>2 DEF ManagerType
  <2> QED BY <1>2, <1>8, <2>1, <2>2, <2>3 DEF IInv, TypeOK
<1>12. PlansInstalled' /\ CompletedAtEnd' /\ VisitOrder' /\ BatchAssumption(batch)'
  BY <1>2 DEF IInv, PlansInstalled, Installed, CompletedAtEnd, CompletedAtEndIn,
              VisitOrder, VisitOrderIn
<1>13. PlansQueued'
  BY <1>2, <1>8 DEF IInv, PlansQueued, ReachedMessage, Known
<1>14. PendingInOrder'
  <2> SUFFICES ASSUME NEW s \in Robots PROVE InOrder(dm, s)'
    BY DEF PendingInOrder
  <2>1. CASE s # r
    BY <1>2, <1>10, <2>1 DEF IInv, PendingInOrder, InOrder
  <2>2. CASE s = r
    <3>1. at'[r] = WaypointAt(batch[r], p + 1).name
      BY <1>1, <1>2, <1>6
    <3>2. pending'[r] = Tail(pending[r])
      BY <1>1, <1>2
    <3>3. ASSUME NEW n \in 1 .. Len(pending[r]) - 1
          PROVE  pending'[r][n] = [index |-> (p + 1) + n,
                                   name |-> WaypointAt(batch[r], (p + 1) + n).name]
      <4>1. n + 1 \in DOMAIN pending[r]
        BY <1>3
      <4>2. pending[r][n + 1] = [index |-> p + (n + 1),
                                 name |-> WaypointAt(batch[r], p + (n + 1)).name]
        BY <1>5, <4>1 DEF InOrder
      <4>3. p + (n + 1) = (p + 1) + n
        BY <1>4
      <4> QED BY <1>3, <3>2, <4>2, <4>3
    <3>4. dm'.current_waypoint[r] <= p + 1
      BY <1>2, <1>4, <1>6
    <3> QED BY <1>2, <1>3, <1>9, <2>2, <3>1, <3>2, <3>3, <3>4 DEF InOrder
  <2> QED BY <2>1, <2>2
<1>15. ReportsInOrder'
  <2> SUFFICES ASSUME NEW s \in Robots, NEW n \in DOMAIN message_queue', Reached(n, s)'
               PROVE  /\ dm'.current_waypoint[s] < message_queue'[n].index
                      /\ message_queue'[n].index <= Position(dm, s)'
                      /\ \A k \in 1 .. n - 1 :
                           Reached(k, s)' => message_queue'[k].index < message_queue'[n].index
    BY DEF ReportsInOrder
  <2>1. CASE n \in DOMAIN message_queue
    <3>1. /\ message_queue'[n] = message_queue[n]
          /\ \A k \in 1 .. n - 1 : message_queue'[k] = message_queue[k]
      BY <1>8, <2>1
    <3>2. /\ dm.current_waypoint[s] < message_queue[n].index
          /\ message_queue[n].index <= Position(dm, s)
          /\ \A k \in 1 .. n - 1 :
               Reached(k, s) => message_queue[k].index < message_queue[n].index
      BY <2>1, <3>1 DEF IInv, ReportsInOrder, Reached
    <3>3. message_queue[n].index <= Position(dm, s)'
      <4>1. CASE s = r
        <5>1. message_queue[n].index \in Nat
          BY <2>1, <3>1, ReportedIndex DEF IInv, TypeOK, Reached
        <5> QED BY <1>4, <1>9, <3>2, <4>1, <5>1
      <4> QED BY <1>10, <3>2, <4>1
    <3> QED BY <1>2, <3>1, <3>2, <3>3 DEF Reached
  <2>2. CASE n = Len(message_queue) + 1
    <3>1. s = r /\ message_queue'[n].index = p + 1
      BY <1>8, <2>2 DEF Reached, ReachedMessage
    <3>2. ASSUME NEW k \in 1 .. n - 1, Reached(k, s)'
          PROVE  message_queue'[k].index < p + 1
      <4>1. k \in DOMAIN message_queue /\ message_queue'[k] = message_queue[k]
        BY <1>8, <2>2
      <4>2. message_queue[k].index <= p
        BY <3>1, <3>2, <4>1 DEF IInv, ReportsInOrder, Reached
      <4>3. message_queue[k].index \in Nat
        BY <3>2, <4>1, ReportedIndex DEF IInv, TypeOK, Reached
      <4> QED BY <1>4, <4>1, <4>2, <4>3
    <3>3. /\ dm'.current_waypoint[r] < p + 1
          /\ Position(dm, s)' = p + 1
      BY <1>2, <1>4, <1>6, <1>9, <3>1
    <3>4. p + 1 <= p + 1
      BY <1>4
    <3> QED BY <3>1, <3>2, <3>3, <3>4
  <2> QED BY <1>8, <2>1, <2>2
<1> QED BY <1>11, <1>12, <1>13, <1>14, <1>15 DEF IInv

\* What IInv says of a manager and of the queue behind the message that is
\* being handled.
Coherent(d) ==
  /\ ManagerType(d)
  /\ CompletedAtEndIn(d)
  /\ VisitOrderIn(d)
  /\ \A r \in Robots : Installed(d, r) /\ InOrder(d, r)

RestAgrees(d) ==
  \A n \in 2 .. Len(message_queue) :
    /\ message_queue[n].type = "plan" => message_queue[n].robot \notin Known(d)
    /\ \A r \in Robots : Reached(n, r) =>
         /\ d.current_waypoint[r] < message_queue[n].index
         /\ message_queue[n].index <= Position(d, r)

\* The queue's part of IInv after its head has been handled.
LEMMA QueueKeeps ==
  ASSUME IInv, NEW STATE d, RestAgrees(d),
         message_queue # <<>>, message_queue' = Tail(message_queue),
         UNCHANGED <<batch, delivered>>,
         Known(dm)' = Known(d),
         dm'.current_waypoint = d.current_waypoint,
         \A r \in Robots : Position(dm, r)' = Position(d, r)
  PROVE  PlansQueued' /\ ReportsInOrder'
<1>1. /\ DOMAIN message_queue = 1 .. Len(message_queue)
      /\ Len(message_queue) \in Nat \ {0}
      /\ DOMAIN message_queue' = 1 .. Len(message_queue) - 1
      /\ \A n \in 1 .. Len(message_queue) - 1 : message_queue'[n] = message_queue[n + 1]
  BY QueueShrinks DEF IInv, TypeOK
<1>2. \A n \in DOMAIN message_queue' :
        /\ n + 1 \in 2 .. Len(message_queue)
        /\ n + 1 \in DOMAIN message_queue
        /\ message_queue'[n] = message_queue[n + 1]
  BY <1>1
<1>3. PlansQueued'
  <2> SUFFICES ASSUME NEW n \in DOMAIN message_queue', message_queue'[n].type = "plan"
               PROVE  /\ message_queue'[n].plan = batch[message_queue'[n].robot]
                      /\ message_queue'[n].robot \in delivered
                      /\ message_queue'[n].robot \notin Known(d)
                      /\ \A m \in DOMAIN message_queue' :
                           /\ message_queue'[m].type = "plan"
                           /\ message_queue'[m].robot = message_queue'[n].robot
                           => m = n
    BY DEF PlansQueued
  <2>1. message_queue'[n].robot \notin Known(d)
    BY <1>2 DEF RestAgrees
  <2>2. /\ message_queue'[n].plan = batch[message_queue'[n].robot]
        /\ message_queue'[n].robot \in delivered
    BY <1>2 DEF IInv, PlansQueued
  <2>3. ASSUME NEW m \in DOMAIN message_queue', message_queue'[m].type = "plan",
               message_queue'[m].robot = message_queue'[n].robot
        PROVE  m = n
    <3>1. m + 1 = n + 1
      BY <1>2, <2>3 DEF IInv, PlansQueued
    <3> QED BY <1>1, <3>1
  <2> QED BY <2>1, <2>2, <2>3
<1>4. ReportsInOrder'
  <2> SUFFICES ASSUME NEW r \in Robots, NEW n \in DOMAIN message_queue', Reached(n, r)'
               PROVE  /\ d.current_waypoint[r] < message_queue'[n].index
                      /\ message_queue'[n].index <= Position(d, r)
                      /\ \A m \in 1 .. n - 1 :
                           Reached(m, r)' => message_queue'[m].index < message_queue'[n].index
    BY DEF ReportsInOrder
  <2>1. Reached(n + 1, r)
    BY <1>2 DEF Reached
  <2>2. /\ d.current_waypoint[r] < message_queue'[n].index
        /\ message_queue'[n].index <= Position(d, r)
    BY <1>2, <2>1 DEF RestAgrees
  <2>3. ASSUME NEW m \in 1 .. n - 1, Reached(m, r)'
        PROVE  message_queue'[m].index < message_queue'[n].index
    <3>1. m \in DOMAIN message_queue' /\ m + 1 \in 1 .. (n + 1) - 1
      BY <1>1
    <3>2. Reached(m + 1, r)
      BY <1>2, <2>3, <3>1 DEF Reached
    <3> QED BY <1>2, <2>1, <3>1, <3>2 DEF IInv, ReportsInOrder
  <2> QED BY <2>2, <2>3
<1> QED BY <1>3, <1>4

\* A handler that ends with a dispatch from a coherent manager keeps IInv.
LEMMA HandlerKeeps ==
  ASSUME IInv, NEW STATE d, Coherent(d), RestAgrees(d),
         message_queue # <<>>, message_queue' = Tail(message_queue),
         DispatchUnblocked(d), UNCHANGED <<at, batch, delivered, requests>>
  PROVE  /\ IInv'
         /\ alive' = TRUE
         /\ dm'.current_waypoint = d.current_waypoint
         /\ Known(dm)' = Known(d)
         /\ dm'.cut_indices = d.cut_indices
         /\ FullyDispatchedIn(dm)'
         /\ \A r \in Robots : Position(dm, r)' = Position(d, r) /\ Holds(r) \subseteq Holds(r)'
<1>1. /\ pending \in [Robots -> Seq([index : Nat, name : Locations])]
      /\ BatchAssumption(batch)
      /\ \A r \in Robots : Installed(d, r)
      /\ ManagerType(d)
  BY DEF IInv, TypeOK, Coherent
<1>2. /\ ManagerType(dm')
      /\ dm' = [d EXCEPT !.latest_enqueued = dm'.latest_enqueued]
      /\ alive' = TRUE
      /\ pending' \in [Robots -> Seq([index : Nat, name : Locations])]
      /\ \A r \in Robots : Gets(d, r)
  BY <1>1, Dispatch
<1>3. /\ PlansInstalled'
      /\ PendingInOrder'
      /\ CompletedAtEnd'
      /\ VisitOrder'
      /\ \A r \in Robots : Position(dm, r)' = Position(d, r) /\ Holds(r) \subseteq Holds(r)'
  BY <1>1, DispatchKeeps DEF Coherent
<1>4. dm'.robots = d.robots /\ dm'.current_waypoint = d.current_waypoint
  BY <1>1, <1>2 DEF ManagerType
<1>5. PlansQueued' /\ ReportsInOrder'
  BY <1>3, <1>4, QueueKeeps DEF Known
<1>6. message_queue' \in Seq(Messages)
  BY QueueShrinks DEF IInv, TypeOK
<1>7. TypeOK'
  BY <1>2, <1>6 DEF IInv, TypeOK, ManagerType
<1>8. BatchAssumption(batch)'
  BY <1>1 DEF BatchAssumption
<1>9. Known(dm)' = Known(d) /\ dm'.cut_indices = d.cut_indices
  BY <1>1, <1>2, <1>4 DEF ManagerType, Known
<1>10. FullyDispatchedIn(dm)'
  <2> SUFFICES ASSUME NEW r \in Known(d), dm'.latest_enqueued[r] # LastIndex(batch[r])
               PROVE  ~MayEnqueueAfter(dm', r, dm'.latest_enqueued[r])
    BY <1>9 DEF FullyDispatchedIn
  <2>1. r \in Robots
    BY <1>1, ManagerIs
  <2>2. ~MayEnqueueAfter(d, r, dm'.latest_enqueued[r])
    BY <1>2, <2>1 DEF Gets
  <2>3. /\ dm'.plan = d.plan
        /\ dm'.completed_plan_ids = d.completed_plan_ids
        /\ dm'.current_waypoint = d.current_waypoint
    BY <1>1, <1>2 DEF ManagerType
  <2>4. \A k : MayEnqueueAfter(dm', r, k) <=> MayEnqueueAfter(d, r, k)
    BY <1>9, <2>3 DEF MayEnqueueAfter, UpperBound, AllBlockersSatisfied, Blockers, Satisfied,
                      ProgressOf, Known
  <2> QED BY <2>2, <2>4
<1> QED BY <1>2, <1>3, <1>4, <1>5, <1>7, <1>8, <1>9, <1>10 DEF IInv

\* Before a message is handled, the manager is coherent.
LEMMA BeforeHandling ==
  ASSUME IInv, message_queue # <<>>
  PROVE  /\ Coherent(dm)
         /\ message_queue \in Seq(Messages)
         /\ 1 \in DOMAIN message_queue
         /\ DOMAIN message_queue = 1 .. Len(message_queue)
         /\ Len(message_queue) \in Nat
         /\ Head(message_queue) = message_queue[1]
         /\ Head(message_queue) \in Messages
<1>1. message_queue \in Seq(Messages)
  BY DEF IInv, TypeOK
<1>2. /\ 1 \in DOMAIN message_queue
      /\ DOMAIN message_queue = 1 .. Len(message_queue)
      /\ Len(message_queue) \in Nat
  BY <1>1, EmptySeq, LenProperties
<1>3. Head(message_queue) = message_queue[1]
  BY <1>1, <1>2
<1>4. message_queue[1] \in Messages
  BY <1>1, <1>2, ElementOfSeq
<1>5. Coherent(dm)
  BY DEF IInv, TypeOK, Coherent, CompletedAtEnd, VisitOrder, PlansInstalled, PendingInOrder
<1> QED BY <1>1, <1>2, <1>3, <1>4, <1>5

\* A plan is handled: the robot has had none, and starts it where it is.
LEMMA HandlePlanKeeps ==
  ASSUME IInv, HandlePlan, UNCHANGED envVars
  PROVE  /\ IInv'
         /\ alive' = TRUE
         /\ dm'.current_waypoint = dm.current_waypoint
         /\ Known(dm)' = Known(dm) \cup {Head(message_queue).robot}
         /\ dm'.cut_indices = dm.cut_indices
         /\ FullyDispatchedIn(dm)'
         /\ \A s \in Robots : Position(dm, s)' = Position(dm, s) /\ Holds(s) \subseteq Holds(s)'
<1> DEFINE r == Head(message_queue).robot
           d == SetPlan(dm, r, batch[r])
<1>1. /\ message_queue # <<>>
      /\ message_queue' = Tail(message_queue)
      /\ Head(message_queue).type = "plan"
      /\ UNCHANGED <<at, batch, delivered, requests>>
  BY DEF HandlePlan, NextMessage, envVars
<1>2. /\ Coherent(dm)
      /\ 1 \in DOMAIN message_queue
      /\ DOMAIN message_queue = 1 .. Len(message_queue)
      /\ Len(message_queue) \in Nat
      /\ Head(message_queue) = message_queue[1]
      /\ Head(message_queue) \in Messages
  BY <1>1, BeforeHandling
<1>3. /\ r \in Robots
      /\ Head(message_queue).plan = batch[r]
      /\ r \in delivered
      /\ r \notin Known(dm)
      /\ \A m \in DOMAIN message_queue :
           message_queue[m].type = "plan" /\ message_queue[m].robot = r => m = 1
  <2>1. r \in Robots
    BY <1>1, <1>2 DEF Messages
  <2> QED BY <1>1, <1>2, <2>1 DEF IInv, PlansQueued
<1>4. DispatchUnblocked(d)
  BY <1>3 DEF HandlePlan
<1>5. ManagerType(dm) /\ batch[r] \in Plan
  BY <1>2, <1>3 DEF Coherent, IInv, BatchAssumption
<1>6. dm.current_waypoint[r] = 0 /\ dm.latest_enqueued[r] = 0 /\ Installed(dm, r)
  BY <1>2, <1>3 DEF Coherent, Installed
<1>7. /\ d.robots = Append(dm.robots, r)
      /\ d.plan = [dm.plan EXCEPT ![r] = batch[r]]
      /\ d.current_waypoint = dm.current_waypoint
      /\ d.latest_enqueued = dm.latest_enqueued
      /\ d.completed_plan_ids = dm.completed_plan_ids
      /\ d.cut_indices = dm.cut_indices
  BY <1>3, <1>5, <1>6 DEF SetPlan, ManagerType
<1>8. Known(d) = Known(dm) \cup {r}
  <2>1. dm.robots \in Seq(Robots)
    BY <1>5, ManagerIs
  <2>2. /\ Len(dm.robots) \in Nat
        /\ DOMAIN dm.robots = 1 .. Len(dm.robots)
        /\ DOMAIN d.robots = 1 .. Len(dm.robots) + 1
        /\ d.robots[Len(dm.robots) + 1] = r
        /\ \A n \in 1 .. Len(dm.robots) : d.robots[n] = dm.robots[n]
    BY <1>3, <1>7, <2>1, AppendProperties, LenProperties
  <2> HIDE DEF d
  <2> QED BY <2>2 DEF Known
<1>9. ManagerType(d)
  <2> DEFINE OptionalPlan == Plan \cup {NoPlan}
  <2>1. dm.robots \in Seq(Robots) /\ dm.plan \in [Robots -> OptionalPlan]
    BY <1>5, ManagerIs
  <2>2. batch[r] \in OptionalPlan
    BY <1>5
  <2>3. Append(dm.robots, r) \in Seq(Robots)
    BY <1>3, <2>1, AppendProperties
  <2>4. [dm.plan EXCEPT ![r] = batch[r]] \in [Robots -> OptionalPlan]
    <3> HIDE DEF OptionalPlan
    <3> QED BY <1>3, <2>1, <2>2
  <2>5. d = [dm EXCEPT !.robots = d.robots,
                       !.plan = d.plan,
                       !.current_waypoint = d.current_waypoint,
                       !.latest_enqueued = d.latest_enqueued]
    BY <1>5 DEF SetPlan, ManagerType
  <2> HIDE DEF d
  <2> QED BY <1>5, <1>7, <2>3, <2>4, <2>5 DEF ManagerType
<1>10. ASSUME NEW s \in Robots PROVE Installed(d, s) /\ InOrder(d, s)
  <2>1. Installed(dm, s) /\ InOrder(dm, s)
    BY <1>2 DEF Coherent
  <2>2. InOrder(d, s)
    BY <1>7, <2>1 DEF InOrder, Position
  <2>3. d.plan[s] = IF s = r THEN batch[r] ELSE dm.plan[s]
    BY <1>5, <1>7 DEF ManagerType
  <2> HIDE DEF d
  <2>4. Installed(d, s)
    BY <1>3, <1>7, <1>8, <2>1, <2>3 DEF Installed
  <2> QED BY <2>2, <2>4
<1>11. CompletedAtEndIn(d) /\ VisitOrderIn(d)
  BY <1>2, <1>7 DEF Coherent, CompletedAtEndIn, VisitOrderIn
<1>12. Coherent(d)
  BY <1>9, <1>10, <1>11 DEF Coherent
<1>13. RestAgrees(d)
  <2> SUFFICES ASSUME NEW n \in 2 .. Len(message_queue)
               PROVE  /\ message_queue[n].type = "plan" => message_queue[n].robot \notin Known(d)
                      /\ \A s \in Robots : Reached(n, s) =>
                           /\ d.current_waypoint[s] < message_queue[n].index
                           /\ message_queue[n].index <= Position(d, s)
    BY DEF RestAgrees
  <2>1. n \in DOMAIN message_queue /\ n # 1
    BY <1>2
  <2>2. message_queue[n].type = "plan" => message_queue[n].robot \notin Known(d)
    BY <1>3, <1>8, <2>1 DEF IInv, PlansQueued
  <2>3. \A s \in Robots : Reached(n, s) =>
          /\ dm.current_waypoint[s] < message_queue[n].index
          /\ message_queue[n].index <= Position(dm, s)
    BY <2>1 DEF IInv, ReportsInOrder
  <2>4. \A s \in Robots : Position(d, s) = Position(dm, s)
    BY <1>7 DEF Position
  <2> QED BY <1>7, <2>2, <2>3, <2>4
<1>14. d.current_waypoint = dm.current_waypoint /\ \A s \in Robots : Position(d, s) = Position(dm, s)
  BY <1>7 DEF Position
<1>15. d.cut_indices = dm.cut_indices
  BY <1>7
<1> HIDE DEF d
<1> QED BY <1>1, <1>4, <1>8, <1>15, <1>12, <1>13, <1>14, HandlerKeeps

\* A report is handled: the robot's current waypoint moves on to one that is
\* not past its position, perhaps the last one.
LEMMA HandleWaypointReachedKeeps ==
  ASSUME IInv, HandleWaypointReached, UNCHANGED envVars
  PROVE  /\ IInv'
         /\ alive' = TRUE
         /\ Known(dm)' = Known(dm)
         /\ dm'.cut_indices = dm.cut_indices
         /\ FullyDispatchedIn(dm)'
         /\ \A s \in Robots :
              /\ dm'.current_waypoint[s] = IF s = Head(message_queue).robot
                                           THEN Head(message_queue).index
                                           ELSE dm.current_waypoint[s]
              /\ Position(dm, s)' = Position(dm, s)
              /\ Holds(s) \subseteq Holds(s)'
<1> DEFINE r == Head(message_queue).robot
           k == Head(message_queue).index
           u == UpdateProgress(dm, r, k)
           d == IF IsComplete(u, r) THEN OnPlanComplete(u, r) ELSE u
           last == LastIndex(batch[r])
<1>1. /\ message_queue # <<>>
      /\ message_queue' = Tail(message_queue)
      /\ Head(message_queue).type = "waypoint_reached"
      /\ UNCHANGED <<at, batch, delivered, requests>>
      /\ DispatchUnblocked(d)
  BY DEF HandleWaypointReached, NextMessage, envVars
<1>2. /\ Coherent(dm)
      /\ 1 \in DOMAIN message_queue
      /\ DOMAIN message_queue = 1 .. Len(message_queue)
      /\ Len(message_queue) \in Nat
      /\ Head(message_queue) = message_queue[1]
      /\ Head(message_queue) \in Messages
  BY <1>1, BeforeHandling
<1>3. ManagerType(dm) /\ BatchAssumption(batch) /\ \A s \in Robots : Installed(dm, s)
  BY <1>2 DEF Coherent, IInv
<1>4. r \in Robots /\ k \in Nat /\ Reached(1, r) /\ batch[r] \in Plan
  BY <1>1, <1>2, <1>3 DEF Messages, Reached, BatchAssumption
<1>5. dm.current_waypoint[r] < k /\ k <= Position(dm, r)
  BY <1>2, <1>4 DEF IInv, ReportsInOrder
<1>6. /\ \A s \in Robots : dm.current_waypoint[s] \in Nat /\ dm.latest_enqueued[s] \in Nat
      /\ \A s \in Robots : Len(pending[s]) \in Nat
      /\ last \in Nat
  BY <1>3, <1>4, ManagerIs, PlanFields, LenProperties DEF IInv, TypeOK
<1>7. k <= dm.latest_enqueued[r] /\ k <= last
  <2>1. Position(dm, r) <= dm.latest_enqueued[r] /\ Position(dm, r) \in Int
    BY <1>4, <1>6 DEF Position
  <2>2. dm.latest_enqueued[r] <= last
    BY <1>3, <1>4 DEF Installed
  <2> QED BY <1>4, <1>5, <1>6, <2>1, <2>2
<1>8. r \in Known(dm) /\ dm.plan[r] = batch[r]
  BY <1>3, <1>4, <1>5, <1>6, <1>7 DEF Installed
<1>9. u = [dm EXCEPT !.current_waypoint[r] = k]
  BY <1>8 DEF UpdateProgress
<1>10. /\ u.robots = dm.robots
       /\ u.plan = dm.plan
       /\ u.current_waypoint = [dm.current_waypoint EXCEPT ![r] = k]
       /\ u.latest_enqueued = dm.latest_enqueued
       /\ u.completed_plan_ids = dm.completed_plan_ids
       /\ u.cut_indices = dm.cut_indices
       /\ ManagerType(u)
  <2> DEFINE c == [dm.current_waypoint EXCEPT ![r] = k]
  <2>1. u = [dm EXCEPT !.current_waypoint = c]
    BY <1>9
  <2>2. c \in [Robots -> Nat]
    BY <1>3, <1>4, ManagerIs
  <2> HIDE DEF u, c
  <2>3. /\ u.robots = dm.robots
        /\ u.plan = dm.plan
        /\ u.current_waypoint = c
        /\ u.latest_enqueued = dm.latest_enqueued
        /\ u.completed_plan_ids = dm.completed_plan_ids
        /\ u.cut_indices = dm.cut_indices
    BY <1>3, <2>1 DEF ManagerType
  <2>4. ManagerType(u)
    BY <1>3, <2>1, <2>2 DEF ManagerType
  <2> QED BY <2>3, <2>4 DEF c
<1>11. IsComplete(u, r) <=> k = last
  <2>1. u.current_waypoint[r] = k /\ Known(u) = Known(dm)
    BY <1>4, <1>3, <1>10, ManagerIs DEF Known
  <2> QED BY <1>4, <1>6, <1>7, <1>8, <1>10, <2>1 DEF IsComplete
<1>12. /\ d.robots = dm.robots
       /\ d.plan = dm.plan
       /\ d.current_waypoint = [dm.current_waypoint EXCEPT ![r] = k]
       /\ d.latest_enqueued = dm.latest_enqueued
       /\ d.cut_indices = dm.cut_indices
       /\ d.completed_plan_ids = IF k = last THEN dm.completed_plan_ids \cup {batch[r].plan_id}
                                             ELSE dm.completed_plan_ids
       /\ ManagerType(d)
  <2> HIDE DEF u
  <2>1. CASE k # last
    BY <1>10, <1>11, <2>1
  <2>2. CASE k = last
    <3>1. d = [u EXCEPT !.completed_plan_ids = dm.completed_plan_ids \cup {batch[r].plan_id}]
      BY <1>8, <1>10, <1>11, <2>2 DEF OnPlanComplete, ManagerType
    <3>2. dm.completed_plan_ids \cup {batch[r].plan_id} \in SUBSET PlanIds
      BY <1>3, <1>4, ManagerIs, PlanFields
    <3> HIDE DEF d
    <3> QED BY <1>10, <2>2, <3>1, <3>2 DEF ManagerType
  <2> QED BY <2>1, <2>2
<1> HIDE DEF u, d
<1>13. /\ Known(d) = Known(dm)
       /\ \A s \in Robots : d.current_waypoint[s] = IF s = r THEN k ELSE dm.current_waypoint[s]
       /\ \A s \in Robots : Position(d, s) = Position(dm, s)
  BY <1>3, <1>12, ManagerIs DEF Known, Position
<1>14. \A s \in Robots : Installed(d, s) /\ InOrder(d, s)
  <2> TAKE s \in Robots
  <2>1. Installed(dm, s) /\ InOrder(dm, s)
    BY <1>2 DEF Coherent
  <2>2. InOrder(d, s)
    BY <1>5, <1>13, <2>1 DEF InOrder
  <2>3. Installed(d, s)
    BY <1>8, <1>12, <1>13, <2>1 DEF Installed
  <2> QED BY <2>2, <2>3
<1>15. CompletedAtEndIn(d)
  <2> SUFFICES ASSUME NEW s \in Robots, batch[s].plan_id \in d.completed_plan_ids
               PROVE  d.current_waypoint[s] = LastIndex(batch[s])
    BY DEF CompletedAtEndIn
  <2>1. CASE batch[s].plan_id \in dm.completed_plan_ids
    <3>1. dm.current_waypoint[s] = LastIndex(batch[s])
      BY <1>2, <2>1 DEF Coherent, CompletedAtEndIn
    <3>2. s # r
      BY <1>4, <1>5, <1>6, <1>7, <3>1
    <3> QED BY <1>13, <3>1, <3>2
  <2>2. CASE batch[s].plan_id \notin dm.completed_plan_ids
    <3>1. k = last /\ batch[s].plan_id = batch[r].plan_id
      BY <1>12, <2>2
    <3>2. s = r
      BY <1>3, <1>4, <3>1 DEF BatchAssumption
    <3> QED BY <1>13, <3>1, <3>2
  <2> QED BY <2>1, <2>2
<1>16. VisitOrderIn(d)
  <2> SUFFICES ASSUME NEW i \in Robots, NEW j \in Robots, i # j,
                      NEW a \in Indices(batch[i]), NEW b \in Indices(batch[j]),
                      Precedes(batch, i, a, j, b), b <= dm.latest_enqueued[j]
               PROVE  d.current_waypoint[i] > a
    BY <1>12 DEF VisitOrderIn
  <2>1. dm.current_waypoint[i] > a
    BY <1>2 DEF Coherent, VisitOrderIn
  <2>2. a \in Int
    BY DEF Indices
  <2> QED BY <1>4, <1>5, <1>6, <1>13, <2>1, <2>2
<1>17. Coherent(d)
  BY <1>12, <1>14, <1>15, <1>16 DEF Coherent
<1>18. RestAgrees(d)
  <2> SUFFICES ASSUME NEW n \in 2 .. Len(message_queue)
               PROVE  /\ message_queue[n].type = "plan" => message_queue[n].robot \notin Known(d)
                      /\ \A s \in Robots : Reached(n, s) =>
                           /\ d.current_waypoint[s] < message_queue[n].index
                           /\ message_queue[n].index <= Position(d, s)
    BY DEF RestAgrees
  <2>1. n \in DOMAIN message_queue /\ 1 \in 1 .. n - 1
    BY <1>2
  <2>2. message_queue[n].type = "plan" => message_queue[n].robot \notin Known(d)
    BY <1>13, <2>1 DEF IInv, PlansQueued
  <2>3. \A s \in Robots : Reached(n, s) =>
          /\ dm.current_waypoint[s] < message_queue[n].index
          /\ message_queue[n].index <= Position(dm, s)
          /\ Reached(1, s) => message_queue[1].index < message_queue[n].index
    BY <2>1 DEF IInv, ReportsInOrder
  <2> QED BY <1>2, <1>4, <1>13, <2>2, <2>3
<1> QED BY <1>1, <1>12, <1>13, <1>17, <1>18, HandlerKeeps

\* A request is handled: what is stored as a cut is an index of the plan, or
\* nothing is stored at all.
LEMMA HandleRequestKeeps ==
  ASSUME IInv, HandleCommittedLocationsRequest, UNCHANGED envVars
  PROVE  IInv'
<1>1. /\ message_queue # <<>>
      /\ message_queue' = Tail(message_queue)
      /\ UNCHANGED <<pending, at, batch, delivered, requests>>
  BY DEF HandleCommittedLocationsRequest, NextMessage, envVars
<1>2. /\ Coherent(dm)
      /\ DOMAIN message_queue = 1 .. Len(message_queue)
      /\ Len(message_queue) \in Nat
      /\ message_queue \in Seq(Messages)
  BY <1>1, BeforeHandling
<1>3. /\ ManagerType(dm)
      /\ \A s \in Robots : Installed(dm, s) /\ InOrder(dm, s)
      /\ \A s \in Robots : batch[s] \in Plan
      /\ Known(dm) \subseteq Robots
  BY <1>2, ManagerIs DEF Coherent, IInv, BatchAssumption
<1>4. /\ Known(dm)' = Known(dm)
      /\ dm'.robots = dm.robots
      /\ dm'.plan = dm.plan
      /\ dm'.current_waypoint = dm.current_waypoint
      /\ dm'.latest_enqueued = dm.latest_enqueued
      /\ dm'.completed_plan_ids = dm.completed_plan_ids
      /\ ManagerType(dm')
      /\ \A s \in DOMAIN dm'.cut_indices :
           s \in Known(dm) /\ dm'.cut_indices[s] <= LastIndex(batch[s])
      /\ alive' \in BOOLEAN
  <2>1. CASE CommitCutFails(dm)
    <3>1. dm' = dm /\ alive' = FALSE
      BY <2>1 DEF HandleCommittedLocationsRequest
    <3>2. \A s \in DOMAIN dm.cut_indices :
            s \in Known(dm) /\ dm.cut_indices[s] <= LastIndex(batch[s])
      BY <1>3, ManagerIs DEF Installed
    <3> QED BY <1>3, <3>1, <3>2 DEF Known, ManagerType
  <2>2. CASE ~CommitCutFails(dm)
    <3> DEFINE c == CommitCutLoop(dm).cut
               cuts == [s \in Known(dm) |-> c[s]]
    <3>1. dm' = [dm EXCEPT !.cut_indices = cuts] /\ alive' = alive
      BY <2>2 DEF HandleCommittedLocationsRequest, ComputeCommitCut
    <3>2. \A s \in Known(dm) : c[s] \in 0 .. LastIndex(batch[s])
      <4>1. \A s \in Known(dm) : c[s] \in Indices(dm.plan[s])
        BY <2>2 DEF CommitCutFails
      <4> QED BY <1>3, <4>1 DEF Installed, Indices
    <3> HIDE DEF c
    <3>3. cuts \in [Known(dm) -> Nat] /\ DOMAIN cuts = Known(dm)
      BY <3>2
    <3>4. \A s \in Known(dm) : cuts[s] <= LastIndex(batch[s])
      BY <3>2
    <3> HIDE DEF cuts
    <3>5. /\ dm'.robots = dm.robots
          /\ dm'.plan = dm.plan
          /\ dm'.current_waypoint = dm.current_waypoint
          /\ dm'.latest_enqueued = dm.latest_enqueued
          /\ dm'.completed_plan_ids = dm.completed_plan_ids
          /\ dm'.cut_indices = cuts
      BY <1>3, <3>1 DEF ManagerType
    <3>6. ManagerType(dm')
      BY <1>3, <3>1, <3>3 DEF ManagerType
    <3> QED BY <3>1, <3>3, <3>4, <3>5, <3>6 DEF Known, IInv, TypeOK
  <2> QED BY <2>1, <2>2
<1>5. PlansInstalled'
  BY <1>1, <1>3, <1>4 DEF PlansInstalled, Installed
<1>6. PendingInOrder' /\ CompletedAtEnd' /\ VisitOrder' /\ BatchAssumption(batch)'
  BY <1>1, <1>2, <1>4 DEF Coherent, IInv, PendingInOrder, InOrder, Position,
       CompletedAtEnd, CompletedAtEndIn, VisitOrder, VisitOrderIn
<1>7. \A s \in Robots : Position(dm, s)' = Position(dm, s)
  BY <1>1, <1>4 DEF Position
<1>8. RestAgrees(dm)
  BY <1>2 DEF RestAgrees, IInv, PlansQueued, ReportsInOrder
<1>9. PlansQueued' /\ ReportsInOrder'
  BY <1>1, <1>4, <1>7, <1>8, QueueKeeps
<1>10. TypeOK'
  <2>1. message_queue' \in Seq(Messages)
    BY <1>1, QueueShrinks DEF IInv, TypeOK
  <2> QED BY <1>1, <1>4, <2>1 DEF IInv, TypeOK, ManagerType
<1> QED BY <1>5, <1>6, <1>9, <1>10 DEF IInv

LEMMA StutteringKeeps ==
  ASSUME IInv, UNCHANGED vars
  PROVE  IInv'
<1> USE DEF vars, IInv
<1>1. TypeOK' /\ BatchAssumption(batch)'
  BY DEF TypeOK, ManagerType
<1>2. PlansInstalled' /\ PlansQueued'
  BY DEF PlansInstalled, Installed, PlansQueued, Known
<1>3. PendingInOrder' /\ ReportsInOrder'
  BY DEF PendingInOrder, InOrder, Position, ReportsInOrder, Reached
<1>4. CompletedAtEnd' /\ VisitOrder'
  BY DEF CompletedAtEnd, CompletedAtEndIn, VisitOrder, VisitOrderIn
<1> QED BY <1>1, <1>2, <1>3, <1>4

LEMMA StepKeeps == IInv /\ [Next]_vars => IInv'
<1> SUFFICES ASSUME IInv, [Next]_vars PROVE IInv'
  OBVIOUS
<1>1. CASE \E r \in Robots : DeliverPlan(r)
  BY <1>1, DeliverPlanKeeps
<1>2. CASE DeliverRequest
  BY <1>2, DeliverRequestKeeps
<1>3. CASE \E r \in Robots : RobotArrives(r)
  BY <1>3, ArriveKeeps
<1>4. CASE HandlePlan /\ UNCHANGED envVars
  BY <1>4, HandlePlanKeeps
<1>5. CASE HandleWaypointReached /\ UNCHANGED envVars
  BY <1>5, HandleWaypointReachedKeeps
<1>6. CASE HandleCommittedLocationsRequest /\ UNCHANGED envVars
  BY <1>6, HandleRequestKeeps
<1>7. CASE UNCHANGED vars
  BY <1>7, StutteringKeeps
<1> QED BY <1>1, <1>2, <1>3, <1>4, <1>5, <1>6, <1>7 DEF Next, HandleMessage, Worker

-----------------------------------------------------------------------------
(* The theorems.                                                           *)

\* The inductive invariant: the queue, the controller's pending waypoints and
\* the manager's indices tell the same story, and blockers have been obeyed.
THEOREM Invariance == Spec => []IInv
BY Initially, StepKeeps, PTL DEF Spec

\* The variables keep their types, cut indices and completed plans included.
THEOREM TypeCorrect == Spec => []TypeOK
<1>1. IInv => TypeOK
  BY DEF IInv
<1> QED BY <1>1, Invariance, PTL

\* Every location is visited in the order of the MAPF solution.
THEOREM VisitsInOrder == Spec => []VisitOrder
<1>1. IInv => VisitOrder
  BY DEF IInv
<1> QED BY <1>1, Invariance, PTL

\* What a robot holds are the locations of its plan from its position to the
\* latest enqueued waypoint, none of them before its current waypoint.
LEMMA HeldWaypoints ==
  ASSUME IInv, NEW r \in Robots, NEW l \in Holds(r)
  PROVE  \E a \in Indices(batch[r]) :
           /\ WaypointAt(batch[r], a).name = l
           /\ dm.current_waypoint[r] <= a
           /\ a <= dm.latest_enqueued[r]
<1> DEFINE p == Position(dm, r)
<1>1. InOrder(dm, r) /\ Installed(dm, r) /\ ManagerType(dm) /\ batch[r] \in Plan
  BY DEF IInv, PendingInOrder, PlansInstalled, TypeOK
<1>2. /\ dm.current_waypoint[r] \in Nat
      /\ dm.latest_enqueued[r] \in Nat
      /\ LastIndex(batch[r]) \in Nat
      /\ Indices(batch[r]) = 0 .. LastIndex(batch[r])
      /\ dm.latest_enqueued[r] <= LastIndex(batch[r])
  BY <1>1, ManagerIs, PlanFields DEF Installed
<1>3. /\ Len(pending[r]) \in Nat
      /\ DOMAIN pending[r] = 1 .. Len(pending[r])
      /\ p = dm.latest_enqueued[r] - Len(pending[r])
      /\ dm.current_waypoint[r] <= p
  BY <1>1, LenProperties DEF IInv, TypeOK, InOrder, Position
<1>4. CASE l = at[r]
  <2>1. p \in Indices(batch[r]) /\ p <= dm.latest_enqueued[r]
    BY <1>2, <1>3
  <2>2. WaypointAt(batch[r], p).name = l
    BY <1>1, <1>4 DEF InOrder
  <2> QED BY <1>3, <2>1, <2>2
<1>5. CASE \E n \in DOMAIN pending[r] : l = pending[r][n].name
  <2>1. PICK n \in 1 .. Len(pending[r]) : l = pending[r][n].name
    BY <1>3, <1>5
  <2>2. /\ p + n \in Indices(batch[r])
        /\ p + n <= dm.latest_enqueued[r]
        /\ dm.current_waypoint[r] <= p + n
    BY <1>2, <1>3
  <2>3. pending[r][n] = [index |-> p + n, name |-> WaypointAt(batch[r], p + n).name]
    BY <1>1, <1>3, <2>1 DEF InOrder
  <2>4. WaypointAt(batch[r], p + n).name = l
    BY <2>1, <2>3
  <2> QED BY <2>2, <2>4
<1> QED BY <1>4, <1>5 DEF Holds

LEMMA InvariantExcludes == IInv => NoCollision
<1> SUFFICES ASSUME IInv, NEW r \in Robots, NEW s \in Robots, r # s,
                    NEW l \in Holds(r), l \in Holds(s)
             PROVE  FALSE
  BY DEF NoCollision
<1>1. PICK a \in Indices(batch[r]) :
        /\ WaypointAt(batch[r], a).name = l
        /\ dm.current_waypoint[r] <= a
        /\ a <= dm.latest_enqueued[r]
  BY HeldWaypoints
<1>2. PICK b \in Indices(batch[s]) :
        /\ WaypointAt(batch[s], b).name = l
        /\ dm.current_waypoint[s] <= b
        /\ b <= dm.latest_enqueued[s]
  BY HeldWaypoints
<1>3. SameLocation(batch, r, a, s, b)
  BY <1>1, <1>2 DEF SameLocation
<1>4. DOMAIN batch = Robots
  BY DEF IInv, TypeOK
<1>5. Precedes(batch, r, a, s, b) \/ Precedes(batch, s, b, r, a)
  BY <1>3, <1>4 DEF IInv, BatchAssumption, VisitsOrdered
<1>6. dm.current_waypoint[r] > a \/ dm.current_waypoint[s] > b
  BY <1>1, <1>2, <1>5 DEF IInv, VisitOrder, VisitOrderIn
<1>7. /\ dm.current_waypoint[r] \in Nat
      /\ dm.current_waypoint[s] \in Nat
      /\ a \in Int
      /\ b \in Int
  BY ManagerIs DEF IInv, TypeOK, Indices
<1> QED BY <1>1, <1>2, <1>6, <1>7

\* No two robots are, or are sent, to the same location.
THEOREM CollisionFree == Spec => []NoCollision
BY Invariance, InvariantExcludes, PTL

-----------------------------------------------------------------------------
(* The executor and its controller implement LocationReservation.          *)

HeldLocations == \A r \in Robots : Holds(r) \subseteq Locations

LEMMA InvariantTypesHeld == IInv => HeldLocations
<1> SUFFICES ASSUME IInv, NEW r \in Robots PROVE Holds(r) \subseteq Locations
  BY DEF HeldLocations
<1>1. at[r] \in Locations /\ pending[r] \in Seq([index : Nat, name : Locations])
  BY DEF IInv, TypeOK
<1>2. \A n \in DOMAIN pending[r] : pending[r][n] \in [index : Nat, name : Locations]
  BY <1>1, ElementOfSeq, LenProperties
<1> QED BY <1>1, <1>2 DEF Holds

\* A robot that arrives somewhere leaves where it was, unless it comes back.
LEMMA ArrivalLeaves ==
  ASSUME IInv, NEW r \in Robots, RobotArrives(r)
  PROVE  Reservation!Leave(r) \/ \A s \in Robots : Holds(s)' = Holds(s)
<1> DEFINE names == {pending[r][n].name : n \in DOMAIN pending[r]}
<1>1. /\ at \in [Robots -> Locations]
      /\ pending \in [Robots -> Seq([index : Nat, name : Locations])]
      /\ pending[r] # <<>>
      /\ at' = [at EXCEPT ![r] = Head(pending[r]).name]
      /\ pending' = [pending EXCEPT ![r] = Tail(pending[r])]
  BY DEF RobotArrives, Arrive, IInv, TypeOK
<1>2. /\ Len(pending[r]) \in Nat \ {0}
      /\ DOMAIN pending[r] = 1 .. Len(pending[r])
      /\ Head(pending[r]) = pending[r][1]
      /\ DOMAIN Tail(pending[r]) = 1 .. Len(pending[r]) - 1
      /\ \A n \in 1 .. Len(pending[r]) - 1 : Tail(pending[r])[n] = pending[r][n + 1]
  <2>1. pending[r] \in Seq([index : Nat, name : Locations])
    BY <1>1
  <2>2. /\ Tail(pending[r]) \in Seq([index : Nat, name : Locations])
        /\ Len(Tail(pending[r])) = Len(pending[r]) - 1
        /\ \A n \in 1 .. Len(Tail(pending[r])) : Tail(pending[r])[n] = pending[r][n + 1]
    BY <1>1, <2>1, HeadTailProperties
  <2>3. /\ Len(pending[r]) \in Nat \ {0}
        /\ DOMAIN pending[r] = 1 .. Len(pending[r])
    BY <1>1, <2>1, LenProperties, EmptySeq
  <2>4. DOMAIN Tail(pending[r]) = 1 .. Len(Tail(pending[r]))
    BY <2>2, LenProperties
  <2>5. Head(pending[r]) = pending[r][1]
    BY <1>1, <2>1
  <2> QED BY <2>2, <2>3, <2>4, <2>5
<1>3. Holds(r) = {at[r]} \cup names
  BY DEF Holds
<1>4. names = {pending[r][1].name} \cup {pending[r][n + 1].name : n \in 1 .. Len(pending[r]) - 1}
  <2>1. \A n \in 1 .. Len(pending[r]) : n = 1 \/ \E m \in 1 .. Len(pending[r]) - 1 : n = m + 1
    <3> TAKE n \in 1 .. Len(pending[r])
    <3>1. n # 1 => n - 1 \in 1 .. Len(pending[r]) - 1 /\ n = (n - 1) + 1
      BY <1>2
    <3> QED BY <3>1
  <2>2. 1 \in DOMAIN pending[r] /\ \A m \in 1 .. Len(pending[r]) - 1 : m + 1 \in DOMAIN pending[r]
    BY <1>2
  <2>3. ASSUME NEW l \in names
        PROVE  l \in {pending[r][1].name} \cup {pending[r][n + 1].name : n \in 1 .. Len(pending[r]) - 1}
    <3>1. PICK n \in 1 .. Len(pending[r]) : l = pending[r][n].name
      BY <1>2, <2>3
    <3> QED BY <2>1, <3>1
  <2> QED BY <2>2, <2>3
<1>5. Holds(r)' = names
  <2>1. at'[r] = pending[r][1].name /\ pending'[r] = Tail(pending[r])
    BY <1>1, <1>2
  <2>2. {Tail(pending[r])[n].name : n \in DOMAIN Tail(pending[r])} =
          {pending[r][n + 1].name : n \in 1 .. Len(pending[r]) - 1}
    BY <1>2
  <2> QED BY <1>4, <2>1, <2>2 DEF Holds
<1>6. \A s \in Robots : s # r => Holds(s)' = Holds(s)
  BY <1>1 DEF Holds
<1>7. CASE at[r] \in names
  BY <1>3, <1>5, <1>6, <1>7
<1>8. CASE at[r] \notin names
  <2> DEFINE held == [s \in Robots |-> Holds(s)]
  <2>1. at[r] \in Holds(r) /\ Holds(r) # {at[r]} /\ Holds(r)' = Holds(r) \ {at[r]}
    BY <1>3, <1>4, <1>5, <1>8
  <2>2. held' = [held EXCEPT ![r] = held[r] \ {at[r]}]
    BY <1>6, <2>1
  <2>3. held[r] = Holds(r)
    OBVIOUS
  <2> HIDE DEF held
  <2>4. \E l \in held[r] : held[r] # {l} /\ held' = [held EXCEPT ![r] = held[r] \ {l}]
    BY <2>1, <2>2, <2>3
  <2> QED BY <2>4 DEF held, Reservation!Leave
<1> QED BY <1>7, <1>8

\* Every step hands out locations nobody holds, gives one back, or does not
\* change who holds what.
THEOREM ImplementsReservation == Spec => ReservationSpec
<1> DEFINE held == [r \in Robots |-> Holds(r)]
<1>1. Init => Reservation!Init
  <2> SUFFICES ASSUME Init PROVE Reservation!Init
    OBVIOUS
  <2>1. IInv /\ NoCollision
    BY Initially, InvariantExcludes
  <2>2. held \in [Robots -> SUBSET Locations]
    BY <2>1, InvariantTypesHeld DEF HeldLocations
  <2> QED BY <2>1, <2>2 DEF Reservation!Init, Reservation!Disjoint, NoCollision
<1>2. ASSUME HeldLocations', NoCollision', \A r \in Robots : Holds(r) \subseteq Holds(r)'
      PROVE  Reservation!Reserve
  <2>1. held' \in [Robots -> SUBSET Locations]
    BY <1>2 DEF HeldLocations
  <2> QED BY <1>2, <2>1 DEF Reservation!Reserve, Reservation!Disjoint, NoCollision
<1>3. IInv /\ HeldLocations' /\ NoCollision' /\ [Next]_vars => [Reservation!Next]_held
  <2> SUFFICES ASSUME IInv, HeldLocations', NoCollision', [Next]_vars
               PROVE  Reservation!Next \/ \A r \in Robots : Holds(r)' = Holds(r)
    OBVIOUS
  <2>1. CASE \E r \in Robots : DeliverPlan(r)
    BY <2>1 DEF DeliverPlan, OnPlan, Holds
  <2>2. CASE DeliverRequest
    BY <2>2 DEF DeliverRequest, OnCommittedLocationsRequest, Holds
  <2>3. CASE \E r \in Robots : RobotArrives(r)
    BY <2>3, ArrivalLeaves DEF Reservation!Next
  <2>4. CASE HandlePlan /\ UNCHANGED envVars
    BY <1>2, <2>4, HandlePlanKeeps DEF Reservation!Next
  <2>5. CASE HandleWaypointReached /\ UNCHANGED envVars
    BY <1>2, <2>5, HandleWaypointReachedKeeps DEF Reservation!Next
  <2>6. CASE HandleCommittedLocationsRequest /\ UNCHANGED envVars
    BY <2>6 DEF HandleCommittedLocationsRequest, Holds
  <2>7. CASE UNCHANGED vars
    BY <2>7 DEF vars, Holds
  <2> QED BY <2>1, <2>2, <2>3, <2>4, <2>5, <2>6, <2>7 DEF Next, HandleMessage, Worker
<1> QED BY <1>1, <1>3, Invariance, InvariantTypesHeld, CollisionFree, PTL DEF Spec, ReservationSpec, Reservation!Spec

-----------------------------------------------------------------------------
(* From IInv and what the queue must hold besides: no report of a robot is *)
(* lost, a request that stops the worker thread has been sent and comes    *)
(* between plans, and a robot that may go on has been released.            *)

\* Every waypoint from behind the current one to the position has a report in
\* the queue.
ReportsComplete ==
  \A r \in Robots : \A k \in dm.current_waypoint[r] + 1 .. Position(dm, r) :
    \E n \in DOMAIN message_queue : Reached(n, r) /\ message_queue[n].index = k

\* The worker thread runs as long as no committed locations were asked for.
SurvivesUnrequested == requests = 0 => alive

\* A request in the queue has been sent.
NoRequestQueued ==
  requests = 0 => \A n \in DOMAIN message_queue :
                    message_queue[n].type # "committed_locations_request"

\* The inductive invariant behind InFlightInOrder and SurvivesUnrequested.
RInv == IInv /\ ReportsComplete /\ NoRequestQueued /\ SurvivesUnrequested

-----------------------------------------------------------------------------
(* RInv is inductive.                                                      *)

LEMMA RInitially == Init => RInv
<1> SUFFICES ASSUME Init PROVE RInv
  OBVIOUS
<1>1. IInv
  BY Initially
<1>2. /\ dm.current_waypoint = [r \in Robots |-> 0]
      /\ dm.latest_enqueued = [r \in Robots |-> 0]
      /\ pending = [r \in Robots |-> <<>>]
      /\ message_queue = <<>>
      /\ alive = TRUE
  BY DEF Init, ExecutorInit, EmptyManager
<1>3. ReportsComplete
  <2> SUFFICES ASSUME NEW r \in Robots,
                      NEW k \in dm.current_waypoint[r] + 1 .. Position(dm, r)
               PROVE  FALSE
    BY DEF ReportsComplete
  <2>1. dm.current_waypoint[r] = 0 /\ dm.latest_enqueued[r] = 0 /\ Len(pending[r]) = 0
    BY <1>2
  <2>2. Position(dm, r) = 0
    <3>1. Position(dm, r) = 0 - 0
      BY <2>1, Zenon DEF Position
    <3> QED BY <3>1
  <2> QED BY <2>1, <2>2
<1>4. NoRequestQueued /\ SurvivesUnrequested
  BY <1>2 DEF NoRequestQueued, SurvivesUnrequested
<1> QED BY <1>1, <1>3, <1>4 DEF RInv

\* The reports of r stay in the queue when a message joins it.
LEMMA ReportsStay ==
  ASSUME message_queue \in Seq(Messages), NEW m \in Messages,
         message_queue' = Append(message_queue, m),
         NEW r \in Robots, NEW k,
         \E n \in DOMAIN message_queue : Reached(n, r) /\ message_queue[n].index = k
  PROVE  \E n \in DOMAIN message_queue' : Reached(n, r)' /\ message_queue'[n].index = k
<1>1. /\ DOMAIN message_queue = 1 .. Len(message_queue)
      /\ Len(message_queue) \in Nat
      /\ DOMAIN message_queue' = 1 .. Len(message_queue) + 1
      /\ \A n \in 1 .. Len(message_queue) : message_queue'[n] = message_queue[n]
  BY QueueGrows
<1>2. PICK n \in DOMAIN message_queue : Reached(n, r) /\ message_queue[n].index = k
  OBVIOUS
<1>3. n \in DOMAIN message_queue' /\ message_queue'[n] = message_queue[n]
  BY <1>1
<1> QED BY <1>2, <1>3 DEF Reached

\* A plan or a request joins the queue.
LEMMA RDeliverKeeps ==
  ASSUME RInv, (\E r \in Robots : DeliverPlan(r)) \/ DeliverRequest
  PROVE  RInv'
<1>1. PICK m \in Messages :
        /\ message_queue' = Append(message_queue, m)
        /\ m.type = "committed_locations_request" => requests' # 0
  <2>1. CASE \E r \in Robots : DeliverPlan(r)
    <3>1. PICK r \in Robots : DeliverPlan(r)
      BY <2>1
    <3>2. PlanMessage(r, batch[r]) \in Messages
      BY DEF PlanMessage, Messages, RInv, IInv, TypeOK
    <3> QED BY <3>1, <3>2 DEF DeliverPlan, OnPlan, PlanMessage
  <2>2. CASE DeliverRequest
    <3>1. requests \in Nat /\ requests' = requests + 1
      BY <2>2, MaxRequestsAssumption DEF DeliverRequest, RInv, IInv, TypeOK
    <3>2. RequestMessage(requests') \in Messages
      BY <3>1 DEF RequestMessage, Messages
    <3> QED BY <2>2, <3>1, <3>2 DEF DeliverRequest, OnCommittedLocationsRequest
  <2> QED BY <2>1, <2>2
<1>2. UNCHANGED <<dm, pending, alive>> /\ (requests' = 0 => requests = 0)
  BY MaxRequestsAssumption DEF DeliverPlan, OnPlan, DeliverRequest, OnCommittedLocationsRequest,
       RInv, IInv, TypeOK
<1>3. message_queue \in Seq(Messages)
  BY DEF RInv, IInv, TypeOK
<1>4. IInv'
  BY DeliverPlanKeeps, DeliverRequestKeeps DEF RInv
<1>5. ReportsComplete'
  <2> SUFFICES ASSUME NEW r \in Robots,
                      NEW k \in dm.current_waypoint[r] + 1 .. Position(dm, r)
               PROVE  \E n \in DOMAIN message_queue' :
                        Reached(n, r)' /\ message_queue'[n].index = k
    BY <1>2 DEF ReportsComplete, Position
  <2>1. \E n \in DOMAIN message_queue : Reached(n, r) /\ message_queue[n].index = k
    BY DEF RInv, ReportsComplete
  <2> QED BY <1>1, <1>3, <2>1, ReportsStay
<1>6. NoRequestQueued' /\ SurvivesUnrequested'
  <2>1. /\ DOMAIN message_queue = 1 .. Len(message_queue)
        /\ Len(message_queue) \in Nat
        /\ DOMAIN message_queue' = 1 .. Len(message_queue) + 1
        /\ message_queue'[Len(message_queue) + 1] = m
        /\ \A n \in 1 .. Len(message_queue) : message_queue'[n] = message_queue[n]
    BY <1>1, <1>3, QueueGrows
  <2>2. \A n \in DOMAIN message_queue' :
          n \in DOMAIN message_queue \/ n = Len(message_queue) + 1
    BY <2>1
  <2> QED BY <1>1, <1>2, <2>1, <2>2 DEF RInv, NoRequestQueued, SurvivesUnrequested
<1> QED BY <1>4, <1>5, <1>6 DEF RInv

\* The position moves on to the waypoint that is reported.
LEMMA RArriveKeeps ==
  ASSUME RInv, NEW r \in Robots, RobotArrives(r)
  PROVE  RInv'
<1> DEFINE p == Position(dm, r)
           m == ReachedMessage(r, p + 1)
<1>1. /\ ManagerType(dm)
      /\ pending \in [Robots -> Seq([index : Nat, name : Locations])]
      /\ message_queue \in Seq(Messages)
      /\ InOrder(dm, r)
  BY DEF RInv, IInv, TypeOK, PendingInOrder
<1>2. /\ pending[r] # <<>>
      /\ UNCHANGED <<dm, alive, requests>>
      /\ pending' = [pending EXCEPT ![r] = Tail(pending[r])]
      /\ message_queue' = Append(message_queue, ReachedMessage(r, Head(pending[r]).index))
  BY DEF RobotArrives, Arrive, envVars
<1>3. /\ Len(pending[r]) \in Nat \ {0}
      /\ 1 \in DOMAIN pending[r]
      /\ Head(pending[r]) = pending[r][1]
      /\ Len(Tail(pending[r])) = Len(pending[r]) - 1
  <2>1. pending[r] \in Seq([index : Nat, name : Locations])
    BY <1>1
  <2>2. Len(Tail(pending[r])) = Len(pending[r]) - 1
    BY <1>2, <2>1, HeadTailProperties
  <2>3. /\ Len(pending[r]) \in Nat \ {0}
        /\ DOMAIN pending[r] = 1 .. Len(pending[r])
    BY <1>2, <2>1, LenProperties, EmptySeq
  <2>4. Head(pending[r]) = pending[r][1]
    BY <1>2, <2>1
  <2> QED BY <2>2, <2>3, <2>4
<1>4. /\ dm.latest_enqueued[r] \in Nat
      /\ dm.current_waypoint[r] \in Nat
      /\ p = dm.latest_enqueued[r] - Len(pending[r])
      /\ p \in Int
      /\ dm.current_waypoint[r] <= p
      /\ Head(pending[r]).index = p + 1
  <2>1. /\ dm.latest_enqueued[r] \in Nat
        /\ dm.current_waypoint[r] \in Nat
        /\ p = dm.latest_enqueued[r] - Len(pending[r])
        /\ p \in Int
    BY <1>1, <1>3, ManagerIs DEF Position
  <2>2. pending[r][1] = [index |-> p + 1, name |-> WaypointAt(batch[r], p + 1).name]
    BY <1>1, <1>3 DEF InOrder
  <2>3. dm.current_waypoint[r] <= p
    BY <1>1 DEF InOrder
  <2> QED BY <1>3, <2>1, <2>2, <2>3
<1>5. m \in Messages /\ message_queue' = Append(message_queue, m)
  <2>1. p + 1 \in Nat
    BY <1>4
  <2> QED BY <1>2, <1>4, <2>1 DEF Messages, ReachedMessage
<1>6. Position(dm, r)' = p + 1
  BY <1>1, <1>2, <1>3, <1>4 DEF Position
<1>7. \A s \in Robots : s # r => Position(dm, s)' = Position(dm, s)
  BY <1>1, <1>2 DEF Position
<1>8. /\ DOMAIN message_queue = 1 .. Len(message_queue)
      /\ Len(message_queue) \in Nat
      /\ DOMAIN message_queue' = 1 .. Len(message_queue) + 1
      /\ message_queue'[Len(message_queue) + 1] = m
      /\ \A n \in 1 .. Len(message_queue) : message_queue'[n] = message_queue[n]
  BY <1>1, <1>5, QueueGrows
<1>9. ReportsComplete'
  <2> SUFFICES ASSUME NEW s \in Robots,
                      NEW k \in dm.current_waypoint[s] + 1 .. Position(dm, s)'
               PROVE  \E n \in DOMAIN message_queue' :
                        Reached(n, s)' /\ message_queue'[n].index = k
    BY <1>2 DEF ReportsComplete
  <2>1. CASE s = r /\ k = p + 1
    <3>1. PICK n \in DOMAIN message_queue' : message_queue'[n] = m
      BY <1>8
    <3>2. Reached(n, r)' /\ message_queue'[n].index = p + 1
      BY <3>1 DEF Reached, ReachedMessage
    <3> QED BY <2>1, <3>2
  <2>2. CASE ~(s = r /\ k = p + 1)
    <3>1. k \in dm.current_waypoint[s] + 1 .. Position(dm, s)
      <4>1. CASE s = r
        <5>1. k \in dm.current_waypoint[r] + 1 .. p + 1 /\ k # p + 1
          BY <1>6, <2>2, <4>1
        <5> QED BY <1>4, <4>1, <5>1
      <4> QED BY <1>7, <4>1
    <3>2. \E n \in DOMAIN message_queue : Reached(n, s) /\ message_queue[n].index = k
      BY <3>1 DEF RInv, ReportsComplete
    <3> QED BY <1>1, <1>5, <3>2, ReportsStay
  <2> QED BY <2>1, <2>2
<1>10. NoRequestQueued' /\ SurvivesUnrequested'
  <2>1. \A n \in DOMAIN message_queue' :
          n \in DOMAIN message_queue \/ n = Len(message_queue) + 1
    BY <1>8
  <2>2. m.type = "waypoint_reached"
    BY DEF ReachedMessage
  <2> HIDE DEF m
  <2> QED BY <1>2, <1>8, <2>1, <2>2 DEF RInv, NoRequestQueued, SurvivesUnrequested
<1>11. IInv'
  BY ArriveKeeps DEF RInv
<1> QED BY <1>9, <1>10, <1>11 DEF RInv

\* The worker takes a message: the reports behind it stay.
LEMMA RHandleKeeps ==
  ASSUME RInv, HandleMessage
  PROVE  RInv'
<1>1. /\ message_queue # <<>>
      /\ message_queue' = Tail(message_queue)
      /\ UNCHANGED envVars
  BY DEF HandleMessage, Worker, HandlePlan, HandleWaypointReached,
         HandleCommittedLocationsRequest, NextMessage
<1>2. message_queue \in Seq(Messages) /\ ManagerType(dm) /\ Head(message_queue) = message_queue[1]
  BY <1>1, BeforeHandling DEF RInv, IInv, TypeOK
<1>3. /\ DOMAIN message_queue = 1 .. Len(message_queue)
      /\ Len(message_queue) \in Nat \ {0}
      /\ DOMAIN message_queue' = 1 .. Len(message_queue) - 1
      /\ \A n \in 1 .. Len(message_queue) - 1 : message_queue'[n] = message_queue[n + 1]
  BY <1>1, <1>2, QueueShrinks
<1>4. ASSUME NEW s \in Robots, NEW k \in dm.current_waypoint[s] + 1 .. Position(dm, s),
             ~(Reached(1, s) /\ message_queue[1].index = k)
      PROVE  \E n \in DOMAIN message_queue' : Reached(n, s)' /\ message_queue'[n].index = k
  <2>1. PICK n \in DOMAIN message_queue : Reached(n, s) /\ message_queue[n].index = k
    BY DEF RInv, ReportsComplete
  <2>2. n # 1
    BY <1>4, <2>1
  <2>3. n - 1 \in 1 .. Len(message_queue) - 1 /\ (n - 1) + 1 = n
    BY <1>3, <2>1, <2>2
  <2>4. PICK i \in DOMAIN message_queue' : message_queue'[i] = message_queue[n]
    BY <1>3, <2>3
  <2>5. Reached(i, s)' /\ message_queue'[i].index = k
    BY <2>1, <2>4 DEF Reached
  <2> QED BY <2>5
<1>5. NoRequestQueued'
  <2>1. \A n \in 1 .. Len(message_queue) - 1 : n + 1 \in DOMAIN message_queue
    BY <1>3
  <2> QED BY <1>1, <1>3, <2>1 DEF RInv, NoRequestQueued, envVars
<1>6. CASE HandlePlan
  <2>1. /\ IInv'
        /\ alive' = TRUE
        /\ dm'.current_waypoint = dm.current_waypoint
        /\ \A s \in Robots : Position(dm, s)' = Position(dm, s)
    BY <1>1, <1>6, HandlePlanKeeps DEF RInv
  <2>2. \A s \in Robots : ~Reached(1, s)
    BY <1>2, <1>6 DEF HandlePlan, NextMessage, Reached
  <2>3. ReportsComplete'
    BY <1>4, <2>1, <2>2 DEF ReportsComplete
  <2> QED BY <1>5, <2>1, <2>3 DEF RInv, SurvivesUnrequested
<1>7. CASE HandleWaypointReached
  <2> DEFINE r == Head(message_queue).robot
             k == Head(message_queue).index
  <2>1. /\ IInv'
        /\ alive' = TRUE
        /\ \A s \in Robots :
             /\ dm'.current_waypoint[s] = IF s = r THEN k ELSE dm.current_waypoint[s]
             /\ Position(dm, s)' = Position(dm, s)
    BY <1>1, <1>7, HandleWaypointReachedKeeps DEF RInv
  <2>2. \A s \in Robots : Reached(1, s) <=> s = r
    BY <1>2, <1>7 DEF HandleWaypointReached, NextMessage, Reached
  <2>3. ReportsComplete'
    <3> SUFFICES ASSUME NEW s \in Robots,
                        NEW j \in dm'.current_waypoint[s] + 1 .. Position(dm, s)
                 PROVE  \E n \in DOMAIN message_queue' :
                          Reached(n, s)' /\ message_queue'[n].index = j
      BY <2>1 DEF ReportsComplete
    <3>1. dm.current_waypoint[s] \in Nat
      BY <1>2, ManagerIs
    <3>2. CASE s = r
      <4>1. 1 \in DOMAIN message_queue /\ Reached(1, r)
        BY <1>3, <2>2, <3>2
      <4>2. k \in Nat
        BY <1>2, <3>2, <4>1, ReportedIndex
      <4>3. dm.current_waypoint[r] < k
        BY <1>2, <3>2, <4>1 DEF RInv, IInv, ReportsInOrder
      <4>4. j \in k + 1 .. Position(dm, s)
        BY <2>1, <3>2
      <4>5. j \in dm.current_waypoint[s] + 1 .. Position(dm, s) /\ j # k
        BY <3>1, <3>2, <4>2, <4>3, <4>4
      <4> QED BY <1>2, <1>4, <4>5
    <3>3. CASE s # r
      <4>1. dm'.current_waypoint[s] = dm.current_waypoint[s] /\ ~Reached(1, s)
        BY <2>1, <2>2, <3>3
      <4> QED BY <1>4, <4>1
    <3> QED BY <3>2, <3>3
  <2> QED BY <1>5, <2>1, <2>3 DEF RInv, SurvivesUnrequested
<1>8. CASE HandleCommittedLocationsRequest
  <2>1. IInv'
    BY <1>1, <1>8, HandleRequestKeeps DEF RInv
  <2>2. message_queue[1].type = "committed_locations_request"
    BY <1>2, <1>8 DEF HandleCommittedLocationsRequest, NextMessage
  <2>3. \A s \in Robots : ~Reached(1, s)
    BY <2>2 DEF Reached
  <2>4. pending' = pending /\ dm'.current_waypoint = dm.current_waypoint
                           /\ dm'.latest_enqueued = dm.latest_enqueued
    BY <1>2, <1>8 DEF HandleCommittedLocationsRequest, ComputeCommitCut, ManagerType
  <2>5. \A s \in Robots : Position(dm, s)' = Position(dm, s)
    BY <2>4 DEF Position
  <2>6. ReportsComplete'
    BY <1>4, <2>3, <2>4, <2>5 DEF ReportsComplete
  <2>7. SurvivesUnrequested'
    <3>1. requests # 0
      BY <1>3, <2>2 DEF RInv, NoRequestQueued
    <3> QED BY <1>1, <3>1 DEF SurvivesUnrequested, envVars
  <2> QED BY <1>5, <2>1, <2>6, <2>7 DEF RInv
<1> QED BY <1>6, <1>7, <1>8 DEF HandleMessage, Worker

LEMMA RStutteringKeeps ==
  ASSUME RInv, UNCHANGED vars
  PROVE  RInv'
<1>1. IInv'
  BY StutteringKeeps DEF RInv
<1>2. ReportsComplete' /\ NoRequestQueued' /\ SurvivesUnrequested'
  BY DEF RInv, vars, ReportsComplete, NoRequestQueued, SurvivesUnrequested, Reached, Position
<1> QED BY <1>1, <1>2 DEF RInv

LEMMA RStepKeeps == RInv /\ [Next]_vars => RInv'
<1> SUFFICES ASSUME RInv, [Next]_vars PROVE RInv'
  OBVIOUS
<1>1. CASE HandleMessage
  BY <1>1, RHandleKeeps
<1>2. CASE DeliverRequest \/ \E r \in Robots : DeliverPlan(r)
  BY <1>2, RDeliverKeeps
<1>3. CASE \E r \in Robots : RobotArrives(r)
  BY <1>3, RArriveKeeps
<1>4. CASE UNCHANGED vars
  BY <1>4, RStutteringKeeps
<1> QED BY <1>1, <1>2, <1>3, <1>4 DEF Next

LEMMA RInvariance == Spec => []RInv
BY RInitially, RStepKeeps, PTL DEF Spec

\* Plans, reports and dispatches alone never stop the worker thread: in a
\* batch for which no committed locations are asked, no handler reads behind
\* the end of a plan or fails.
THEOREM UnrequestedBatchSurvives == Spec => []SurvivesUnrequested
<1>1. RInv => SurvivesUnrequested
  BY DEF RInv
<1> QED BY <1>1, RInvariance, PTL

-----------------------------------------------------------------------------
(* What is in flight.                                                      *)

\* A set has as many elements as the numbers that number them.
LEMMA Numbered ==
  ASSUME NEW S, NEW n \in Nat, NEW f \in [S -> 1 .. n],
         \A a, b \in S : f[a] = f[b] => a = b,
         \A k \in 1 .. n : \E a \in S : f[a] = k
  PROVE  Cardinality(S) = n
<1>1. IsFiniteSet(1 .. n) /\ Cardinality(1 .. n) = n
  <2>1. Cardinality(1 .. n) = IF 1 > n THEN 0 ELSE n - 1 + 1
    BY FS_Interval
  <2> QED BY <2>1, FS_Interval
<1>2. f \in Injection(S, 1 .. n) /\ f \in Surjection(S, 1 .. n)
  BY DEF Injection, IsInjective, Surjection
<1>3. Cardinality(S) = Cardinality(1 .. n)
  BY <1>1, <1>2, FS_Injection
<1> QED BY <1>1, <1>3

\* The place of a report in the queue among the reports of its robot is the
\* distance of its index from the current waypoint.
LEMMA ReportPlaces ==
  ASSUME RInv, NEW r \in Robots
  PROVE  LET c == dm.current_waypoint[r]
             p == Position(dm, r)
             mine == {n \in DOMAIN message_queue : Reached(n, r)}
         IN /\ c \in Nat /\ p \in Nat /\ c <= p
            /\ Cardinality(mine) = p - c
            /\ \A n \in mine :
                 /\ message_queue[n].index \in c + 1 .. p
                 /\ Cardinality({m \in mine : m <= n}) = message_queue[n].index - c
            /\ \A k \in c + 1 .. p : \E n \in mine : message_queue[n].index = k
<1> DEFINE c == dm.current_waypoint[r]
           p == Position(dm, r)
           mine == {n \in DOMAIN message_queue : Reached(n, r)}
           Index(n) == message_queue[n].index
<1>1. /\ ManagerType(dm)
      /\ message_queue \in Seq(Messages)
      /\ pending \in [Robots -> Seq([index : Nat, name : Locations])]
      /\ InOrder(dm, r)
  BY DEF RInv, IInv, TypeOK, PendingInOrder
<1>2. c \in Nat /\ p \in Nat /\ c <= p
  <2>1. c \in Nat /\ dm.latest_enqueued[r] \in Nat /\ Len(pending[r]) \in Nat
    BY <1>1, ManagerIs, LenProperties
  <2>2. p \in Int /\ c <= p
    BY <1>1, <2>1 DEF Position, InOrder
  <2> HIDE DEF c, p
  <2> QED BY <2>1, <2>2
<1>3. mine \subseteq Nat
  BY <1>1, LenProperties
<1>4. \A n \in mine : Index(n) \in c + 1 .. p
  <2> TAKE n \in mine
  <2>1. Index(n) \in Nat
    BY <1>1, ReportedIndex
  <2>2. c < Index(n) /\ Index(n) <= p
    BY DEF RInv, IInv, ReportsInOrder
  <2> HIDE DEF c, p, mine, Index
  <2> QED BY <1>2, <2>1, <2>2
<1>5. \A m, n \in mine : m < n => Index(m) < Index(n)
  <2> TAKE m \in mine, n \in mine
  <2> HAVE m < n
  <2>1. m \in 1 .. n - 1
    BY <1>1, LenProperties
  <2> QED BY <2>1 DEF RInv, IInv, ReportsInOrder
<1>6. \A k \in c + 1 .. p : \E n \in mine : Index(n) = k
  BY DEF RInv, ReportsComplete
<1> HIDE DEF c, p, mine, Index
<1>7. ASSUME NEW q \in c .. p, NEW S \in SUBSET mine,
             \A n \in S : Index(n) <= q,
             \A k \in c + 1 .. q : \E n \in S : Index(n) = k
      PROVE  Cardinality(S) = q - c
  <2> DEFINE f == [n \in S |-> Index(n) - c]
  <2>1. q - c \in Nat /\ f \in [S -> 1 .. q - c]
    BY <1>2, <1>4, <1>7
  <2>2. \A a, b \in S : f[a] = f[b] => a = b
    <3> TAKE a \in S, b \in S
    <3>1. a \in Nat /\ b \in Nat /\ Index(a) \in Int /\ Index(b) \in Int
      BY <1>2, <1>3, <1>4
    <3>2. a < b => Index(a) < Index(b)
      BY <1>5
    <3>3. b < a => Index(b) < Index(a)
      BY <1>5
    <3> QED BY <1>2, <3>1, <3>2, <3>3
  <2>3. \A k \in 1 .. q - c : \E a \in S : f[a] = k
    <3> TAKE k \in 1 .. q - c
    <3>1. c + k \in c + 1 .. q
      BY <1>2
    <3>2. PICK a \in S : Index(a) = c + k
      BY <1>7, <3>1
    <3>3. f[a] = k
      BY <1>2, <3>2
    <3> QED BY <3>3
  <2> HIDE DEF f
  <2> QED BY <2>1, <2>2, <2>3, Numbered
<1>8. Cardinality(mine) = p - c
  BY <1>2, <1>4, <1>6, <1>7
<1>9. ASSUME NEW n \in mine
      PROVE  Cardinality({m \in mine : m <= n}) = Index(n) - c
  <2> DEFINE S == {m \in mine : m <= n}
  <2>1. Index(n) \in c .. p
    BY <1>2, <1>4
  <2>2. \A m \in S : Index(m) <= Index(n)
    <3> TAKE m \in S
    <3>1. m = n \/ m < n
      BY <1>3
    <3> QED BY <1>2, <1>4, <1>5, <3>1
  <2>3. \A k \in c + 1 .. Index(n) : \E m \in S : Index(m) = k
    <3> TAKE k \in c + 1 .. Index(n)
    <3>1. k \in c + 1 .. p
      BY <1>2, <2>1
    <3>2. PICK m \in mine : Index(m) = k
      BY <1>6, <3>1
    <3>3. ~(n < m)
      <4>1. n < m => Index(n) < k
        BY <1>5, <3>2
      <4> QED BY <1>2, <2>1, <4>1
    <3> QED BY <1>3, <3>2, <3>3
  <2> QED BY <1>7, <2>1, <2>2, <2>3
<1> QED BY <1>2, <1>4, <1>6, <1>8, <1>9 DEF c, p, mine, Index

LEMMA InvariantOrdersFlight == RInv => InFlightInOrder
<1> SUFFICES ASSUME RInv, NEW r \in Robots
             PROVE  InFlight(r) = [k \in 1 .. dm.latest_enqueued[r] - dm.current_waypoint[r] |->
                                     dm.current_waypoint[r] + k]
  BY DEF InFlightInOrder
<1> DEFINE c == dm.current_waypoint[r]
           p == Position(dm, r)
           e == dm.latest_enqueued[r]
           mine == {n \in DOMAIN message_queue : Reached(n, r)}
           Place(n) == Cardinality({m \in mine : m <= n})
           reported == [k \in 1 .. Cardinality(mine) |->
                          message_queue[CHOOSE n \in mine : Place(n) = k].index]
           coming == [k \in DOMAIN pending[r] |-> pending[r][k].index]
<1>1. InFlight(r) = reported \o coming
  BY DEF InFlight, Reached
<1>2. /\ c \in Nat /\ p \in Nat /\ c <= p
      /\ Cardinality(mine) = p - c
      /\ \A n \in mine : /\ message_queue[n].index \in c + 1 .. p
                         /\ Place(n) = message_queue[n].index - c
      /\ \A k \in c + 1 .. p : \E n \in mine : message_queue[n].index = k
  BY ReportPlaces
<1>3. /\ e \in Nat
      /\ Len(pending[r]) = e - p
      /\ Len(pending[r]) \in Nat
      /\ DOMAIN pending[r] = 1 .. Len(pending[r])
      /\ \A n \in DOMAIN pending[r] : pending[r][n].index = p + n
  <2>1. ManagerType(dm) /\ pending[r] \in Seq([index : Nat, name : Locations]) /\ InOrder(dm, r)
    BY DEF RInv, IInv, TypeOK, PendingInOrder
  <2>2. e \in Nat /\ Len(pending[r]) \in Nat /\ DOMAIN pending[r] = 1 .. Len(pending[r])
    BY <2>1, ManagerIs, LenProperties
  <2>3. Len(pending[r]) = e - p
    BY <2>2 DEF Position
  <2>4. \A n \in DOMAIN pending[r] :
          pending[r][n] = [index |-> p + n, name |-> WaypointAt(batch[r], p + n).name]
    BY <2>1 DEF InOrder
  <2>5. ASSUME NEW n \in DOMAIN pending[r] PROVE pending[r][n].index = p + n
    <3>1. pending[r][n] = [index |-> p + n, name |-> WaypointAt(batch[r], p + n).name]
      BY <2>4
    <3>2. p \in Nat /\ n \in Nat
      BY <1>2, <2>2
    <3> HIDE DEF p
    <3> QED BY <3>1, <3>2
  <2> QED BY <2>2, <2>3, <2>5
<1> HIDE DEF c, p, e, mine, Place
<1>4. reported = [k \in 1 .. p - c |-> c + k]
  <2> SUFFICES ASSUME NEW k \in 1 .. p - c
               PROVE  message_queue[CHOOSE n \in mine : Place(n) = k].index = c + k
    BY <1>2
  <2>1. c + k \in c + 1 .. p
    BY <1>2
  <2>2. PICK n \in mine : message_queue[n].index = c + k
    BY <1>2, <2>1
  <2>3. Place(n) = k
    BY <1>2, <2>2
  <2> DEFINE chosen == CHOOSE i \in mine : Place(i) = k
  <2>4. chosen \in mine /\ Place(chosen) = k
    BY <2>3
  <2> HIDE DEF chosen
  <2>5. message_queue[chosen].index \in c + 1 .. p /\ Place(chosen) = message_queue[chosen].index - c
    BY <1>2, <2>4
  <2>6. message_queue[chosen].index = c + k
    BY <1>2, <2>4, <2>5
  <2> QED BY <2>6 DEF chosen
<1>5. coming = [k \in 1 .. e - p |-> p + k]
  BY <1>3
<1> HIDE DEF reported, coming
<1>6. p - c \in Nat /\ e - p \in Nat
  BY <1>2, <1>3
<1>7. reported \in Seq(Nat) /\ Len(reported) = p - c /\ coming \in Seq(Nat) /\ Len(coming) = e - p
  <2>1. reported \in [1 .. p - c -> Nat] /\ coming \in [1 .. e - p -> Nat]
    BY <1>2, <1>4, <1>5
  <2> QED BY <1>6, <2>1, FunctionIsSeq
<1>8. /\ reported \o coming \in Seq(Nat)
      /\ Len(reported \o coming) = e - c
      /\ \A k \in 1 .. e - c : (reported \o coming)[k] =
           IF k <= p - c THEN reported[k] ELSE coming[k - (p - c)]
  <2>1. (p - c) + (e - p) = e - c
    BY <1>2, <1>3
  <2>2. /\ reported \o coming \in Seq(Nat)
        /\ Len(reported \o coming) = Len(reported) + Len(coming)
        /\ \A k \in 1 .. Len(reported) + Len(coming) : (reported \o coming)[k] =
             IF k <= Len(reported) THEN reported[k] ELSE coming[k - Len(reported)]
    BY <1>7, ConcatProperties
  <2> QED BY <1>7, <2>1, <2>2
<1>9. \A k \in 1 .. e - c : (reported \o coming)[k] = c + k
  <2> TAKE k \in 1 .. e - c
  <2>1. CASE k <= p - c
    <3>1. k \in 1 .. p - c
      BY <1>6, <2>1
    <3> QED BY <1>4, <1>8, <2>1, <3>1
  <2>2. CASE ~(k <= p - c)
    <3>1. k - (p - c) \in 1 .. e - p /\ p + (k - (p - c)) = c + k
      BY <1>2, <1>3, <1>6, <2>2
    <3> QED BY <1>5, <1>8, <2>2, <3>1
  <2> QED BY <2>1, <2>2
<1>10. reported \o coming = [k \in 1 .. e - c |-> c + k]
  <2> DEFINE expected == [k \in 1 .. e - c |-> c + k]
  <2>1. e - c \in Nat /\ expected \in [1 .. e - c -> Nat]
    BY <1>2, <1>3
  <2>2. expected \in Seq(Nat) /\ Len(expected) = e - c
    <3> HIDE DEF expected
    <3> QED BY <2>1, FunctionIsSeq
  <2>3. \A k \in 1 .. e - c : expected[k] = c + k
    OBVIOUS
  <2> HIDE DEF expected
  <2>4. reported \o coming = expected
    BY <1>8, <1>9, <2>2, <2>3, SeqEqual
  <2> QED BY <2>4 DEF expected
<1> QED BY <1>1, <1>10 DEF c, e

\* No waypoint that was handed to a controller is lost, reported twice or
\* overtaken, however plans, requests and callbacks interleave.
THEOREM FlightInOrder == Spec => []InFlightInOrder
BY RInvariance, InvariantOrdersFlight, PTL

-----------------------------------------------------------------------------
(* Nothing is left waiting.                                                *)

\* A plan that has been delivered is in the queue until its robot has it.
PlansKept ==
  \A r \in delivered :
    \/ r \in Known(dm)
    \/ \E n \in DOMAIN message_queue :
         message_queue[n].type = "plan" /\ message_queue[n].robot = r

NoCut == requests = 0 => DOMAIN dm.cut_indices = {}

FullyDispatched == requests = 0 => FullyDispatchedIn(dm)

\* The inductive invariant behind NeverStuck.
NInv == RInv /\ PlansKept /\ NoCut /\ FullyDispatched

LEMMA NInitially == Init => NInv
<1> SUFFICES ASSUME Init PROVE NInv
  OBVIOUS
<1>1. RInv
  BY RInitially
<1>2. dm.robots = <<>> /\ dm.cut_indices = <<>> /\ delivered = {}
  BY DEF Init, ExecutorInit, EmptyManager
<1>3. Known(dm) = {}
  BY <1>2 DEF Known
<1> QED BY <1>1, <1>2, <1>3 DEF NInv, PlansKept, NoCut, FullyDispatched, FullyDispatchedIn

\* A message joins the queue and leaves the manager as it is.
LEMMA NCallbackKeeps ==
  ASSUME NInv, RInv', UNCHANGED <<dm, batch>>, requests' = 0 => requests = 0,
         NEW m \in Messages, message_queue' = Append(message_queue, m),
         delivered' = IF m.type = "plan" THEN delivered \cup {m.robot} ELSE delivered
  PROVE  NInv'
<1>1. NoCut' /\ FullyDispatched'
  BY DEF NInv, NoCut, FullyDispatched, FullyDispatchedIn
<1>2. /\ DOMAIN message_queue = 1 .. Len(message_queue)
      /\ Len(message_queue) \in Nat
      /\ DOMAIN message_queue' = 1 .. Len(message_queue) + 1
      /\ message_queue'[Len(message_queue) + 1] = m
      /\ \A n \in 1 .. Len(message_queue) : message_queue'[n] = message_queue[n]
  BY QueueGrows DEF NInv, RInv, IInv, TypeOK
<1>3. PlansKept'
  <2> SUFFICES ASSUME NEW r \in delivered', r \notin Known(dm)
               PROVE  \E n \in DOMAIN message_queue' :
                        message_queue'[n].type = "plan" /\ message_queue'[n].robot = r
    BY DEF PlansKept
  <2>1. CASE r \in delivered
    <3>1. PICK n \in DOMAIN message_queue :
            message_queue[n].type = "plan" /\ message_queue[n].robot = r
      BY <2>1 DEF NInv, PlansKept
    <3>2. n \in DOMAIN message_queue' /\ message_queue'[n] = message_queue[n]
      BY <1>2
    <3> QED BY <3>1, <3>2
  <2>2. CASE r \notin delivered
    <3>1. m.type = "plan" /\ m.robot = r
      BY <2>2
    <3>2. PICK n \in DOMAIN message_queue' : message_queue'[n] = m
      BY <1>2
    <3> QED BY <3>1, <3>2
  <2> QED BY <2>1, <2>2
<1> QED BY <1>1, <1>3 DEF NInv

\* A plan stays known or in the queue when another message is handled.
LEMMA PlansStay ==
  ASSUME NInv, message_queue # <<>>, message_queue' = Tail(message_queue),
         delivered' = delivered, Known(dm) \subseteq Known(dm)',
         message_queue[1].type = "plan" => message_queue[1].robot \in Known(dm)'
  PROVE  PlansKept'
<1>1. /\ DOMAIN message_queue = 1 .. Len(message_queue)
      /\ Len(message_queue) \in Nat \ {0}
      /\ DOMAIN message_queue' = 1 .. Len(message_queue) - 1
      /\ \A n \in 1 .. Len(message_queue) - 1 : message_queue'[n] = message_queue[n + 1]
  BY QueueShrinks DEF NInv, RInv, IInv, TypeOK
<1> SUFFICES ASSUME NEW r \in delivered, r \notin Known(dm)'
             PROVE  \E n \in DOMAIN message_queue' :
                      message_queue'[n].type = "plan" /\ message_queue'[n].robot = r
  BY DEF PlansKept
<1>2. PICK n \in DOMAIN message_queue :
        message_queue[n].type = "plan" /\ message_queue[n].robot = r
  BY DEF NInv, PlansKept
<1>3. n # 1
  BY <1>2
<1>4. n - 1 \in 1 .. Len(message_queue) - 1 /\ (n - 1) + 1 = n
  BY <1>1, <1>2, <1>3
<1>5. PICK i \in DOMAIN message_queue' : message_queue'[i] = message_queue[n]
  BY <1>1, <1>4
<1> QED BY <1>2, <1>5

LEMMA NHandleKeeps ==
  ASSUME NInv, RInv', HandleMessage
  PROVE  NInv'
<1>1. /\ message_queue # <<>>
      /\ message_queue' = Tail(message_queue)
      /\ UNCHANGED envVars
  BY DEF HandleMessage, Worker, HandlePlan, HandleWaypointReached,
         HandleCommittedLocationsRequest, NextMessage
<1>2. /\ message_queue[1] = Head(message_queue)
      /\ 1 \in DOMAIN message_queue
      /\ ManagerType(dm)
  BY <1>1, BeforeHandling DEF NInv, RInv, IInv, TypeOK
<1>3. delivered' = delivered /\ requests' = requests
  BY <1>1 DEF envVars
<1>4. CASE HandlePlan
  <2>1. /\ Known(dm)' = Known(dm) \cup {Head(message_queue).robot}
        /\ dm'.cut_indices = dm.cut_indices
        /\ FullyDispatchedIn(dm)'
    BY <1>1, <1>4, HandlePlanKeeps DEF NInv, RInv
  <2>2. PlansKept'
    BY <1>1, <1>2, <1>3, <2>1, PlansStay
  <2> QED BY <1>3, <2>1, <2>2 DEF NInv, NoCut, FullyDispatched
<1>5. CASE HandleWaypointReached
  <2>1. /\ Known(dm)' = Known(dm)
        /\ dm'.cut_indices = dm.cut_indices
        /\ FullyDispatchedIn(dm)'
    BY <1>1, <1>5, HandleWaypointReachedKeeps DEF NInv, RInv
  <2>2. message_queue[1].type = "waypoint_reached"
    BY <1>2, <1>5 DEF HandleWaypointReached, NextMessage
  <2>3. PlansKept'
    BY <1>1, <1>3, <2>1, <2>2, PlansStay
  <2> QED BY <1>3, <2>1, <2>3 DEF NInv, NoCut, FullyDispatched
<1>6. CASE HandleCommittedLocationsRequest
  <2>1. message_queue[1].type = "committed_locations_request"
    BY <1>2, <1>6 DEF HandleCommittedLocationsRequest, NextMessage
  <2>2. requests # 0
    BY <1>2, <2>1 DEF NInv, RInv, NoRequestQueued
  <2>3. dm'.robots = dm.robots
    BY <1>2, <1>6 DEF HandleCommittedLocationsRequest, ComputeCommitCut, ManagerType
  <2>4. PlansKept'
    BY <1>1, <1>3, <2>1, <2>3, PlansStay DEF Known
  <2> QED BY <1>3, <2>2, <2>4 DEF NInv, NoCut, FullyDispatched
<1> QED BY <1>4, <1>5, <1>6 DEF HandleMessage, Worker

LEMMA NStepKeeps == NInv /\ [Next]_vars => NInv'
<1> SUFFICES ASSUME NInv, [Next]_vars PROVE NInv'
  OBVIOUS
<1>1. RInv'
  BY RStepKeeps DEF NInv
<1>2. CASE HandleMessage
  BY <1>1, <1>2, NHandleKeeps
<1>3. ASSUME NEW r \in Robots, DeliverPlan(r) PROVE NInv'
  <2>1. PlanMessage(r, batch[r]) \in Messages
    BY DEF PlanMessage, Messages, NInv, RInv, IInv, TypeOK
  <2>2. PlanMessage(r, batch[r]).type = "plan" /\ PlanMessage(r, batch[r]).robot = r
    BY DEF PlanMessage
  <2> QED BY <1>1, <1>3, <2>1, <2>2, NCallbackKeeps DEF DeliverPlan, OnPlan
<1>4. CASE DeliverRequest
  <2>1. requests \in Nat /\ requests' = requests + 1
    BY <1>4, MaxRequestsAssumption DEF DeliverRequest, NInv, RInv, IInv, TypeOK
  <2>2. /\ RequestMessage(requests') \in Messages
        /\ RequestMessage(requests').type = "committed_locations_request"
    BY <2>1 DEF RequestMessage, Messages
  <2>3. requests' # 0
    BY <2>1
  <2> QED BY <1>1, <1>4, <2>2, <2>3, NCallbackKeeps DEF DeliverRequest, OnCommittedLocationsRequest
<1>5. ASSUME NEW r \in Robots, RobotArrives(r) PROVE NInv'
  <2> DEFINE m == ReachedMessage(r, Head(pending[r]).index)
  <2>1. /\ pending[r] # <<>>
        /\ message_queue' = Append(message_queue, m)
        /\ UNCHANGED <<dm, batch, delivered, requests>>
    BY <1>5 DEF RobotArrives, Arrive, envVars
  <2>2. pending[r] \in Seq([index : Nat, name : Locations])
    BY DEF NInv, RInv, IInv, TypeOK
  <2>3. Head(pending[r]) \in [index : Nat, name : Locations]
    BY <2>1, <2>2, HeadTailProperties
  <2>4. m \in Messages /\ m.type = "waypoint_reached"
    BY <2>3 DEF ReachedMessage, Messages
  <2> HIDE DEF m
  <2> QED BY <1>1, <2>1, <2>4, NCallbackKeeps
<1>6. CASE UNCHANGED vars
  BY <1>1, <1>6 DEF vars, NInv, PlansKept, NoCut, FullyDispatched, FullyDispatchedIn
<1> QED BY <1>2, <1>3, <1>4, <1>5, <1>6 DEF Next

\* When nothing is under way, a robot that is not at the end waits for a
\* blocker: the dispatch after the last report gave it all it could.
LEMMA QuietRobotWaits ==
  ASSUME NInv, requests = 0, message_queue = <<>>,
         NEW r \in Known(dm), pending[r] = <<>>,
         dm.current_waypoint[r] # LastIndex(batch[r])
  PROVE  /\ dm.current_waypoint[r] \in 0 .. LastIndex(batch[r])
         /\ ~AllBlockersSatisfied(dm, r, dm.current_waypoint[r])
<1> DEFINE c == dm.current_waypoint[r]
           e == dm.latest_enqueued[r]
           last == LastIndex(batch[r])
<1>1. /\ ManagerType(dm) /\ r \in Robots
      /\ InOrder(dm, r) /\ Installed(dm, r) /\ batch[r] \in Plan
  BY ManagerIs DEF NInv, RInv, IInv, TypeOK, PendingInOrder, PlansInstalled
<1>2. c \in Nat /\ e \in Nat /\ last \in Nat /\ e <= last /\ dm.plan[r] = batch[r]
  BY <1>1, ManagerIs, PlanFields DEF Installed
<1>3. Position(dm, r) = e
  <2>1. Len(pending[r]) = 0
    OBVIOUS
  <2>2. Position(dm, r) = e - 0
    BY <2>1, Zenon DEF Position
  <2> QED BY <1>2, <2>2
<1>4. c = e
  <2>1. c <= e
    BY <1>1, <1>3 DEF InOrder
  <2>2. ASSUME c < e PROVE FALSE
    <3>1. e \in c + 1 .. e
      BY <1>2, <2>2
    <3>2. \E n \in DOMAIN message_queue : Reached(n, r) /\ message_queue[n].index = e
      BY <1>1, <1>3, <3>1 DEF NInv, RInv, ReportsComplete
    <3> QED BY <3>2
  <2> QED BY <1>2, <2>1, <2>2
<1>5. ~MayEnqueueAfter(dm, r, c)
  BY <1>4 DEF NInv, FullyDispatched, FullyDispatchedIn
<1>6. UpperBound(dm, r) = last
  BY <1>2 DEF NInv, NoCut, UpperBound
<1>7. c < last /\ c + 1 - c <= MaxEnqueued
  BY <1>2, <1>4, MaxEnqueuedAssumption
<1>8. ~AllBlockersSatisfied(dm, r, c)
  BY <1>5, <1>6, <1>7 DEF MayEnqueueAfter
<1> HIDE DEF c
<1>9. c \in 0 .. last
  BY <1>2, <1>7
<1> QED BY <1>8, <1>9 DEF c

LEMMA InvariantExcludesWaiting ==
  ASSUME \A plans \in Batches : NoCircularWait(plans), NInv, batch \in Batches
  PROVE  NeverStuck
<1> SUFFICES ASSUME requests = 0, delivered = Robots, message_queue = <<>>,
                    \A r \in Robots : pending[r] = <<>>,
                    NEW s \in Robots, ~IsComplete(dm, s)
             PROVE  FALSE
  BY DEF NeverStuck
<1> DEFINE c == dm.current_waypoint
<1>1. /\ ManagerType(dm) /\ BatchAssumption(batch)
      /\ \A r \in Robots : Installed(dm, r) /\ InOrder(dm, r)
  BY DEF NInv, RInv, IInv, TypeOK, PlansInstalled, PendingInOrder
<1>2. DOMAIN batch = Robots /\ \A r \in Robots : batch[r] \in Plan
  BY <1>1 DEF BatchAssumption
<1>3. Known(dm) = Robots
  <2>1. \A r \in Robots : r \in Known(dm)
    <3>1. DOMAIN message_queue = {}
      OBVIOUS
    <3> QED BY <3>1 DEF NInv, PlansKept
  <2> QED BY <1>1, <2>1, ManagerIs
<1>4. \A r \in Robots : /\ c[r] \in Nat /\ LastIndex(batch[r]) \in Nat
                        /\ dm.plan[r] = batch[r]
                        /\ Indices(batch[r]) = 0 .. LastIndex(batch[r])
  BY <1>1, <1>2, <1>3, ManagerIs, PlanFields DEF Installed
<1>5. \A r \in Robots : c[r] # LastIndex(batch[r]) =>
        /\ c[r] \in 0 .. LastIndex(batch[r])
        /\ ~AllBlockersSatisfied(dm, r, c[r])
  BY <1>3, QuietRobotWaits
<1>6. \A r \in Robots : c[r] \in Indices(batch[r])
  <2> TAKE r \in Robots
  <2>1. c[r] \in 0 .. LastIndex(batch[r])
    BY <1>4, <1>5
  <2> QED BY <1>4, <2>1
<1>7. c \in [DOMAIN batch -> UNION {Indices(batch[r]) : r \in DOMAIN batch}]
  <2>1. c \in [Robots -> Nat]
    BY <1>1, ManagerIs
  <2> QED BY <1>2, <1>6, <2>1
<1>8. c[s] < LastIndex(batch[s])
  <2>1. ~(c[s] >= LastIndex(batch[s]))
    BY <1>3, <1>4 DEF IsComplete
  <2> QED BY <1>4, <2>1
<1>9. PICK r \in Robots : MayDepart(batch, c, r)
  BY <1>2, <1>6, <1>7, <1>8 DEF NoCircularWait
<1>10. c[r] # LastIndex(batch[r])
  BY <1>4, <1>9 DEF MayDepart
<1>11. ASSUME NEW b \in Blockers(dm, r, c[r]) PROVE Satisfied(dm, b)
  <2>1. b \in WaypointAt(batch[r], c[r]).departure_blockers
    BY <1>4, <1>11 DEF Blockers
  <2>2. /\ b.name \in Robots
        /\ b.plan_id = batch[b.name].plan_id
        /\ WaypointAt(batch[b.name], c[b.name]).progress >= b.required_progress
    BY <1>2, <1>9, <2>1 DEF MayDepart
  <2> QED BY <1>3, <1>4, <2>2 DEF Satisfied, ProgressOf
<1> QED BY <1>5, <1>10, <1>11 DEF AllBlockersSatisfied

\* Deadlock freedom: when the plans of every batch form no circle, a batch
\* for which no cut is asked never comes to rest before all robots are at the
\* end of their plans.
THEOREM NoneIsStuck ==
  ASSUME \A plans \in Batches : NoCircularWait(plans)
  PROVE  Spec => []NeverStuck
<1>1. Init => NInv /\ batch \in Batches
  BY NInitially DEF Init
<1>2. NInv /\ batch \in Batches /\ [Next]_vars => (NInv /\ batch \in Batches)'
  <2>1. [Next]_vars => batch' = batch
    BY DEF Next, vars, HandleMessage, DeliverRequest, DeliverPlan, RobotArrives, envVars
  <2> QED BY <2>1, NStepKeeps
<1>3. NInv /\ batch \in Batches => NeverStuck
  BY InvariantExcludesWaiting
<1> QED BY <1>1, <1>2, <1>3, PTL DEF Spec

-----------------------------------------------------------------------------
(* A request between batches.                                              *)

\* The loop of the commit cut may run, on a manager whose plans are installed.
LEMMA InstalledIsCuttable ==
  ASSUME IInv
  PROVE  Cuttable(dm)
<1>1. ManagerType(dm) /\ batch \in [Robots -> Plan]
  BY DEF IInv, TypeOK
<1>2. dm.robots \in Seq(Robots) /\ Known(dm) \subseteq Robots
  BY <1>1, ManagerIs
<1>3. ASSUME NEW r \in Known(dm)
      PROVE  LastIndex(dm.plan[r]) \in Nat /\ dm.latest_enqueued[r] \in Nat
  <2>1. r \in Robots /\ dm.plan[r] = batch[r]
    BY <1>2 DEF IInv, PlansInstalled, Installed
  <2> QED BY <1>1, <2>1, ManagerIs, PlanFields
<1> QED BY <1>2, <1>3, SequenceIs DEF Cuttable

\* With no plan there, or all of them, no assertion of the cut fails.
LEMMA CutSucceeds ==
  ASSUME IInv, BlockersOnBatch(batch), Known(dm) \in {{}, Robots}
  PROVE  ~CommitCutFails(dm)
<1>1. Cuttable(dm)
  BY InstalledIsCuttable
<1>2. \A r \in Known(dm) : /\ r \in Robots /\ dm.plan[r] = batch[r] /\ batch[r] \in Plan
                           /\ dm.latest_enqueued[r] <= LastIndex(dm.plan[r])
                           /\ dm.current_waypoint[r] \in Nat
  BY ManagerIs DEF IInv, TypeOK, PlansInstalled, Installed
<1>3. DOMAIN batch = Robots
  BY DEF IInv, TypeOK
<1>4. Undangling(dm)
  <2> SUFFICES ASSUME NEW r \in Known(dm), NEW b \in Consulted(dm, r, LastIndex(dm.plan[r]))
               PROVE  ~Dangling(dm, b)
    BY DEF Undangling
  <2>1. PICK k \in dm.current_waypoint[r] .. LastIndex(dm.plan[r]) : b \in Blockers(dm, r, k)
    BY DEF Consulted
  <2>2. k \in Indices(batch[r])
    BY <1>2, <2>1, PlanFields
  <2>3. b \in WaypointAt(batch[r], k).departure_blockers
    BY <1>2, <2>1 DEF Blockers
  <2>4. b.name \in Robots /\ b.plan_id = batch[b.name].plan_id
    BY <1>2, <1>3, <2>2, <2>3 DEF BlockersOnBatch
  <2> QED BY <1>2, <2>4 DEF Dangling
<1> QED BY <1>1, <1>2, <1>4, CutCoversReleased

LEMMA SurvivalKept ==
  ASSUME RInv, RInv', BlockersOnBatch(batch), ExecutorSurvives, [Next]_vars
  PROVE  ExecutorSurvives'
<1>1. CASE HandleMessage
  <2>1. message_queue # <<>> /\ UNCHANGED envVars /\ alive
    BY <1>1 DEF HandleMessage, Worker, HandlePlan, HandleWaypointReached,
                HandleCommittedLocationsRequest, NextMessage
  <2>2. CASE HandlePlan
    BY <2>1, <2>2, HandlePlanKeeps DEF RInv, ExecutorSurvives
  <2>3. CASE HandleWaypointReached
    BY <2>1, <2>3, HandleWaypointReachedKeeps DEF RInv, ExecutorSurvives
  <2>4. CASE HandleCommittedLocationsRequest
    <3>1. CASE CommitCutFails(dm)
      <4>1. Known(dm) \notin {{}, Robots} /\ dm' = dm
        BY <2>4, <3>1, CutSucceeds DEF HandleCommittedLocationsRequest, RInv
      <4> QED BY <4>1 DEF ExecutorSurvives
    <3>2. CASE ~CommitCutFails(dm)
      BY <2>1, <2>4, <3>2 DEF HandleCommittedLocationsRequest, ExecutorSurvives
    <3> QED BY <3>1, <3>2
  <2> QED BY <1>1, <2>2, <2>3, <2>4 DEF HandleMessage, Worker
<1>2. CASE ~HandleMessage
  <2>1. UNCHANGED <<dm, alive>>
    BY <1>2 DEF Next, DeliverPlan, OnPlan, DeliverRequest, OnCommittedLocationsRequest,
                RobotArrives, Arrive, vars
  <2> QED BY <2>1 DEF ExecutorSurvives
<1> QED BY <1>1, <1>2

\* A worker thread stops for no other reason than a request that is handled
\* between the plans of a batch: the asserts on the plan ids of blockers
\* (dependency_manager.py:309-316) and the reads of waypoints hold whenever
\* the batch is there as a whole, or nothing of it.
THEOREM WholeBatchSurvives ==
  ASSUME \A plans \in Batches : BlockersOnBatch(plans)
  PROVE  Spec => []ExecutorSurvives
<1> DEFINE SInv == RInv /\ ExecutorSurvives /\ batch \in Batches
<1>1. Init => SInv
  BY RInitially DEF Init, ExecutorInit, ExecutorSurvives
<1>2. SInv /\ [Next]_vars => SInv'
  <2> SUFFICES ASSUME SInv, [Next]_vars PROVE SInv'
    OBVIOUS
  <2>1. RInv'
    BY RStepKeeps
  <2>2. batch' = batch
    BY DEF Next, vars, HandleMessage, DeliverRequest, DeliverPlan, RobotArrives, envVars
  <2> QED BY <2>1, <2>2, SurvivalKept
<1>3. SInv => ExecutorSurvives
  OBVIOUS
<1> QED BY <1>1, <1>2, <1>3, PTL DEF Spec

=============================================================================
