----------------------- MODULE DependencyManagerProofs -----------------------
(***************************************************************************)
(* Lemmas about the operations of the dependency manager and the dispatch  *)
(* of waypoints, for any robots and plans: what they do to plans, to cuts, *)
(* and to the order of visits.  Both the proofs about a batch and those    *)
(* about the whole system rest on them.                                    *)
(***************************************************************************)
EXTENDS PlanExecutor, NatOrder

-----------------------------------------------------------------------------
(* The loop of _compute_commit_cut ends, and only moves the cut forward,   *)
(* within the plans.                                                       *)

\* What the loop needs of a manager.
Cuttable(d) ==
  /\ IsSequence(d.robots)
  /\ Known(d) \subseteq Robots
  /\ \A r \in Known(d) : LastIndex(d.plan[r]) \in Nat /\ d.latest_enqueued[r] \in Nat

\* No blocker that may be consulted names a plan its robot does not have.
Undangling(d) ==
  \A r \in Known(d) : \A b \in Consulted(d, r, LastIndex(d.plan[r])) : ~Dangling(d, b)

Within(d, c) == \A r \in Known(d) : c.cut[r] <= LastIndex(d.plan[r])

\* From c to e the cut has moved forward, if at all, to waypoints of the plans;
\* an assertion fails only because of a blocker on a plan its robot does not
\* have.
Extends(d, c, e) ==
  /\ e \in LoopState(d)
  /\ \A r \in Known(d) :
       /\ c.cut[r] <= e.cut[r]
       /\ e.cut[r] = c.cut[r] \/ e.cut[r] <= LastIndex(d.plan[r])
  /\ Undangling(d) /\ Within(d, c) => e.failed = c.failed

\* A cut that lies within the plans still does.
LEMMA WithinKept ==
  ASSUME NEW d, NEW c, NEW e, Extends(d, c, e), Within(d, c)
  PROVE  Within(d, e)
BY DEF Extends, Within

LEMMA StateFields ==
  ASSUME NEW d, NEW c \in LoopState(d)
  PROVE  /\ c.cut \in [Known(d) -> Nat] /\ \A r \in Known(d) : c.cut[r] \in Nat
         /\ c.extended \in SUBSET Robots
         /\ c.failed \in BOOLEAN /\ c.done \in BOOLEAN
BY DEF LoopState

LEMMA KnownIs ==
  ASSUME NEW d, Cuttable(d)
  PROVE  /\ Len(d.robots) \in Nat /\ DOMAIN d.robots = 1 .. Len(d.robots)
         /\ \A n \in DOMAIN d.robots : d.robots[n] \in Known(d)
         /\ IsFiniteSet(Known(d))
<1>1. Len(d.robots) \in Nat /\ DOMAIN d.robots = 1 .. Len(d.robots)
  BY LenProperties DEF Cuttable, IsSequence
<1>2. \A n \in DOMAIN d.robots : d.robots[n] \in Known(d)
  BY DEF Known
<1>3. IsFiniteSet(DOMAIN d.robots)
  BY <1>1, IntervalsAreFinite
<1>4. IsFiniteSet(Known(d))
  <2> DEFINE f == [n \in DOMAIN d.robots |-> d.robots[n]]
  <2>1. f \in Surjection(DOMAIN d.robots, Known(d))
    BY DEF Surjection, Known
  <2> QED BY <1>3, <2>1, FS_Surjection
<1> QED BY <1>1, <1>2, <1>4

LEMMA ExtendsTransitive ==
  ASSUME NEW d, Cuttable(d), NEW a \in LoopState(d), NEW b, Extends(d, a, b),
         NEW c, Extends(d, b, c)
  PROVE  Extends(d, a, c)
<1>1. \A r \in Known(d) : /\ a.cut[r] \in Nat /\ b.cut[r] \in Nat /\ c.cut[r] \in Nat
                          /\ LastIndex(d.plan[r]) \in Nat
  BY StateFields DEF Extends, Cuttable
<1>2. \A r \in Known(d) :
        /\ a.cut[r] <= c.cut[r]
        /\ c.cut[r] = a.cut[r] \/ c.cut[r] <= LastIndex(d.plan[r])
  BY <1>1 DEF Extends
<1>3. Undangling(d) /\ Within(d, a) => c.failed = a.failed
  BY WithinKept DEF Extends
<1> QED BY <1>2, <1>3 DEF Extends

LEMMA RequiredIndexIs ==
  ASSUME NEW d, Cuttable(d), NEW b, b.name \in Known(d)
  PROVE  RequiredIndex(d, b) \in 0 .. LastIndex(d.plan[b.name])
<1> DEFINE p == d.plan[b.name]
           enough == {k \in Indices(p) : WaypointAt(p, k).progress >= b.required_progress}
<1>1. LastIndex(p) \in Nat
  BY DEF Cuttable
<1>2. Indices(p) = 0 .. LastIndex(p)
  BY DEF Indices
<1>3. CASE enough = {}
  <2>1. RequiredIndex(d, b) = LastIndex(p)
    BY <1>3, Zenon DEF RequiredIndex
  <2> QED BY <1>1, <2>1
<1>4. CASE enough # {}
  <2>1. RequiredIndex(d, b) = CHOOSE k \in enough : \A m \in enough : k <= m
    BY <1>4, Zenon DEF RequiredIndex
  <2>2. enough \in SUBSET Nat
    BY <1>2
  <2>3. enough \subseteq 0 .. LastIndex(p)
    BY <1>2
  <2> HIDE DEF enough, p
  <2>4. \E k \in enough : \A m \in enough : k <= m
    BY <1>4, <2>2, WellOrdered
  <2> QED BY <2>1, <2>3, <2>4 DEF p
<1> QED BY <1>3, <1>4

\* One pass over the waypoints of a robot.
LEMMA PassExtends ==
  ASSUME NEW d, Cuttable(d), NEW c \in LoopState(d), NEW r \in Known(d)
  PROVE  Extends(d, c, ExtendFor(d, r, c))
<1> DEFINE found == {b \in Consulted(d, r, c.cut[r]) : ~Dangling(d, b)}
           Wanted(s) == {RequiredIndex(d, b) : b \in {x \in found : x.name = s}}
           Moved(s) == CHOOSE k \in Wanted(s) \cup {c.cut[s]} :
                         \A m \in Wanted(s) \cup {c.cut[s]} : m <= k
           e == ExtendFor(d, r, c)
<1>1. /\ DOMAIN c = {"cut", "extended", "failed", "done"}
      /\ c.extended \in SUBSET Robots /\ c.failed \in BOOLEAN /\ c.done \in BOOLEAN
      /\ \A s \in Known(d) : c.cut[s] \in Nat
  BY DEF LoopState
<1>2. /\ e.cut = [s \in Known(d) |-> Moved(s)]
      /\ DOMAIN e = {"cut", "extended", "failed", "done"}
      /\ e.extended = c.extended /\ e.done = c.done /\ e.failed \in BOOLEAN
  BY <1>1 DEF ExtendFor
<1>3. ASSUME NEW s \in Known(d)
      PROVE  /\ Moved(s) \in Nat /\ c.cut[s] <= Moved(s)
             /\ Moved(s) = c.cut[s] \/ Moved(s) <= LastIndex(d.plan[s])
  <2>1. Wanted(s) \subseteq 0 .. LastIndex(d.plan[s])
    <3> SUFFICES ASSUME NEW b \in found, b.name = s
                 PROVE  RequiredIndex(d, b) \in 0 .. LastIndex(d.plan[s])
      OBVIOUS
    <3> QED BY RequiredIndexIs
  <2> DEFINE T == Wanted(s) \cup {c.cut[s]}
  <2>2. LastIndex(d.plan[s]) \in Nat /\ c.cut[s] \in Nat
    BY <1>1 DEF Cuttable
  <2> HIDE DEF Wanted
  <2>3. T \in SUBSET Nat /\ T # {} /\ c.cut[s] \in T
    BY <2>1, <2>2
  <2>4. IsFiniteSet(T)
    <3>1. IsFiniteSet(0 .. LastIndex(d.plan[s]))
      BY <2>2, IntervalsAreFinite
    <3>2. IsFiniteSet(Wanted(s))
      BY <2>1, <3>1, FS_Subset
    <3> QED BY <3>2, FS_AddElement
  <2>5. \A k \in T : k = c.cut[s] \/ k <= LastIndex(d.plan[s])
    BY <2>1, <2>2
  <2> HIDE DEF T
  <2>6. \E k \in T : \A m \in T : m <= k
    BY <2>3, <2>4, FiniteHasGreatest
  <2>7. Moved(s) = CHOOSE k \in T : \A m \in T : m <= k
    BY DEF T
  <2> HIDE DEF Moved
  <2> QED BY <2>3, <2>5, <2>6, <2>7
<1> HIDE DEF Moved, e
<1>4. e.cut \in [Known(d) -> Nat]
  BY <1>2, <1>3
<1>5. e \in LoopState(d)
  <2> DEFINE failed == c.failed \/ \E b \in Consulted(d, r, c.cut[r]) : Dangling(d, b)
  <2>1. e = [c EXCEPT !.cut = e.cut, !.failed = failed]
    BY <1>1 DEF e, ExtendFor
  <2>2. failed \in BOOLEAN
    OBVIOUS
  <2> HIDE DEF failed
  <2> QED BY <1>4, <2>1, <2>2 DEF LoopState
<1>6. ASSUME Undangling(d), Within(d, c) PROVE e.failed = c.failed
  <2>1. Consulted(d, r, c.cut[r]) \subseteq Consulted(d, r, LastIndex(d.plan[r]))
    <3> DEFINE p == d.current_waypoint[r]
    <3>1. c.cut[r] <= LastIndex(d.plan[r]) /\ c.cut[r] \in Nat /\ LastIndex(d.plan[r]) \in Nat
      BY <1>1, <1>6 DEF Within, Cuttable
    <3>2. p .. c.cut[r] \subseteq p .. LastIndex(d.plan[r])
      BY <3>1
    <3> HIDE DEF p
    <3> QED BY <3>2 DEF Consulted, p
  <2>2. ~ \E b \in Consulted(d, r, c.cut[r]) : Dangling(d, b)
    BY <1>6, <2>1 DEF Undangling
  <2>3. e.failed = (c.failed \/ \E b \in Consulted(d, r, c.cut[r]) : Dangling(d, b))
    BY <1>1 DEF e, ExtendFor
  <2> QED BY <1>1, <2>2, <2>3
<1> QED BY <1>2, <1>3, <1>5, <1>6 DEF Extends, e

-----------------------------------------------------------------------------
(* A round: a pass for every robot.                                        *)

\* The function of Round, for the first n robots.
Passes(d, c, f, n) ==
  f = [i \in 0 .. n |-> IF i = 0 THEN c ELSE ExtendFor(d, d.robots[i], f[i - 1])]

LEMMA PassesExist ==
  ASSUME NEW d, NEW c, NEW n \in Nat
  PROVE  \E f : Passes(d, c, f, n)
<1> DEFINE T == {m \in Nat : ~\E f : Passes(d, c, f, m)}
<1> SUFFICES ASSUME T # {} PROVE FALSE
  OBVIOUS
<1>1. PICK m \in T : \A i \in T : m <= i
  <2>1. T \in SUBSET Nat
    OBVIOUS
  <2> HIDE DEF T
  <2> QED BY <2>1, WellOrdered
<1>2. m \in Nat
  OBVIOUS
<1>3. CASE m = 0
  <2> DEFINE f == [i \in 0 .. 0 |-> c]
  <2>1. f = [i \in 0 .. 0 |-> IF i = 0 THEN c ELSE ExtendFor(d, d.robots[i], f[i - 1])]
    OBVIOUS
  <2>2. Passes(d, c, f, 0)
    BY <2>1, Zenon DEF Passes
  <2> QED BY <1>1, <1>3, <2>2
<1>4. CASE m # 0
  <2>1. m - 1 \in Nat /\ ~(m <= m - 1)
    BY <1>2, <1>4
  <2>2. PICK f : Passes(d, c, f, m - 1)
    BY <1>1, <2>1
  <2> DEFINE Value(g, i) == IF i = 0 THEN c ELSE ExtendFor(d, d.robots[i], g[i - 1])
             more == [i \in 0 .. m |-> Value(f, i)]
  <2>3. f = [i \in 0 .. m - 1 |-> Value(f, i)]
    BY <2>2 DEF Passes
  <2>4. ASSUME NEW i \in 0 .. m PROVE Value(f, i) = Value(more, i)
    <3>1. CASE i = 0
      BY <3>1
    <3>2. CASE i # 0
      <4>1. i - 1 \in 0 .. m - 1 /\ i - 1 \in 0 .. m
        BY <1>2, <3>2
      <4>2. f[i - 1] = Value(f, i - 1)
        <5> HIDE DEF Value
        <5> QED BY <2>3, <4>1
      <4>3. more[i - 1] = Value(f, i - 1)
        <5> HIDE DEF Value
        <5> QED BY <4>1
      <4>4. f[i - 1] = more[i - 1]
        BY <4>2, <4>3, Zenon
      <4> HIDE DEF more
      <4> QED BY <4>4, Zenon
    <3> QED BY <3>1, <3>2
  <2>5. more = [i \in 0 .. m |-> Value(more, i)]
    <3> HIDE DEF Value
    <3> QED BY <2>4
  <2> HIDE DEF more
  <2>6. Passes(d, c, more, m)
    BY <2>5, Zenon DEF Passes
  <2> QED BY <1>1, <2>6
<1> QED BY <1>3, <1>4

\* A round moves the cut forward unless it is the last.
LEMMA RoundExtends ==
  ASSUME NEW d, Cuttable(d), NEW c \in LoopState(d)
  PROVE  /\ Extends(d, c, Round(d, c))
         /\ Round(d, c).done \/ \E r \in Known(d) : Round(d, c).cut[r] > c.cut[r]
<1> DEFINE N == Len(d.robots)
           f == CHOOSE g : Passes(d, c, g, N)
           e == f[N]
           extended == {r \in Known(d) : e.cut[r] > c.cut[r]}
           done == extended = {} \/ extended = c.extended
<1>1. N \in Nat /\ DOMAIN d.robots = 1 .. N
  BY KnownIs
<1>2. Round(d, c) = [e EXCEPT !.extended = extended, !.done = done]
  BY Zenon DEF Round, Passes
<1>3. Passes(d, c, f, N)
  BY <1>1, PassesExist
<1> HIDE DEF N, f
<1>4. /\ f[0] = c
      /\ \A i \in 1 .. N : f[i] = ExtendFor(d, d.robots[i], f[i - 1])
  BY <1>1, <1>3 DEF Passes
<1> DEFINE T == {i \in 0 .. N : ~Extends(d, c, f[i])}
<1>5. T = {}
  <2> SUFFICES ASSUME T # {} PROVE FALSE
    OBVIOUS
  <2>1. PICK i \in T : \A j \in T : i <= j
    <3>1. T \in SUBSET Nat
      BY <1>1
    <3> HIDE DEF T
    <3> QED BY <3>1, WellOrdered
  <2>2. i \in 0 .. N /\ ~Extends(d, c, f[i])
    OBVIOUS
  <2>3. CASE i = 0
    BY <1>4, <2>2, <2>3, StateFields DEF Extends
  <2>4. CASE i # 0
    <3>1. i \in 1 .. N /\ i - 1 \in 0 .. N /\ ~(i <= i - 1)
      BY <1>1, <2>2, <2>4
    <3>2. Extends(d, c, f[i - 1])
      BY <2>1, <3>1
    <3>3. f[i - 1] \in LoopState(d)
      BY <3>2 DEF Extends
    <3>4. d.robots[i] \in Known(d)
      BY <1>1, <3>1, KnownIs
    <3>5. Extends(d, f[i - 1], f[i])
      BY <1>4, <3>1, <3>3, <3>4, PassExtends
    <3>6. Extends(d, c, f[i])
      BY <3>2, <3>5, ExtendsTransitive
    <3> QED BY <2>2, <3>6
  <2> QED BY <2>3, <2>4
<1>6. Extends(d, c, e)
  <2>1. N \in 0 .. N
    BY <1>1
  <2> QED BY <1>5, <2>1
<1>7. e \in LoopState(d)
  BY <1>6 DEF Extends
<1> HIDE DEF e
<1>8. extended \in SUBSET Robots /\ done \in BOOLEAN
  BY DEF Cuttable
<1>9. done \/ \E r \in Known(d) : e.cut[r] > c.cut[r]
  OBVIOUS
<1> HIDE DEF extended, done
<1>10. /\ Round(d, c) \in LoopState(d)
       /\ Round(d, c).cut = e.cut /\ Round(d, c).done = done /\ Round(d, c).failed = e.failed
  BY <1>2, <1>7, <1>8 DEF LoopState
<1> QED BY <1>6, <1>9, <1>10 DEF Extends

-----------------------------------------------------------------------------
(* The loop.                                                               *)

\* Where the cut may still be moved to.
Ahead(d, b, c) == {x \in Known(d) \X (0 .. b) : c.cut[x[1]] < x[2]}

\* b is behind the end of no plan.
Bounds(d, b) == b \in Nat /\ \A r \in Known(d) : LastIndex(d.plan[r]) <= b

LEMMA BoundExists ==
  ASSUME NEW d, Cuttable(d)
  PROVE  \E b : Bounds(d, b)
<1> DEFINE T == {LastIndex(d.plan[r]) : r \in Known(d)} \cup {0}
<1>1. T \in SUBSET Nat /\ T # {}
  BY DEF Cuttable
<1>2. IsFiniteSet(T)
  <2>1. IsFiniteSet({LastIndex(d.plan[r]) : r \in Known(d)})
    <3> DEFINE f == [r \in Known(d) |-> LastIndex(d.plan[r])]
               S == {LastIndex(d.plan[r]) : r \in Known(d)}
    <3>1. f \in Surjection(Known(d), S)
      BY DEF Surjection
    <3> QED BY <3>1, KnownIs, FS_Surjection
  <2> QED BY <2>1, FS_AddElement
<1>3. \A r \in Known(d) : LastIndex(d.plan[r]) \in T
  OBVIOUS
<1> HIDE DEF T
<1>4. PICK b \in T : \A k \in T : k <= b
  BY <1>1, <1>2, FiniteHasGreatest
<1> QED BY <1>1, <1>3, <1>4 DEF Bounds

\* The places ahead become fewer in every round but the last.
LEMMA RoundAhead ==
  ASSUME NEW d, Cuttable(d), NEW b, Bounds(d, b), NEW c \in LoopState(d)
  PROVE  /\ Cardinality(Ahead(d, b, c)) \in Nat
         /\ Round(d, c).done
              \/ Cardinality(Ahead(d, b, Round(d, c))) < Cardinality(Ahead(d, b, c))
<1> DEFINE e == Round(d, c)
           A == Ahead(d, b, c)
           B == Ahead(d, b, e)
<1>1. Extends(d, c, e) /\ (e.done \/ \E r \in Known(d) : e.cut[r] > c.cut[r])
  BY RoundExtends
<1> HIDE DEF e
<1>2. IsFiniteSet(A)
  <2>1. IsFiniteSet(Known(d)) /\ IsFiniteSet(0 .. b)
    BY KnownIs, IntervalsAreFinite DEF Bounds
  <2>2. IsFiniteSet(Known(d) \X (0 .. b))
    BY <2>1, FS_Product
  <2>3. A \subseteq Known(d) \X (0 .. b)
    BY DEF Ahead
  <2> QED BY <2>2, <2>3, FS_Subset
<1>3. \A r \in Known(d) : c.cut[r] \in Nat /\ e.cut[r] \in Nat
  BY <1>1, StateFields DEF Extends
<1>4. B \subseteq A
  <2> SUFFICES ASSUME NEW x \in Known(d) \X (0 .. b), e.cut[x[1]] < x[2]
               PROVE  c.cut[x[1]] < x[2]
    BY DEF Ahead
  <2>1. x[1] \in Known(d) /\ x[2] \in Nat
    BY DEF Bounds
  <2>2. c.cut[x[1]] <= e.cut[x[1]]
    BY <1>1, <2>1 DEF Extends
  <2> QED BY <1>3, <2>1, <2>2
<1>5. CASE e.done
  BY <1>2, <1>5, FS_CardinalityType DEF e
<1>6. ASSUME NEW r \in Known(d), e.cut[r] > c.cut[r]
      PROVE  Cardinality(B) < Cardinality(A)
  <2>1. e.cut[r] \in 0 .. b
    <3>1. e.cut[r] <= LastIndex(d.plan[r]) /\ LastIndex(d.plan[r]) \in Nat
      BY <1>1, <1>3, <1>6 DEF Extends, Cuttable
    <3> QED BY <1>3, <3>1 DEF Bounds
  <2> DEFINE x == <<r, e.cut[r]>>
  <2>2. x \in A /\ x \notin B
    BY <1>3, <1>6, <2>1 DEF Ahead
  <2>3. IsFiniteSet(B) /\ Cardinality(B) <= Cardinality(A) /\ Cardinality(B) # Cardinality(A)
    BY <1>2, <1>4, <2>2, FS_Subset
  <2>4. Cardinality(A) \in Nat /\ Cardinality(B) \in Nat
    BY <1>2, <2>3, FS_CardinalityType
  <2> QED BY <2>3, <2>4
<1> QED BY <1>1, <1>2, <1>5, <1>6, FS_CardinalityType DEF e

\* The function of CommitCutLoop.
Loop(d, f) == f = [c \in LoopState(d) |-> IF c.done THEN c ELSE f[Round(d, c)]]

\* The loop ends, wherever it begins.
LEMMA LoopExists ==
  ASSUME NEW d, Cuttable(d)
  PROVE  \E f : Loop(d, f)
<1>1. PICK b : Bounds(d, b)
  BY BoundExists
<1> DEFINE L == LoopState(d)
           Rank(c) == Cardinality(Ahead(d, b, c))
           Value(f, c) == IF c.done THEN c ELSE f[Round(d, c)]
           Right(f, n) == /\ f = [c \in L |-> f[c]]
                          /\ \A c \in L : c.done \/ Rank(c) < n => f[c] = Value(f, c)
           T == {n \in Nat : ~\E f : Right(f, n)}
<1>2. \A c \in L : Rank(c) \in Nat /\ Round(d, c) \in L
                   /\ (Round(d, c).done \/ Rank(Round(d, c)) < Rank(c))
  BY <1>1, RoundAhead, RoundExtends DEF Extends
<1> HIDE DEF L, Rank
<1>3. T = {}
  <2> SUFFICES ASSUME T # {} PROVE FALSE
    OBVIOUS
  <2>1. PICK n \in T : \A i \in T : n <= i
    <3>1. T \in SUBSET Nat
      OBVIOUS
    <3> HIDE DEF T
    <3> QED BY <3>1, WellOrdered
  <2>2. n \in Nat /\ ~\E f : Right(f, n)
    OBVIOUS
  <2>3. CASE n = 0
    <3> DEFINE f == [c \in L |-> c]
    <3>1. Right(f, 0)
      BY <1>2
    <3> HIDE DEF f, Right
    <3> QED BY <2>2, <2>3, <3>1
  <2>4. CASE n # 0
    <3>1. n - 1 \in Nat /\ ~(n <= n - 1)
      BY <2>2, <2>4
    <3>2. PICK f : Right(f, n - 1)
      BY <2>1, <3>1
    <3> DEFINE g == [c \in L |-> Value(f, c)]
    <3>3. g = [c \in L |-> g[c]] /\ \A c \in L : g[c] = Value(f, c)
      OBVIOUS
    <3> HIDE DEF g
    <3>4. ASSUME NEW c \in L, c.done \/ Rank(c) < n PROVE g[c] = Value(g, c)
      <4>1. CASE c.done
        BY <3>3, <4>1
      <4>2. CASE ~c.done
        <5> DEFINE e == Round(d, c)
        <5>1. e \in L
          BY <1>2
        <5>2. g[c] = f[e] /\ Value(g, c) = g[e]
          BY <3>3, <4>2
        <5>3. g[e] = Value(f, e)
          BY <3>3, <5>1
        <5>4. f[e] = Value(f, e)
          <6>1. e.done \/ Rank(e) < n - 1
            <7>1. Rank(c) < n /\ Rank(c) \in Nat /\ Rank(e) \in Nat
              BY <1>2, <3>4, <4>2, <5>1
            <7>2. e.done \/ Rank(e) < Rank(c)
              BY <1>2
            <7> QED BY <2>2, <7>1, <7>2
          <6> HIDE DEF e, Value
          <6> QED BY <3>2, <5>1, <6>1
        <5> QED BY <5>2, <5>3, <5>4
      <4> QED BY <4>1, <4>2
    <3> QED BY <2>2, <3>3, <3>4
  <2> QED BY <2>3, <2>4
<1>4. PICK n \in Nat : \A c \in L : Rank(c) < n
  <2> DEFINE All == Known(d) \X (0 .. b)
  <2>1. IsFiniteSet(All)
    <3>1. IsFiniteSet(Known(d)) /\ IsFiniteSet(0 .. b)
      BY <1>1, KnownIs, IntervalsAreFinite DEF Bounds
    <3> QED BY <3>1, FS_Product
  <2>2. Cardinality(All) \in Nat
    BY <2>1, FS_CardinalityType
  <2>3. \A c \in L : Rank(c) <= Cardinality(All)
    <3>1. \A c : Ahead(d, b, c) \subseteq All
      BY DEF Ahead
    <3> QED BY <2>1, <3>1, FS_Subset DEF Rank
  <2> HIDE DEF All
  <2>4. Cardinality(All) + 1 \in Nat /\ \A c \in L : Rank(c) < Cardinality(All) + 1
    BY <1>2, <2>2, <2>3
  <2> QED BY <2>4
<1>5. PICK f : Right(f, n)
  BY <1>3
<1>6. \A c \in L : f[c] = Value(f, c)
  BY <1>4, <1>5
<1>7. f = [c \in L |-> Value(f, c)]
  <2> HIDE DEF Value
  <2> QED BY <1>5, <1>6
<1> QED BY <1>7, Zenon DEF Loop, L

\* The loop only moves the cut forward, within the plans.
LEMMA LoopExtends ==
  ASSUME NEW d, Cuttable(d), NEW f, Loop(d, f), NEW c \in LoopState(d)
  PROVE  Extends(d, c, f[c])
<1>1. PICK b : Bounds(d, b)
  BY BoundExists
<1> DEFINE L == LoopState(d)
           Rank(e) == Cardinality(Ahead(d, b, e))
           Wrong == {e \in L : ~Extends(d, e, f[e])}
           T == {Rank(e) : e \in Wrong}
<1>2. \A e \in L : /\ Rank(e) \in Nat /\ Extends(d, e, Round(d, e))
                   /\ Round(d, e).done \/ Rank(Round(d, e)) < Rank(e)
  BY <1>1, RoundAhead, RoundExtends
<1>3. \A e \in L : f[e] = IF e.done THEN e ELSE f[Round(d, e)]
  BY DEF Loop
<1>4. \A e \in L : Extends(d, e, e)
  BY StateFields DEF Extends
<1> HIDE DEF Rank, L
<1> SUFFICES ASSUME c \in Wrong PROVE FALSE
  BY DEF L
<1>5. PICK k \in T : \A i \in T : k <= i
  <2>1. T \in SUBSET Nat /\ T # {}
    BY <1>2
  <2> HIDE DEF T
  <2> QED BY <2>1, WellOrdered
<1>6. PICK e \in Wrong : k = Rank(e)
  OBVIOUS
<1> DEFINE x == Round(d, e)
<1>7. e \in L /\ ~Extends(d, e, f[e]) /\ x \in L /\ Extends(d, e, x)
  BY <1>2 DEF Extends, L
<1>8. ~e.done
  BY <1>3, <1>4, <1>7
<1>9. f[e] = f[x]
  BY <1>3, <1>7, <1>8
<1>10. Extends(d, x, f[x])
  <2>1. CASE x.done
    BY <1>3, <1>4, <1>7, <2>1
  <2>2. CASE ~x.done
    <3>1. Rank(x) < Rank(e) /\ Rank(x) \in Nat /\ Rank(e) \in Nat
      BY <1>2, <1>7, <2>2
    <3>2. ~(Rank(e) <= Rank(x))
      BY <3>1
    <3>3. Rank(x) \notin T
      BY <1>5, <1>6, <3>2
    <3>4. x \notin Wrong
      BY <3>3
    <3> QED BY <1>7, <3>4
  <2> QED BY <2>1, <2>2
<1>11. Extends(d, e, f[x])
  BY <1>7, <1>10, ExtendsTransitive DEF L
<1> QED BY <1>7, <1>9, <1>11

\* The cut covers what has been released, and lies within the plans where it
\* goes beyond ("Ensures that the last-enqueued vertex is included",
\* dependency_manager.py:233).  The assertions of _extend_commit_cut_for hold
\* unless a blocker names a plan that its robot does not have.
THEOREM CutCoversReleased ==
  ASSUME NEW d, Cuttable(d)
  PROVE  /\ CommitCutLoop(d) \in LoopState(d)
         /\ \A r \in Known(d) :
              LET k == CommitCutLoop(d).cut[r]
              IN /\ k \in Nat /\ d.latest_enqueued[r] <= k
                 /\ k = d.latest_enqueued[r] \/ k <= LastIndex(d.plan[r])
         /\ /\ Undangling(d)
            /\ \A r \in Known(d) : d.latest_enqueued[r] <= LastIndex(d.plan[r])
            => ~CommitCutFails(d)
<1> DEFINE f == CHOOSE g : Loop(d, g)
           first == [ cut |-> [r \in Known(d) |-> d.latest_enqueued[r]],
                      extended |-> {}, failed |-> FALSE, done |-> FALSE ]
<1>1. CommitCutLoop(d) = f[first]
  BY Zenon DEF CommitCutLoop, Loop
<1>2. Loop(d, f)
  BY LoopExists
<1>3. first \in LoopState(d)
  BY DEF LoopState, Cuttable
<1>4. \A r \in Known(d) : first.cut[r] = d.latest_enqueued[r]
  OBVIOUS
<1> HIDE DEF f, first
<1>5. Extends(d, first, f[first])
  BY <1>2, <1>3, LoopExtends
<1>6. f[first] \in LoopState(d)
  BY <1>5 DEF Extends
<1>7. ASSUME Undangling(d), \A r \in Known(d) : d.latest_enqueued[r] <= LastIndex(d.plan[r])
      PROVE  ~CommitCutFails(d)
  <2>1. first.failed = FALSE
    BY DEF first
  <2>2. Within(d, first)
    BY <1>4, <1>7 DEF Within
  <2>3. ~f[first].failed
    BY <1>5, <1>7, <2>1, <2>2 DEF Extends
  <2>4. Within(d, f[first])
    BY <1>5, <2>2, WithinKept
  <2>5. \A r \in Known(d) : f[first].cut[r] \in Indices(d.plan[r])
    BY <1>6, <2>4, StateFields DEF Within, Indices, Cuttable
  <2> QED BY <1>1, <2>3, <2>5 DEF CommitCutFails
<1> QED BY <1>1, <1>4, <1>5, <1>6, <1>7, StateFields DEF Extends

-----------------------------------------------------------------------------
(* Plans, and what cutting and joining makes of them.                      *)

WaypointFields == {"name", "progress", "departure_blockers"}

\* What every plan is like that the server makes or the executor joins.
WellFormed(p) ==
  /\ DOMAIN p = {"plan_id", "waypoints"}
  /\ IsSequence(p.waypoints) /\ p.waypoints # <<>>
  /\ \A n \in DOMAIN p.waypoints :
       DOMAIN p.waypoints[n] = WaypointFields /\ p.waypoints[n].progress \in Int

\* The waypoints v and w are the same but for their blockers.
SameStop(v, w) == v.name = w.name /\ v.progress = w.progress

LEMMA SequenceOf ==
  ASSUME NEW n \in Nat, NEW s, s = [i \in 1 .. n |-> s[i]]
  PROVE  IsSequence(s) /\ Len(s) = n /\ DOMAIN s = 1 .. n
<1> DEFINE S == {s[i] : i \in 1 .. n}
<1>1. s \in [1 .. n -> S]
  OBVIOUS
<1> HIDE DEF S
<1>2. s \in Seq(S) /\ Len(s) = n
  BY <1>1, FunctionIsSeq
<1> QED BY <1>1, <1>2, SequenceIs

LEMMA WaypointsAre ==
  ASSUME NEW p, WellFormed(p)
  PROVE  /\ Len(p.waypoints) \in Nat \ {0} /\ DOMAIN p.waypoints = 1 .. Len(p.waypoints)
         /\ LastIndex(p) \in Nat /\ LastIndex(p) = Len(p.waypoints) - 1
         /\ Indices(p) = 0 .. LastIndex(p)
         /\ \A k \in 0 .. LastIndex(p) :
              k + 1 \in DOMAIN p.waypoints /\ WaypointAt(p, k) = p.waypoints[k + 1]
<1>1. Len(p.waypoints) \in Nat \ {0} /\ DOMAIN p.waypoints = 1 .. Len(p.waypoints)
  BY LenProperties, EmptySeq DEF WellFormed, IsSequence
<1> QED BY <1>1 DEF LastIndex, Indices, WaypointAt

\* Restamping changes blockers only.
LEMMA RestampIs ==
  ASSUME NEW p, WellFormed(p), NEW old_id, NEW new_id
  PROVE  LET q == Restamp(p, old_id, new_id)
         IN /\ WellFormed(q) /\ q.plan_id = p.plan_id
            /\ Len(q.waypoints) = Len(p.waypoints)
            /\ \A n \in DOMAIN p.waypoints : SameStop(q.waypoints[n], p.waypoints[n])
<1> DEFINE q == Restamp(p, old_id, new_id)
           New(w) == [w EXCEPT !.departure_blockers =
                        {IF b.plan_id = old_id THEN [b EXCEPT !.plan_id = new_id] ELSE b : b \in @}]
<1>1. /\ DOMAIN q = {"plan_id", "waypoints"} /\ q.plan_id = p.plan_id
      /\ q.waypoints = [n \in DOMAIN p.waypoints |-> New(p.waypoints[n])]
  BY DEF Restamp, WellFormed
<1>2. \A w : DOMAIN w = WaypointFields => DOMAIN New(w) = WaypointFields /\ SameStop(New(w), w)
  BY DEF WaypointFields, SameStop
<1> HIDE DEF q, New
<1>3. Len(p.waypoints) \in Nat \ {0} /\ DOMAIN p.waypoints = 1 .. Len(p.waypoints)
  BY WaypointsAre
<1>4. IsSequence(q.waypoints) /\ Len(q.waypoints) = Len(p.waypoints)
      /\ DOMAIN q.waypoints = DOMAIN p.waypoints
  <2>1. q.waypoints = [n \in 1 .. Len(p.waypoints) |-> q.waypoints[n]]
    BY <1>1, <1>3
  <2> QED BY <1>3, <2>1, SequenceOf
<1>5. \A n \in DOMAIN p.waypoints : /\ DOMAIN q.waypoints[n] = WaypointFields
                                   /\ SameStop(q.waypoints[n], p.waypoints[n])
                                   /\ q.waypoints[n].progress \in Int
  BY <1>1, <1>2 DEF WellFormed, SameStop
<1>6. q.waypoints # <<>>
  BY <1>3, <1>4
<1> QED BY <1>1, <1>4, <1>5, <1>6 DEF WellFormed, q

\* How much of the old plan is retained.
Retained(old, cut_idx) ==
  IF cut_idx < Len(old.waypoints) THEN cut_idx + 1 ELSE Len(old.waypoints)

\* What is joined together: the old waypoints up to the cut, then the new ones,
\* without the first where that is at the location of the cut.
LEMMA SplicedIs ==
  ASSUME NEW old, WellFormed(old), NEW p, WellFormed(p), NEW cut_idx \in Nat
  PROVE  LET q == Spliced(old, cut_idx, p)
             n == Retained(old, cut_idx)
             merged == p.waypoints[1].name = old.waypoints[n].name
             from == IF merged THEN n - 1 ELSE n
         IN /\ WellFormed(q) /\ q.plan_id = p.plan_id
            /\ n \in 1 .. Len(old.waypoints) /\ from \in Nat
            /\ Len(q.waypoints) = from + Len(p.waypoints) /\ n <= Len(q.waypoints)
            /\ \A k \in 1 .. n : SameStop(q.waypoints[k], old.waypoints[k])
            /\ \A k \in n + 1 .. Len(q.waypoints) :
                 /\ k - from \in DOMAIN p.waypoints
                 /\ SameStop(q.waypoints[k], p.waypoints[k - from])
<1> DEFINE q == Spliced(old, cut_idx, p)
           n == Retained(old, cut_idx)
           start == p.waypoints[1]
           merged == start.name = old.waypoints[n].name
           from == IF merged THEN n - 1 ELSE n
           retained == SubSeq(old.waypoints, 1, n)
           kept == [retained EXCEPT ![n].departure_blockers = @ \cup start.departure_blockers]
<1>1. /\ Len(old.waypoints) \in Nat \ {0} /\ DOMAIN old.waypoints = 1 .. Len(old.waypoints)
      /\ Len(p.waypoints) \in Nat \ {0} /\ DOMAIN p.waypoints = 1 .. Len(p.waypoints)
      /\ IsSequence(p.waypoints) /\ p.waypoints # <<>> /\ IsSequence(old.waypoints)
  BY WaypointsAre DEF WellFormed
<1>2. n \in 1 .. Len(old.waypoints) /\ n \in Nat
  BY <1>1 DEF Retained
<1>3. /\ IsSequence(retained) /\ DOMAIN retained = 1 .. n /\ Len(retained) = n
      /\ \A k \in 1 .. n : retained[k] = old.waypoints[k]
  <2> DEFINE S == {old.waypoints[k] : k \in DOMAIN old.waypoints}
  <2>1. old.waypoints \in Seq(S)
    BY <1>1 DEF IsSequence
  <2>2. \A k \in 1 .. n : old.waypoints[k] \in S
    BY <1>1, <1>2
  <2> HIDE DEF n, S
  <2>3. /\ SubSeq(old.waypoints, 1, n) \in Seq(S)
        /\ Len(SubSeq(old.waypoints, 1, n)) = n
        /\ \A i \in 1 .. n : SubSeq(old.waypoints, 1, n)[i] = old.waypoints[i]
    BY <1>2, <2>2, SubSeqProperties
  <2> QED BY <2>3, SequenceIs, LenProperties
<1>4. q = [plan_id |-> p.plan_id,
           waypoints |-> IF start.name = retained[n].name THEN kept \o Tail(p.waypoints)
                         ELSE retained \o p.waypoints]
  BY DEF Spliced, Retained
<1>5. n \in 1 .. n /\ retained[n] = old.waypoints[n]
  BY <1>2, <1>3
<1>6. \A k \in DOMAIN old.waypoints : /\ DOMAIN old.waypoints[k] = WaypointFields
                                     /\ old.waypoints[k].progress \in Int
  BY DEF WellFormed
<1>7. \A k \in DOMAIN p.waypoints : /\ DOMAIN p.waypoints[k] = WaypointFields
                                   /\ p.waypoints[k].progress \in Int
  BY DEF WellFormed
<1>8. /\ IsSequence(kept) /\ DOMAIN kept = 1 .. n /\ Len(kept) = n
      /\ \A k \in 1 .. n : DOMAIN kept[k] = WaypointFields /\ SameStop(kept[k], old.waypoints[k])
  <2> DEFINE Fuller(w) == [w EXCEPT !.departure_blockers = @ \cup start.departure_blockers]
  <2>1. kept = [k \in 1 .. n |-> IF k = n THEN Fuller(retained[n]) ELSE retained[k]]
    <3> HIDE DEF n, start
    <3> QED BY <1>3, <1>5
  <2>2. \A w : DOMAIN w = WaypointFields =>
                 DOMAIN Fuller(w) = WaypointFields /\ SameStop(Fuller(w), w)
    BY DEF WaypointFields, SameStop
  <2> HIDE DEF kept, Fuller, n, retained
  <2>3. kept = [k \in 1 .. n |-> kept[k]]
    BY <2>1
  <2>4. IsSequence(kept) /\ Len(kept) = n /\ DOMAIN kept = 1 .. n
    BY <1>2, <2>3, SequenceOf
  <2>5. \A k \in 1 .. n : DOMAIN kept[k] = WaypointFields /\ SameStop(kept[k], old.waypoints[k])
    <3> TAKE k \in 1 .. n
    <3>1. k \in DOMAIN old.waypoints /\ retained[k] = old.waypoints[k]
      BY <1>1, <1>2, <1>3
    <3> QED BY <1>3, <1>5, <1>6, <2>1, <2>2, <3>1 DEF SameStop
  <2> QED BY <2>4, <2>5
<1> DEFINE rest == IF merged THEN Tail(p.waypoints) ELSE p.waypoints
           front == IF merged THEN kept ELSE retained
<1>9. q = [plan_id |-> p.plan_id, waypoints |-> front \o rest]
  BY <1>4, <1>5
<1>10. /\ IsSequence(front) /\ Len(front) = n
       /\ \A k \in 1 .. n : DOMAIN front[k] = WaypointFields /\ SameStop(front[k], old.waypoints[k])
  <2>1. \A k \in 1 .. n : k \in DOMAIN old.waypoints
    BY <1>1, <1>2
  <2> HIDE DEF n, kept, retained, merged
  <2> QED BY <1>3, <1>6, <1>8, <2>1 DEF SameStop
<1>11. /\ IsSequence(rest) /\ Len(rest) = Len(p.waypoints) - (n - from)
       /\ n - from \in {0, 1} /\ from \in Nat
       /\ \A k \in 1 .. Len(rest) :
            k + (n - from) \in DOMAIN p.waypoints /\ rest[k] = p.waypoints[k + (n - from)]
  <2>1. CASE merged
    <3>1. /\ IsSequence(Tail(p.waypoints)) /\ Len(Tail(p.waypoints)) = Len(p.waypoints) - 1
          /\ \A k \in 1 .. Len(p.waypoints) - 1 : Tail(p.waypoints)[k] = p.waypoints[k + 1]
      BY <1>1, TailIs
    <3>2. rest = Tail(p.waypoints) /\ from = n - 1
      BY <2>1
    <3> HIDE DEF n, rest, from
    <3>3. n - from = 1 /\ from \in Nat
      BY <1>2, <3>2
    <3> QED BY <1>1, <3>1, <3>2, <3>3
  <2>2. CASE ~merged
    <3>1. rest = p.waypoints /\ from = n
      BY <2>2
    <3> HIDE DEF n, rest, from
    <3>2. n - from = 0 /\ from \in Nat
      BY <1>2, <3>1
    <3> QED BY <1>1, <3>1, <3>2
  <2> QED BY <2>1, <2>2
<1> HIDE DEF n, from, front, rest, kept, retained, merged, q, start
<1>12. /\ IsSequence(front \o rest) /\ Len(rest) \in Nat
       /\ Len(front \o rest) = n + Len(rest)
       /\ DOMAIN (front \o rest) = 1 .. n + Len(rest)
       /\ \A k \in 1 .. n + Len(rest) :
            (front \o rest)[k] = IF k <= n THEN front[k] ELSE rest[k - n]
  BY <1>10, <1>11, JoinedIs
<1>13. Len(front \o rest) = from + Len(p.waypoints) /\ n <= Len(front \o rest)
  BY <1>1, <1>2, <1>11, <1>12
<1>14. ASSUME NEW k \in n + 1 .. Len(front \o rest)
       PROVE  k - from \in DOMAIN p.waypoints /\ (front \o rest)[k] = p.waypoints[k - from]
  <2>1. k - n \in 1 .. Len(rest) /\ k \in 1 .. n + Len(rest) /\ ~(k <= n)
    BY <1>2, <1>12
  <2>2. (k - n) + (n - from) = k - from
    BY <1>2, <1>11, <2>1
  <2> QED BY <1>11, <1>12, <2>1, <2>2
<1>15. ASSUME NEW k \in 1 .. n
       PROVE  (front \o rest)[k] = front[k] /\ SameStop(front[k], old.waypoints[k])
  <2>1. k \in 1 .. n + Len(rest) /\ k <= n
    BY <1>2, <1>12
  <2> QED BY <1>10, <1>12, <2>1
<1>16. \A k \in DOMAIN (front \o rest) :
         DOMAIN (front \o rest)[k] = WaypointFields /\ (front \o rest)[k].progress \in Int
  <2> TAKE k \in DOMAIN (front \o rest)
  <2>1. CASE k \in 1 .. n
    <3>1. k \in DOMAIN old.waypoints
      BY <1>1, <1>2, <2>1
    <3> QED BY <1>6, <1>10, <1>15, <2>1, <3>1 DEF SameStop
  <2>2. CASE k \notin 1 .. n
    <3>1. k \in n + 1 .. Len(front \o rest)
      BY <1>2, <1>12, <2>2
    <3> QED BY <1>7, <1>14, <3>1
  <2> QED BY <2>1, <2>2
<1>17. front \o rest # <<>>
  BY <1>2, <1>13
<1>18. q.waypoints = front \o rest /\ q.plan_id = p.plan_id /\ DOMAIN q = {"plan_id", "waypoints"}
  BY <1>9
<1>19. WellFormed(q)
  BY <1>12, <1>16, <1>17, <1>18 DEF WellFormed
<1>20. /\ Len(q.waypoints) = from + Len(p.waypoints) /\ n <= Len(q.waypoints)
       /\ \A k \in 1 .. n : SameStop(q.waypoints[k], old.waypoints[k])
       /\ \A k \in n + 1 .. Len(q.waypoints) :
            /\ k - from \in DOMAIN p.waypoints
            /\ SameStop(q.waypoints[k], p.waypoints[k - from])
  BY <1>13, <1>14, <1>15, <1>18 DEF SameStop
<1> QED BY <1>2, <1>11, <1>18, <1>19, <1>20 DEF q, n, from, merged, start

-----------------------------------------------------------------------------
(* What has been enqueued lies before the cut that is stored.              *)

\* The fields of a manager.
ManagerFields ==
  {"robots", "plan", "current_waypoint", "latest_enqueued", "completed_plan_ids", "cut_indices"}

\* dm' has the fields of d, except for what was enqueued.
LEMMA DispatchIs ==
  ASSUME NEW d, DOMAIN d = ManagerFields, DispatchUnblocked(d)
  PROVE  /\ DOMAIN dm' = ManagerFields
         /\ dm'.robots = d.robots /\ dm'.plan = d.plan /\ dm'.cut_indices = d.cut_indices
         /\ dm'.current_waypoint = d.current_waypoint
         /\ dm'.completed_plan_ids = d.completed_plan_ids
BY DEF DispatchUnblocked, ManagerFields

\* A manager whose plans hold what has been enqueued, and whose cuts bound it.
Sound(d) ==
  /\ DOMAIN d = ManagerFields
  /\ IsSequence(d.robots) /\ Known(d) \subseteq Robots
  /\ DOMAIN d.plan = Robots /\ \A r \in Known(d) : WellFormed(d.plan[r])
  /\ DOMAIN d.current_waypoint = Robots
  /\ d.latest_enqueued \in [Robots -> Nat]
  /\ \A r \in Known(d) : d.latest_enqueued[r] <= LastIndex(d.plan[r])
  /\ DOMAIN d.cut_indices \subseteq Known(d)
  /\ \A r \in DOMAIN d.cut_indices :
       d.cut_indices[r] \in Nat /\ d.latest_enqueued[r] <= d.cut_indices[r]

LEMMA SoundPlans ==
  ASSUME NEW d, Sound(d), NEW r \in Known(d)
  PROVE  /\ r \in Robots /\ WellFormed(d.plan[r])
         /\ LastIndex(d.plan[r]) \in Nat /\ Indices(d.plan[r]) = 0 .. LastIndex(d.plan[r])
         /\ d.latest_enqueued[r] \in Nat /\ d.latest_enqueued[r] <= LastIndex(d.plan[r])
BY WaypointsAre DEF Sound

\* The loop of get_valid_waypoints_and_advance ends within plan and cut.
LEMMA AdvancedIs ==
  ASSUME NEW d, Sound(d), NEW r \in Known(d)
  PROVE  /\ Advanced(d, r) \in d.latest_enqueued[r] .. LastIndex(d.plan[r])
         /\ r \in DOMAIN d.cut_indices => Advanced(d, r) <= d.cut_indices[r]
         /\ Reaches(d, r, Advanced(d, r))
<1> DEFINE e == d.latest_enqueued[r]
           last == LastIndex(d.plan[r])
           Stops(k) == k = last \/ ~MayEnqueueAfter(d, r, k)
           T == {k \in e .. last : Stops(k)}
<1>1. e \in Nat /\ last \in Nat /\ e <= last
  BY SoundPlans
<1>2. T \in SUBSET Nat /\ last \in T
  BY <1>1
<1>3. PICK m \in T : \A n \in T : m <= n
  BY <1>2, WellOrdered
<1>4. ASSUME NEW i \in e .. m - 1 PROVE MayEnqueueAfter(d, r, i)
  <2>1. i \notin T
    BY <1>1, <1>2, <1>3
  <2>2. i \in e .. last
    BY <1>1, <1>2, <1>3
  <2> QED BY <2>1, <2>2
<1>5. \E k \in e .. last : Reaches(d, r, k) /\ Stops(k)
  BY <1>3, <1>4 DEF Reaches
<1>6. /\ Advanced(d, r) \in e .. last
      /\ Reaches(d, r, Advanced(d, r))
  BY <1>5 DEF Advanced
<1>7. ASSUME r \in DOMAIN d.cut_indices, ~(Advanced(d, r) <= d.cut_indices[r]) PROVE FALSE
  <2>1. d.cut_indices[r] \in Nat /\ e <= d.cut_indices[r] /\ UpperBound(d, r) = d.cut_indices[r]
    BY <1>7 DEF Sound, UpperBound
  <2>2. d.cut_indices[r] \in e .. Advanced(d, r) - 1
    BY <1>1, <1>6, <1>7, <2>1
  <2>3. d.cut_indices[r] < UpperBound(d, r)
    BY <1>6, <2>2 DEF Reaches, MayEnqueueAfter
  <2> QED BY <2>1, <2>3
<1> QED BY <1>6, <1>7

\* A dispatch keeps to plans and cuts, and takes nothing back.
LEMMA DispatchIsSound ==
  ASSUME NEW d, Sound(d), DispatchUnblocked(d)
  PROVE  /\ Sound(dm') /\ Known(dm') = Known(d)
         /\ dm'.robots = d.robots /\ dm'.plan = d.plan /\ dm'.cut_indices = d.cut_indices
         /\ dm'.current_waypoint = d.current_waypoint
         /\ dm'.completed_plan_ids = d.completed_plan_ids
<1>1. DOMAIN d = ManagerFields
  BY DEF Sound
<1>2. /\ DOMAIN dm' = ManagerFields
      /\ dm'.robots = d.robots /\ dm'.plan = d.plan /\ dm'.cut_indices = d.cut_indices
      /\ dm'.current_waypoint = d.current_waypoint
      /\ dm'.completed_plan_ids = d.completed_plan_ids
  BY <1>1, DispatchIs
<1>3. Known(dm') = Known(d)
  BY <1>2 DEF Known
<1> DEFINE advancing == {d.robots[n] : n \in Turns(d)}
<1>4. advancing \subseteq Known(d)
  BY DEF Turns, Known
<1>5. dm'.latest_enqueued =
        [r \in Robots |-> IF r \in advancing THEN Advanced(d, r) ELSE d.latest_enqueued[r]]
  BY <1>1 DEF DispatchUnblocked, ManagerFields
<1> HIDE DEF advancing
<1>6. \A r \in Robots : d.latest_enqueued[r] \in Nat
  BY DEF Sound
<1>7. \A r \in advancing : /\ Advanced(d, r) \in Nat /\ Advanced(d, r) <= LastIndex(d.plan[r])
                           /\ r \in DOMAIN d.cut_indices => Advanced(d, r) <= d.cut_indices[r]
  <2> TAKE r \in advancing
  <2>1. r \in Known(d)
    BY <1>4
  <2> QED BY <2>1, AdvancedIs, SoundPlans
<1>8. dm'.latest_enqueued \in [Robots -> Nat]
  BY <1>5, <1>6, <1>7
<1>9. \A r \in Known(d) : r \in Robots /\ dm'.latest_enqueued[r] <= LastIndex(d.plan[r])
  BY <1>5, <1>7, SoundPlans
<1>10. \A r \in DOMAIN d.cut_indices : dm'.latest_enqueued[r] <= d.cut_indices[r]
  BY <1>5, <1>7 DEF Sound
<1> QED BY <1>2, <1>3, <1>8, <1>9, <1>10 DEF Sound

\* The manager e is d with the plan p set for r.
IsSet(d, r, p, e) ==
  /\ Sound(e) /\ Known(e) = Known(d) \cup {r}
  /\ \A s \in Robots :
       /\ e.plan[s] = IF s = r THEN p ELSE d.plan[s]
       /\ e.latest_enqueued[s] = IF s = r THEN 0 ELSE d.latest_enqueued[s]
       /\ e.current_waypoint[s] = IF s = r THEN 0 ELSE d.current_waypoint[s]
  /\ e.cut_indices = d.cut_indices /\ e.completed_plan_ids = d.completed_plan_ids

LEMMA SetPlanIsSound ==
  ASSUME NEW d, Sound(d), NEW r \in Robots, NEW p, WellFormed(p)
  PROVE  IsSet(d, r, p, SetPlan(d, r, p))
<1> DEFINE e == SetPlan(d, r, p)
<1>1. DOMAIN d = ManagerFields
  BY DEF Sound
<1>2. /\ DOMAIN e = ManagerFields
      /\ e.robots = IF r \in Known(d) THEN d.robots ELSE Append(d.robots, r)
      /\ e.plan = [d.plan EXCEPT ![r] = p]
      /\ e.latest_enqueued = [d.latest_enqueued EXCEPT ![r] = 0]
      /\ e.current_waypoint = [d.current_waypoint EXCEPT ![r] = 0]
      /\ e.cut_indices = d.cut_indices /\ e.completed_plan_ids = d.completed_plan_ids
  BY <1>1 DEF SetPlan, ManagerFields
<1> HIDE DEF e
<1>3. IsSequence(e.robots) /\ Known(e) = Known(d) \cup {r}
  <2>1. CASE r \in Known(d)
    BY <1>2, <2>1 DEF Known, Sound
  <2>2. CASE r \notin Known(d)
    <3>1. /\ IsSequence(e.robots) /\ Len(d.robots) \in Nat
          /\ DOMAIN d.robots = 1 .. Len(d.robots) /\ DOMAIN e.robots = 1 .. Len(d.robots) + 1
          /\ \A n \in 1 .. Len(d.robots) + 1 :
               e.robots[n] = IF n <= Len(d.robots) THEN d.robots[n] ELSE r
      BY <1>2, <2>2, AppendedIs DEF Sound
    <3>2. \A n \in DOMAIN d.robots : n \in DOMAIN e.robots /\ e.robots[n] = d.robots[n]
      BY <3>1
    <3>3. /\ Len(d.robots) + 1 \in DOMAIN e.robots /\ e.robots[Len(d.robots) + 1] = r
          /\ \A n \in DOMAIN e.robots : n \in DOMAIN d.robots \/ n = Len(d.robots) + 1
      BY <3>1
    <3> QED BY <3>1, <3>2, <3>3 DEF Known
  <2> QED BY <2>1, <2>2
<1>4. \A s \in Robots :
        /\ e.plan[s] = IF s = r THEN p ELSE d.plan[s]
        /\ e.latest_enqueued[s] = IF s = r THEN 0 ELSE d.latest_enqueued[s]
        /\ e.current_waypoint[s] = IF s = r THEN 0 ELSE d.current_waypoint[s]
  BY <1>2 DEF Sound
<1>5. /\ DOMAIN e.plan = Robots /\ e.latest_enqueued \in [Robots -> Nat]
      /\ DOMAIN e.current_waypoint = Robots
  BY <1>2 DEF Sound
<1>6. ASSUME NEW s \in Known(e)
      PROVE  WellFormed(e.plan[s]) /\ e.latest_enqueued[s] <= LastIndex(e.plan[s])
  <2>1. CASE s = r
    BY <1>4, <2>1, WaypointsAre
  <2>2. CASE s # r
    <3>1. s \in Known(d)
      BY <1>3, <2>2
    <3> QED BY <1>4, <2>2, <3>1, SoundPlans
  <2> QED BY <2>1, <2>2
<1>7. \A s \in DOMAIN e.cut_indices :
        e.cut_indices[s] \in Nat /\ e.latest_enqueued[s] <= e.cut_indices[s]
  <2> TAKE s \in DOMAIN e.cut_indices
  <2>1. /\ s \in Robots /\ e.cut_indices[s] = d.cut_indices[s] /\ d.cut_indices[s] \in Nat
        /\ d.latest_enqueued[s] <= d.cut_indices[s]
    BY <1>2 DEF Sound
  <2>2. e.latest_enqueued[s] = 0 \/ e.latest_enqueued[s] = d.latest_enqueued[s]
    BY <1>4, <2>1
  <2> QED BY <2>1, <2>2
<1>8. DOMAIN e.cut_indices \subseteq Known(e) /\ Known(e) \subseteq Robots
  BY <1>2, <1>3 DEF Sound
<1>9. Sound(e)
  BY <1>2, <1>3, <1>5, <1>6, <1>7, <1>8 DEF Sound
<1> QED BY <1>2, <1>3, <1>4, <1>9 DEF IsSet, e

\* Where the plan of a robot is cut.
CutOf(d, r) == IF r \in DOMAIN d.cut_indices THEN d.cut_indices[r] ELSE d.latest_enqueued[r]

\* The manager e is d with p joined on to the plan of r, behind its cut.
Joined(d, r, p) == Spliced(d.plan[r], CutOf(d, r), p)
Updated(d, r, p, s) == IF s = r THEN Joined(d, r, p) ELSE d.plan[s]

IsUpdated(d, r, p, e) ==
  /\ Sound(e) /\ Known(e) = Known(d)
  /\ CutOf(d, r) \in Nat /\ WellFormed(Joined(d, r, p))
  /\ \A s \in Known(d) :
       /\ e.plan[s].plan_id = Updated(d, r, p, s).plan_id
       /\ Len(e.plan[s].waypoints) = Len(Updated(d, r, p, s).waypoints)
       /\ \A n \in DOMAIN Updated(d, r, p, s).waypoints :
            SameStop(e.plan[s].waypoints[n], Updated(d, r, p, s).waypoints[n])
  /\ \A s \in Known(d) : \A k \in 0 .. d.latest_enqueued[s] :
       /\ k <= LastIndex(e.plan[s])
       /\ SameStop(WaypointAt(e.plan[s], k), WaypointAt(d.plan[s], k))
  /\ e.latest_enqueued = d.latest_enqueued
  /\ e.current_waypoint = d.current_waypoint
  /\ e.cut_indices = [s \in DOMAIN d.cut_indices \ {r} |-> d.cut_indices[s]]
  /\ e.completed_plan_ids = d.completed_plan_ids

LEMMA UpdateIsSound ==
  ASSUME NEW d, Sound(d), NEW r \in Known(d), NEW p, WellFormed(p)
  PROVE  IsUpdated(d, r, p, UpdatePlanAfterCut(d, r, p))
<1> DEFINE e == UpdatePlanAfterCut(d, r, p)
           q == Joined(d, r, p)
           Old(s) == Updated(d, r, p, s)
           n == Retained(d.plan[r], CutOf(d, r))
<1>1. DOMAIN d = ManagerFields
  BY DEF Sound
<1>2. /\ DOMAIN e = ManagerFields /\ e.robots = d.robots
      /\ e.plan = [s \in Robots |-> IF s \in Known(d)
                                    THEN Restamp(Old(s), d.plan[r].plan_id, p.plan_id)
                                    ELSE NoPlan]
      /\ e.latest_enqueued = d.latest_enqueued
      /\ e.current_waypoint = d.current_waypoint
      /\ e.cut_indices = [s \in DOMAIN d.cut_indices \ {r} |-> d.cut_indices[s]]
      /\ e.completed_plan_ids = d.completed_plan_ids
  BY <1>1 DEF UpdatePlanAfterCut, ManagerFields, CutOf, Updated, Joined
<1>3. Known(e) = Known(d)
  BY <1>2 DEF Known
<1>4. WellFormed(d.plan[r]) /\ r \in Robots /\ d.latest_enqueued[r] \in Nat
  BY SoundPlans
<1>5. CutOf(d, r) \in Nat /\ d.latest_enqueued[r] <= CutOf(d, r)
  BY <1>4 DEF Sound, CutOf
<1>6. /\ WellFormed(q)
      /\ n \in 1 .. Len(d.plan[r].waypoints)
      /\ n <= Len(q.waypoints)
      /\ \A k \in 1 .. n : SameStop(q.waypoints[k], d.plan[r].waypoints[k])
  BY <1>4, <1>5, SplicedIs DEF Joined
<1> HIDE DEF e, q
<1>7. \A s \in Known(d) : WellFormed(Old(s))
  BY <1>6, SoundPlans DEF Updated, q
<1>8. ASSUME NEW s \in Known(d)
      PROVE  /\ WellFormed(e.plan[s])
             /\ e.plan[s].plan_id = Old(s).plan_id
             /\ Len(e.plan[s].waypoints) = Len(Old(s).waypoints)
             /\ \A i \in DOMAIN Old(s).waypoints :
                  SameStop(e.plan[s].waypoints[i], Old(s).waypoints[i])
  <2>1. e.plan[s] = Restamp(Old(s), d.plan[r].plan_id, p.plan_id)
    <3> HIDE DEF Old
    <3> QED BY <1>2, SoundPlans
  <2>2. WellFormed(Old(s))
    BY <1>7
  <2> HIDE DEF Old
  <2> QED BY <2>1, <2>2, RestampIs
<1>9. ASSUME NEW s \in Known(d), NEW k \in 0 .. d.latest_enqueued[s]
      PROVE  /\ k <= LastIndex(e.plan[s])
             /\ SameStop(WaypointAt(e.plan[s], k), WaypointAt(d.plan[s], k))
  <2>1. k + 1 \in 1 .. Len(Old(s).waypoints)
        /\ SameStop(Old(s).waypoints[k + 1], d.plan[s].waypoints[k + 1])
    <3>1. /\ Len(d.plan[s].waypoints) \in Nat \ {0} /\ d.latest_enqueued[s] \in Nat
          /\ d.latest_enqueued[s] <= Len(d.plan[s].waypoints) - 1
      BY SoundPlans, WaypointsAre
    <3>2. CASE s = r
      <4>1. k + 1 \in 1 .. n
        BY <1>5, <3>1, <3>2 DEF Retained
      <4>2. Len(q.waypoints) \in Nat /\ Len(d.plan[r].waypoints) \in Nat
        BY <1>4, <1>6, WaypointsAre
      <4>3. k + 1 \in 1 .. Len(q.waypoints)
        BY <1>6, <4>1, <4>2
      <4> QED BY <1>6, <3>2, <4>1, <4>3 DEF Updated, q
    <3>3. CASE s # r
      <4>1. k + 1 \in 1 .. Len(d.plan[s].waypoints)
        BY <3>1
      <4> QED BY <3>3, <4>1 DEF SameStop, Updated
    <3> QED BY <3>2, <3>3
  <2>2. /\ WellFormed(e.plan[s]) /\ Len(e.plan[s].waypoints) = Len(Old(s).waypoints)
        /\ \A i \in DOMAIN Old(s).waypoints : SameStop(e.plan[s].waypoints[i], Old(s).waypoints[i])
    BY <1>8
  <2>3. /\ Len(e.plan[s].waypoints) \in Nat \ {0}
        /\ DOMAIN Old(s).waypoints = 1 .. Len(Old(s).waypoints)
    BY <1>7, <2>2, WaypointsAre
  <2>4. SameStop(e.plan[s].waypoints[k + 1], d.plan[s].waypoints[k + 1])
    BY <2>1, <2>2, <2>3 DEF SameStop
  <2> HIDE DEF Old
  <2>5. k + 1 \in 1 .. Len(e.plan[s].waypoints)
    BY <2>1, <2>2
  <2>6. k <= LastIndex(e.plan[s])
    BY <2>3, <2>5 DEF LastIndex
  <2> QED BY <2>4, <2>6 DEF WaypointAt
<1>10. Sound(e)
  <2>1. IsSequence(e.robots) /\ Known(e) \subseteq Robots /\ DOMAIN e.plan = Robots
        /\ DOMAIN e.current_waypoint = Robots /\ e.latest_enqueued \in [Robots -> Nat]
    BY <1>2, <1>3 DEF Sound
  <2>2. \A s \in Known(e) : WellFormed(e.plan[s]) /\ e.latest_enqueued[s] <= LastIndex(e.plan[s])
    <3> TAKE s \in Known(e)
    <3>1. s \in Known(d) /\ d.latest_enqueued[s] \in 0 .. d.latest_enqueued[s]
      BY <1>3, SoundPlans
    <3> QED BY <1>2, <1>8, <1>9, <3>1
  <2>3. /\ DOMAIN e.cut_indices \subseteq Known(e)
        /\ \A s \in DOMAIN e.cut_indices :
             e.cut_indices[s] \in Nat /\ e.latest_enqueued[s] <= e.cut_indices[s]
    BY <1>2, <1>3 DEF Sound
  <2> QED BY <1>2, <2>1, <2>2, <2>3 DEF Sound
<1> QED BY <1>2, <1>3, <1>5, <1>6, <1>8, <1>9, <1>10 DEF IsUpdated, e, q

LEMMA SoundIsCuttable ==
  ASSUME NEW d, Sound(d)
  PROVE  Cuttable(d)
BY SoundPlans DEF Sound, Cuttable

\* The cut that is stored covers what has been enqueued, within the plans.
LEMMA CutIsSound ==
  ASSUME NEW d, Sound(d), ~CommitCutFails(d)
  PROVE  LET e == ComputeCommitCut(d)
         IN /\ Sound(e) /\ Known(e) = Known(d) /\ e.robots = d.robots /\ e.plan = d.plan
            /\ e.latest_enqueued = d.latest_enqueued
            /\ e.current_waypoint = d.current_waypoint
            /\ e.completed_plan_ids = d.completed_plan_ids
            /\ DOMAIN e.cut_indices = Known(d)
            /\ \A r \in Known(d) : e.cut_indices[r] \in Indices(d.plan[r])
<1> DEFINE e == ComputeCommitCut(d)
           c == CommitCutLoop(d)
<1>1. DOMAIN d = ManagerFields /\ Cuttable(d)
  BY SoundIsCuttable DEF Sound
<1>2. /\ DOMAIN e = ManagerFields /\ e.robots = d.robots /\ e.plan = d.plan
      /\ e.latest_enqueued = d.latest_enqueued
      /\ e.current_waypoint = d.current_waypoint
      /\ e.completed_plan_ids = d.completed_plan_ids
      /\ e.cut_indices = [r \in Known(d) |-> c.cut[r]]
  BY <1>1 DEF ComputeCommitCut, ManagerFields
<1>3. \A r \in Known(d) : c.cut[r] \in Nat /\ d.latest_enqueued[r] <= c.cut[r]
  BY <1>1, CutCoversReleased
<1>4. \A r \in Known(d) : c.cut[r] \in Indices(d.plan[r])
  BY DEF CommitCutFails
<1> HIDE DEF e, c
<1>5. Known(e) = Known(d)
  BY <1>2 DEF Known
<1>6. Sound(e)
  BY <1>2, <1>3, <1>5 DEF Sound
<1> QED BY <1>2, <1>4, <1>5, <1>6 DEF e

-----------------------------------------------------------------------------
(* Plans that order visits: where two robots visit the same location, one  *)
(* of them waits until the other has left.                                 *)

\* What a dispatch enqueues, all blockers before it are satisfied.
LEMMA DispatchEnqueues ==
  ASSUME NEW d, Sound(d), DispatchUnblocked(d), NEW r \in Known(d),
         NEW b \in Nat, d.latest_enqueued[r] < b, b <= dm'.latest_enqueued[r]
  PROVE  \A k \in d.latest_enqueued[r] .. b - 1 : AllBlockersSatisfied(d, r, k)
<1> DEFINE advancing == {d.robots[n] : n \in Turns(d)}
<1>1. dm'.latest_enqueued =
        [s \in Robots |-> IF s \in advancing THEN Advanced(d, s) ELSE d.latest_enqueued[s]]
  BY DEF DispatchUnblocked, ManagerFields, Sound
<1> HIDE DEF advancing
<1>2. r \in Robots /\ d.latest_enqueued[r] \in Nat
  BY SoundPlans
<1>3. dm'.latest_enqueued[r] = Advanced(d, r)
  BY <1>1, <1>2
<1>4. Advanced(d, r) \in Int
  BY <1>2, AdvancedIs, SoundPlans
<1>5. d.latest_enqueued[r] .. b - 1 \subseteq d.latest_enqueued[r] .. Advanced(d, r) - 1
  BY <1>2, <1>3, <1>4
<1> QED BY <1>5, AdvancedIs DEF Reaches, MayEnqueueAfter

\* The plans B of the wave are like those of a batch.
IsBatch(B) ==
  /\ DOMAIN B \subseteq Robots
  /\ \A r \in DOMAIN B : WellFormed(B[r]) /\ ProgressIncreases(B[r])
  /\ \A r, s \in DOMAIN B : B[r].plan_id = B[s].plan_id => r = s
  /\ \A r \in DOMAIN B : \A k \in Indices(B[r]) :
       \A x \in WaypointAt(B[r], k).departure_blockers : x.required_progress \in Int
  /\ VisitsOrdered(B)
  /\ Attainable(B)

LEMMA BatchProgress ==
  ASSUME NEW B, IsBatch(B), NEW r \in DOMAIN B
  PROVE  /\ LastIndex(B[r]) \in Nat /\ Indices(B[r]) = 0 .. LastIndex(B[r])
         /\ \A k \in Indices(B[r]) : WaypointAt(B[r], k).progress \in Int
         /\ \A k, m \in Indices(B[r]) : k < m => WaypointAt(B[r], k).progress < WaypointAt(B[r], m).progress
<1>1. WellFormed(B[r]) /\ ProgressIncreases(B[r])
  BY DEF IsBatch
<1>2. /\ LastIndex(B[r]) \in Nat /\ Indices(B[r]) = 0 .. LastIndex(B[r])
      /\ \A k \in 0 .. LastIndex(B[r]) :
           k + 1 \in DOMAIN B[r].waypoints /\ WaypointAt(B[r], k) = B[r].waypoints[k + 1]
  BY <1>1, WaypointsAre
<1> QED BY <1>1, <1>2 DEF WellFormed, ProgressIncreases

\* Robots that the manager d knows are on their plans of B; a waypoint that
\* others have to leave first is enqueued when they have.
AtEndIn(B, d) ==
  \A r \in DOMAIN B : B[r].plan_id \in d.completed_plan_ids =>
    r \in Known(d) /\ d.current_waypoint[r] >= LastIndex(B[r])
WaveVisitsInOrder(B, d) ==
  \A i \in DOMAIN B, j \in Known(d) : i # j =>
    \A a \in Indices(B[i]), b \in Indices(B[j]) :
      Precedes(B, i, a, j, b) /\ b <= d.latest_enqueued[j] =>
        i \in Known(d) /\ d.current_waypoint[i] > a
OnPlansOf(B, d) ==
  /\ Known(d) \subseteq DOMAIN B
  /\ \A r \in Known(d) : d.plan[r] = B[r] /\ d.current_waypoint[r] \in Indices(B[r])
  /\ AtEndIn(B, d)
InWave(B, d) == OnPlansOf(B, d) /\ WaveVisitsInOrder(B, d)

\* A robot is past the waypoints that a satisfied blocker waits for.
LEMMA SatisfiedIsPassed ==
  ASSUME NEW B, IsBatch(B), NEW d, OnPlansOf(B, d),
         NEW i \in DOMAIN B, NEW j \in DOMAIN B, NEW k \in Indices(B[j]),
         NEW x \in WaypointAt(B[j], k).departure_blockers,
         x.name = i, x.plan_id = B[i].plan_id, Satisfied(d, x),
         NEW a \in Indices(B[i]), x.required_progress > WaypointAt(B[i], a).progress
  PROVE  i \in Known(d) /\ d.current_waypoint[i] > a
<1> DEFINE last == LastIndex(B[i])
           P(m) == WaypointAt(B[i], m).progress
<1>1. /\ last \in Nat /\ Indices(B[i]) = 0 .. last
      /\ \A m \in 0 .. last : P(m) \in Int
      /\ \A m, n \in 0 .. last : m < n => P(m) < P(n)
  BY BatchProgress
<1>2. x.required_progress \in Int
  BY DEF IsBatch
<1>3. x.required_progress <= P(last)
  BY DEF IsBatch, Attainable
<1>4. a \in 0 .. last
  BY <1>1
<1>5. CASE x.plan_id \in d.completed_plan_ids
  <2>1. i \in Known(d) /\ d.current_waypoint[i] >= last /\ d.current_waypoint[i] \in 0 .. last
    BY <1>1, <1>5 DEF OnPlansOf, AtEndIn
  <2>2. P(a) \in Int /\ P(last) \in Int
    BY <1>1, <1>4
  <2>3. x.required_progress > P(a)
    OBVIOUS
  <2> HIDE DEF P, last
  <2>4. a # last
    BY <1>2, <1>3, <2>2, <2>3
  <2> QED BY <1>1, <1>4, <2>1, <2>4
<1>6. CASE x.plan_id \notin d.completed_plan_ids
  <2>1. i \in Known(d) /\ ProgressOf(d, i) >= x.required_progress
    BY <1>6 DEF Satisfied
  <2>2. d.plan[i] = B[i] /\ d.current_waypoint[i] \in 0 .. last
    BY <1>1, <2>1 DEF OnPlansOf
  <2>3. P(d.current_waypoint[i]) >= x.required_progress
    BY <2>1, <2>2 DEF ProgressOf
  <2>4. x.required_progress > P(a)
    OBVIOUS
  <2>5. PICK c \in 0 .. last : c = d.current_waypoint[i]
    BY <2>2
  <2>6. P(c) >= x.required_progress
    BY <2>3, <2>5
  <2> HIDE DEF P, last
  <2>7. ~(c < a) /\ c # a
    BY <1>1, <1>2, <1>4, <2>4, <2>6
  <2> QED BY <1>1, <1>4, <2>1, <2>5, <2>7
<1> QED BY <1>5, <1>6

LEMMA DispatchStaysInWave ==
  ASSUME NEW B, IsBatch(B), NEW d, Sound(d), DispatchUnblocked(d), InWave(B, d)
  PROVE  InWave(B, dm')
<1>1. /\ Known(dm') = Known(d) /\ dm'.plan = d.plan /\ dm'.current_waypoint = d.current_waypoint
      /\ dm'.completed_plan_ids = d.completed_plan_ids
  BY DispatchIsSound
<1>2. OnPlansOf(B, dm')
  BY <1>1 DEF InWave, OnPlansOf, AtEndIn
<1>3. ASSUME NEW i \in DOMAIN B, NEW j \in Known(d), i # j, NEW a \in Indices(B[i]), NEW b \in Indices(B[j]),
             Precedes(B, i, a, j, b), b <= dm'.latest_enqueued[j]
      PROVE  i \in Known(d) /\ d.current_waypoint[i] > a
  <2>1. /\ d.plan[j] = B[j] /\ j \in DOMAIN B /\ d.latest_enqueued[j] \in Nat
        /\ LastIndex(B[j]) \in Nat /\ Indices(B[j]) = 0 .. LastIndex(B[j])
    BY SoundPlans DEF InWave, OnPlansOf
  <2>2. PICK k \in 0 .. b - 1 : \E x \in WaypointAt(B[j], k).departure_blockers :
          x.name = i /\ x.plan_id = B[i].plan_id /\ x.required_progress > WaypointAt(B[i], a).progress
    BY <1>3 DEF Precedes
  <2>3. b \in Nat /\ k \in Nat /\ k < b /\ k \in Indices(B[j]) /\ k + 1 \in Indices(B[j])
    BY <2>1, <2>2
  <2>4. CASE k < d.latest_enqueued[j]
    <3>1. Precedes(B, i, a, j, k + 1)
      BY <2>2, <2>3 DEF Precedes
    <3>2. k + 1 <= d.latest_enqueued[j]
      BY <2>1, <2>3, <2>4
    <3> QED BY <1>3, <2>3, <3>1, <3>2 DEF InWave, WaveVisitsInOrder
  <2>5. CASE ~(k < d.latest_enqueued[j])
    <3>1. d.latest_enqueued[j] < b /\ k \in d.latest_enqueued[j] .. b - 1
      BY <2>1, <2>3, <2>5
    <3>2. AllBlockersSatisfied(d, j, k)
      BY <1>3, <2>3, <3>1, DispatchEnqueues
    <3>3. PICK x \in WaypointAt(B[j], k).departure_blockers :
            x.name = i /\ x.plan_id = B[i].plan_id /\ x.required_progress > WaypointAt(B[i], a).progress
      BY <2>2
    <3>4. Satisfied(d, x)
      BY <2>1, <3>2 DEF AllBlockersSatisfied, Blockers
    <3>5. OnPlansOf(B, d)
      BY DEF InWave
    <3> QED BY <1>3, <2>1, <2>3, <3>3, <3>4, <3>5, SatisfiedIsPassed
  <2> QED BY <2>4, <2>5
<1>4. WaveVisitsInOrder(B, dm')
  BY <1>1, <1>3 DEF WaveVisitsInOrder
<1> QED BY <1>2, <1>4 DEF InWave

=============================================================================
