------------------------------ MODULE NatOrder ------------------------------
(***************************************************************************)
(* Every non-empty set of natural numbers has a least element, and every   *)
(* finite one a greatest; a function on 1..n is a sequence; what sequences *)
(* are when something is added to them or taken out.                       *)
(***************************************************************************)
EXTENDS Integers, FiniteSetTheorems, SequenceTheorems, WellFoundedInduction, TLAPS

\* The well-ordering of Nat, from that of the finite sets 0..n by inclusion.
\* A loop that must stop stops at a first place because of it.
THEOREM WellOrdered ==
  ASSUME NEW T \in SUBSET Nat, T # {}
  PROVE  \E m \in T : \A n \in T : m <= n
<1> DEFINE F == {0 .. n : n \in T}
<1>1. F \subseteq FiniteSubsetsOf(Nat) /\ F # {}
  <2>1. ASSUME NEW n \in T PROVE 0 .. n \in FiniteSubsetsOf(Nat)
    <3>1. IsFiniteSet(0 .. n)
      BY FS_Interval
    <3>2. 0 .. n \in SUBSET Nat
      OBVIOUS
    <3> QED BY <3>1, <3>2 DEF FiniteSubsetsOf
  <2> QED BY <2>1
<1>2. PICK X \in F : \A Y \in F : ~(<<Y, X>> \in StrictSubsetOrdering(Nat))
  BY <1>1, FS_StrictSubsetOrderingWellFounded, WFMin
<1>3. PICK m \in T : X = 0 .. m
  OBVIOUS
<1>4. ASSUME NEW n \in T, n < m PROVE FALSE
  <2>1. 0 .. n \in F
    OBVIOUS
  <2>2. /\ 0 .. n \subseteq 0 .. m
        /\ 0 .. n # 0 .. m
        /\ 0 .. n \in SUBSET Nat
        /\ 0 .. m \in SUBSET Nat
    <3>1. m \in 0 .. m /\ ~(m \in 0 .. n)
      BY <1>4
    <3> QED BY <1>4, <3>1
  <2>3. <<0 .. n, 0 .. m>> \in StrictSubsetOrdering(Nat)
    BY <2>2 DEF StrictSubsetOrdering
  <2> QED BY <1>2, <1>3, <2>1, <2>3
<1> QED BY <1>4

THEOREM FiniteHasGreatest ==
  ASSUME NEW T \in SUBSET Nat, IsFiniteSet(T), T # {}
  PROVE  \E m \in T : \A n \in T : n <= m
<1>1. PICK n \in Nat : ExistsSurjection(1 .. n, T)
  BY FS_NatSurjection
<1>2. PICK f \in [1 .. n -> Nat] : \A t \in T : \E k \in 1 .. n : f[k] = t
  <2>1. PICK f \in [1 .. n -> T] : \A t \in T : \E k \in 1 .. n : f[k] = t
    BY <1>1 DEF ExistsSurjection, Surjection
  <2>2. f \in [1 .. n -> Nat]
    BY <2>1
  <2> QED BY <2>1, <2>2
<1> DEFINE Bounds(k, b) == \A i \in 1 .. k : f[i] <= b
           Unbounded == {k \in 0 .. n : ~ \E b \in Nat : Bounds(k, b)}
<1>3. Unbounded = {}
  <2> SUFFICES ASSUME Unbounded # {} PROVE FALSE
    OBVIOUS
  <2>1. PICK k \in Unbounded : \A m \in Unbounded : k <= m
    <3>1. Unbounded \in SUBSET Nat
      OBVIOUS
    <3> QED BY <3>1, WellOrdered
  <2>2. k # 0
    <3>1. Bounds(0, 0)
      OBVIOUS
    <3> QED BY <3>1
  <2>3. k - 1 \in 0 .. n /\ k - 1 \notin Unbounded /\ k \in 1 .. n
    <3>1. k \in 0 .. n /\ ~(k - 1 \in Unbounded)
      <4>1. k - 1 \in Unbounded => k <= k - 1
        BY <2>1
      <4> QED BY <4>1
    <3> QED BY <2>2, <3>1
  <2>4. PICK b \in Nat : Bounds(k - 1, b)
    BY <2>3
  <2>8. ~ \E c \in Nat : Bounds(k, c)
    BY <2>1
  <2> HIDE DEF Unbounded
  <2>5. f[k] \in Nat
    BY <1>2, <2>3
  <2>6. Bounds(k, b + f[k])
    <3> TAKE i \in 1 .. k
    <3>1. f[i] \in Nat
      BY <1>2, <2>3
    <3>2. CASE i = k
      BY <2>5, <3>2
    <3>3. CASE i # k
      <4>1. i \in 1 .. k - 1
        BY <2>3, <3>3
      <4>2. f[i] <= b
        BY <2>4, <4>1
      <4> QED BY <2>5, <3>1, <4>2
    <3> QED BY <3>2, <3>3
  <2>7. b + f[k] \in Nat
    BY <2>5
  <2> HIDE DEF Bounds
  <2> QED BY <2>6, <2>7, <2>8
<1> DEFINE Above == {b \in Nat : \A t \in T : t <= b}
<1>4. PICK b \in Above : \A c \in Above : b <= c
  <2>1. PICK b \in Nat : Bounds(n, b)
    <3>1. n \in 0 .. n
      OBVIOUS
    <3> HIDE DEF Bounds
    <3> QED BY <1>3, <3>1
  <2>2. b \in Above
    BY <1>2, <2>1
  <2>3. Above \in SUBSET Nat /\ Above # {}
    BY <2>2
  <2> QED BY <2>3, WellOrdered
<1>5. b \in T
  <2> SUFFICES ASSUME b \notin T PROVE FALSE
    OBVIOUS
  <2>1. \A t \in T : t \in Nat /\ t < b
    BY <1>4
  <2>2. PICK t \in T : TRUE
    OBVIOUS
  <2>3. b - 1 \in Above
    BY <1>4, <2>1, <2>2
  <2> QED BY <1>4, <2>3
<1> QED BY <1>4, <1>5

LEMMA IntervalsAreFinite ==
  ASSUME NEW n \in Nat
  PROVE  IsFiniteSet(0 .. n) /\ IsFiniteSet(1 .. n)
<1>1. IsFiniteSet(0 .. n)
  BY FS_Interval
<1>2. IsFiniteSet(1 .. n)
  BY FS_Interval
<1> QED BY <1>1, <1>2


LEMMA FunctionIsSeq ==
  ASSUME NEW S, NEW n \in Nat, NEW f \in [1 .. n -> S]
  PROVE  f \in Seq(S) /\ Len(f) = n
<1>1. f \in UNION {[1 .. m -> S] : m \in Nat}
  OBVIOUS
<1>2. f \in Seq(S)
  BY <1>1, SeqDef
<1> QED BY <1>2, LenProperties

\* One of n numbers is the greatest.
LEMMA GreatestOf ==
  ASSUME NEW n \in Nat, n > 0, NEW f \in [1 .. n -> Nat]
  PROVE  \E i \in 1 .. n : \A j \in 1 .. n : f[j] <= f[i]
<1> DEFINE T == {f[i] : i \in 1 .. n}
<1>1. T \in SUBSET Nat /\ T # {}
  <2>1. 1 \in 1 .. n
    OBVIOUS
  <2> QED BY <2>1
<1>2. IsFiniteSet(T)
  <2>1. f \in Surjection(1 .. n, T)
    BY DEF Surjection
  <2> QED BY <2>1, FS_Surjection, FS_Interval
<1>3. PICK m \in T : \A l \in T : l <= m
  <2> HIDE DEF T
  <2> QED BY <1>1, <1>2, FiniteHasGreatest
<1> QED BY <1>3

-----------------------------------------------------------------------------
(* Sequences, whatever is in them.                                         *)

\* A sequence, whatever is in it.
IsSequence(s) == s \in Seq({s[n] : n \in DOMAIN s})

LEMMA SequenceIs ==
  ASSUME NEW S, NEW s \in Seq(S)
  PROVE  IsSequence(s)
<1> DEFINE T == {s[n] : n \in DOMAIN s}
<1>1. s \in [1 .. Len(s) -> T] /\ Len(s) \in Nat
  BY LenProperties
<1> HIDE DEF T
<1>2. s \in Seq(T)
  BY <1>1, FunctionIsSeq
<1> QED BY <1>2 DEF IsSequence, T

LEMMA JoinedIs ==
  ASSUME NEW s, IsSequence(s), NEW t, IsSequence(t)
  PROVE  /\ IsSequence(s \o t)
         /\ Len(s) \in Nat /\ Len(t) \in Nat /\ Len(s \o t) = Len(s) + Len(t)
         /\ DOMAIN s = 1 .. Len(s) /\ DOMAIN t = 1 .. Len(t)
         /\ DOMAIN (s \o t) = 1 .. Len(s) + Len(t)
         /\ \A n \in 1 .. Len(s) + Len(t) :
              (s \o t)[n] = IF n <= Len(s) THEN s[n] ELSE t[n - Len(s)]
<1> DEFINE S == {s[n] : n \in DOMAIN s} \cup {t[n] : n \in DOMAIN t}
<1>1. s \in Seq(S) /\ t \in Seq(S)
  <2>1. {s[n] : n \in DOMAIN s} \subseteq S /\ {t[n] : n \in DOMAIN t} \subseteq S
    OBVIOUS
  <2> QED BY <2>1, SeqMonotonic DEF IsSequence
<1> HIDE DEF S
<1>2. s \o t \in Seq(S) /\ Len(s) \in Nat /\ Len(t) \in Nat
  BY <1>1
<1>3. IsSequence(s \o t)
  BY <1>2, SequenceIs
<1> QED BY <1>1, <1>2, <1>3

LEMMA AppendedIs ==
  ASSUME NEW s, IsSequence(s), NEW x
  PROVE  /\ IsSequence(Append(s, x))
         /\ Len(s) \in Nat /\ Len(Append(s, x)) = Len(s) + 1
         /\ DOMAIN s = 1 .. Len(s) /\ DOMAIN Append(s, x) = 1 .. Len(s) + 1
         /\ \A n \in 1 .. Len(s) + 1 :
              Append(s, x)[n] = IF n <= Len(s) THEN s[n] ELSE x
<1> DEFINE S == {s[n] : n \in DOMAIN s} \cup {x}
<1>1. s \in Seq(S)
  <2>1. {s[n] : n \in DOMAIN s} \subseteq S
    OBVIOUS
  <2> QED BY <2>1, SeqMonotonic DEF IsSequence
<1>2. x \in S
  OBVIOUS
<1> HIDE DEF S
<1>3. Append(s, x) \in Seq(S) /\ Len(s) \in Nat
  BY <1>1, <1>2
<1>4. IsSequence(Append(s, x))
  BY <1>3, SequenceIs
<1> QED BY <1>1, <1>2, <1>3, <1>4

LEMMA TailIs ==
  ASSUME NEW s, IsSequence(s), s # <<>>
  PROVE  /\ IsSequence(Tail(s))
         /\ Len(s) \in Nat \ {0} /\ Len(Tail(s)) = Len(s) - 1
         /\ DOMAIN s = 1 .. Len(s) /\ DOMAIN Tail(s) = 1 .. Len(s) - 1
         /\ Head(s) = s[1]
         /\ \A n \in 1 .. Len(s) - 1 : Tail(s)[n] = s[n + 1]
<1> DEFINE S == {s[n] : n \in DOMAIN s}
<1>1. s \in Seq(S)
  BY DEF IsSequence
<1> HIDE DEF S
<1>2. Tail(s) \in Seq(S) /\ Len(s) \in Nat \ {0}
  BY <1>1, EmptySeq
<1>3. IsSequence(Tail(s))
  BY <1>2, SequenceIs
<1> QED BY <1>1, <1>2, <1>3

LEMMA CopiesAre ==
  ASSUME NEW k \in Nat, NEW x
  PROVE  LET s == [n \in 1 .. k |-> x]
         IN IsSequence(s) /\ Len(s) = k /\ DOMAIN s = 1 .. k /\ \A n \in 1 .. k : s[n] = x
<1>1. [n \in 1 .. k |-> x] \in [1 .. k -> {x}]
  OBVIOUS
<1>2. [n \in 1 .. k |-> x] \in Seq({x}) /\ Len([n \in 1 .. k |-> x]) = k
  BY <1>1, FunctionIsSeq
<1> QED BY <1>2, SequenceIs

\* What a finite set is mapped to is finite.
LEMMA ImageIsFinite ==
  ASSUME NEW S, IsFiniteSet(S), NEW T, NEW f \in [S -> T],
         \A t \in T : \E s \in S : f[s] = t
  PROVE  IsFiniteSet(T)
<1>1. f \in Surjection(S, T)
  BY DEF Surjection
<1>2. IsFiniteSet(T) /\ Cardinality(T) <= Cardinality(S)
  BY <1>1, FS_Surjection
<1> QED BY <1>2

=============================================================================
