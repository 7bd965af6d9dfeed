----------------------- MODULE SharedMemoryAgentProofs -----------------------
(***************************************************************************)
(* Proofs about the shared-memory controller, for any number of waypoints  *)
(* and any window.                                                         *)
(***************************************************************************)
EXTENDS SharedMemoryAgent, NatOrder, SequenceTheorems

\* What Append does to elements, in the terms the proofs below use.
LEMMA AppendElements ==
  ASSUME NEW S, NEW s \in Seq(S), NEW x \in S
  PROVE  /\ Append(s, x) \in Seq(S)
         /\ Len(Append(s, x)) = Len(s) + 1
         /\ DOMAIN Append(s, x) = 1 .. Len(s) + 1
         /\ \A n \in DOMAIN s : Append(s, x)[n] = s[n]
         /\ Append(s, x)[Len(s) + 1] = x
  OBVIOUS

LEMMA AmongAppend ==
  ASSUME NEW s \in Seq(Nat), NEW x \in Nat, NEW y, Among(y, s) \/ y = x
  PROVE  Among(y, Append(s, x))
<1>1. CASE Among(y, s)
  <2>1. PICK n \in DOMAIN s : s[n] = y
    BY <1>1 DEF Among
  <2>2. n \in DOMAIN Append(s, x) /\ Append(s, x)[n] = y
    BY <2>1, AppendElements
  <2> QED BY <2>2 DEF Among
<1>2. CASE y = x
  <2>1. Len(s) + 1 \in DOMAIN Append(s, x) /\ Append(s, x)[Len(s) + 1] = y
    BY <1>2, AppendElements, LenProperties
  <2> QED BY <2>1 DEF Among
<1> QED BY <1>1, <1>2

-----------------------------------------------------------------------------
(* The invariant.                                                          *)

LEMMA InitIInv == Init => IInv
<1> SUFFICES ASSUME Init PROVE IInv
  OBVIOUS
<1> USE DEF Init
<1>1. TypeOK
  BY MaxStepsAssumption DEF TypeOK, Values
<1>2. PendingFollowsReported
  BY DEF PendingFollowsReported, Popped, Consecutive
<1>3. TargetIsAhead
  BY DEF TargetIsAhead, BelowCounter
<1>4. CompletionsAreVisits
  BY DEF CompletionsAreVisits
<1>5. UntornLists
  BY NoneAssumption DEF UntornLists, Consecutive, IsRun
<1> QED BY <1>1, <1>2, <1>3, <1>4, <1>5 DEF IInv

\* What has been taken off _pending has been visited.
LEMMA PoppedVisited ==
  ASSUME IInv PROVE Popped \in Int /\ Popped <= agent_most_recent_wp + 1
<1>1. /\ reported \in Seq(Nat) /\ visited \in Seq(Nat) /\ Len(reported) \in Nat
      /\ agent_most_recent_wp \in Nat \cup {-1}
  BY DEF IInv, TypeOK
<1>2. Len(reported) <= agent_most_recent_wp + 1
  <2>1. CASE reported = <<>>
    BY <1>1, <2>1
  <2>2. CASE reported # <<>>
    <3>1. Len(reported) \in DOMAIN reported
      BY <1>1, <2>2
    <3>2. reported[Len(reported)] = Len(reported) - 1
      BY <3>1 DEF IInv, PendingFollowsReported, Consecutive
    <3>3. PICK n \in DOMAIN visited : visited[n] = Len(reported) - 1
      BY <3>1, <3>2 DEF IInv, CompletionsAreVisits, Among
    <3>4. visited[n] <= agent_most_recent_wp
      BY DEF IInv, TargetIsAhead
    <3> QED BY <1>1, <3>3, <3>4
  <2> QED BY <2>1, <2>2
<1> QED BY <1>1, <1>2 DEF Popped

\* The executor's thread.

LEMMA EnqueueStep ==
  ASSUME IInv, NEW n \in 1 .. Window, Enqueue(n) PROVE IInv'
<1> USE WindowAssumption, MaxStepsAssumption, NoneAssumption
<1> DEFINE new == [k \in 1 .. n |-> step_counter + k - 1]
<1>0. n \in Nat \ {0} /\ step_counter \in Nat /\ pending \in Seq(Nat)
  BY DEF IInv, TypeOK
<1>1. new \in Seq(Nat) /\ Len(new) = n
  <2>1. new \in [1 .. n -> Nat]
    BY <1>0
  <2>2. new \in UNION {[1 .. m -> Nat] : m \in Nat}
    BY <1>0, <2>1
  <2>3. new \in Seq(Nat)
    BY <2>2, SeqDef
  <2> HIDE DEF new
  <2> QED BY <1>0, <2>1, <2>3, LenProperties
<1>2. /\ pending' \in Seq(Nat)
      /\ Len(pending') = Len(pending) + n
      /\ \A m \in 1 .. Len(pending) : pending'[m] = pending[m]
      /\ \A m \in Len(pending) + 1 .. Len(pending) + n :
           pending'[m] = step_counter + (m - Len(pending)) - 1
  <2>1. pending' = pending \o new
    BY DEF Enqueue
  <2>2. \A k \in 1 .. n : new[k] = step_counter + k - 1
    OBVIOUS
  <2> HIDE DEF new
  <2>3. Len(pending) \in Nat
    BY <1>0
  <2>4. /\ pending \o new \in Seq(Nat)
        /\ Len(pending \o new) = Len(pending) + n
        /\ \A m \in 1 .. Len(pending) + n :
             (pending \o new)[m] = IF m <= Len(pending) THEN pending[m] ELSE new[m - Len(pending)]
    BY <1>0, <1>1, ConcatProperties
  <2> QED BY <1>0, <2>1, <2>2, <2>3, <2>4
<1>3. TypeOK'
  BY <1>0, <1>2 DEF IInv, TypeOK, Enqueue, statusVars, agentVars, Values
<1>4. PendingFollowsReported'
  <2>0. Len(pending) \in Nat /\ Len(reported) \in Nat
    BY DEF IInv, TypeOK
  <2>1. Popped \in Int /\ Popped' = Popped /\ Popped + Len(pending) = step_counter
    BY <2>0 DEF IInv, PendingFollowsReported, Popped, Enqueue, statusVars
  <2>2. \A m \in DOMAIN pending' : pending'[m] = Popped + m - 1
    <3> SUFFICES ASSUME NEW m \in 1 .. Len(pending) + n PROVE pending'[m] = Popped + m - 1
      BY <1>2
    <3>0. \A k \in 1 .. Len(pending) : pending[k] = Popped + k - 1
      BY <1>0 DEF IInv, PendingFollowsReported
    <3> HIDE DEF new
    <3>1. CASE m <= Len(pending)
      <4>1. m \in 1 .. Len(pending)
        BY <1>0, <2>0, <3>1
      <4> QED BY <1>2, <3>0, <4>1
    <3>2. CASE m > Len(pending)
      <4>1. m \in Len(pending) + 1 .. Len(pending) + n
        BY <1>0, <2>0, <3>2
      <4>2. pending'[m] = step_counter + (m - Len(pending)) - 1
        BY <1>2, <4>1
      <4> QED BY <1>0, <2>0, <2>1, <4>1, <4>2
    <3> QED BY <1>0, <2>0, <3>1, <3>2
  <2>3. /\ status' = status /\ reported' = reported
        /\ step_counter' = step_counter + n
        /\ Popped' + Len(pending') = step_counter'
    <3>1. /\ status' = status /\ reported' = reported
          /\ step_counter' = step_counter + n
      BY DEF Enqueue, statusVars
    <3>2. Popped' + Len(pending') = step_counter'
      <4>1. n \in Int /\ Len(pending') = Len(pending) + n
        BY <1>0, <1>2
      <4> HIDE DEF Popped, new
      <4> QED BY <2>0, <2>1, <3>1, <4>1
    <3> QED BY <3>1, <3>2
  <2>4. pending' # <<>>
    BY <1>0, <1>2, <2>0
  <2> HIDE DEF new
  <2> QED BY <2>1, <2>2, <2>3, <2>4 DEF IInv, PendingFollowsReported, Consecutive
<1>5. TargetIsAhead'
  <2>1. step_counter' = step_counter + n
    BY DEF Enqueue
  <2>2. publishing' = <<>>
    BY DEF Enqueue
  <2>3. command \in Seq(Nat) /\ visited \in Seq(Nat) /\ target \in Nat \cup {None}
    BY DEF IInv, TypeOK, Values
  <2> QED BY <1>0, <2>1, <2>2, <2>3
          DEF IInv, TargetIsAhead, BelowCounter, Enqueue, agentVars
<1>6. CompletionsAreVisits'
  BY DEF IInv, CompletionsAreVisits, Among, Enqueue, statusVars, agentVars
<1>7. UntornLists'
  <2>1. publishing' = <<>> /\ position' = 0 /\ races' = races
        /\ command' = command /\ visited' = visited /\ target' = target
        /\ agent_most_recent_wp' = agent_most_recent_wp
    BY DEF Enqueue, agentVars
  <2> QED BY <2>1 DEF IInv, UntornLists, Consecutive, IsRun
<1> QED BY <1>3, <1>4, <1>5, <1>6, <1>7 DEF IInv

LEMMA ListNextStep ==
  ASSUME IInv, ListNext PROVE IInv'
<1> USE NoneAssumption
<1>1. publishing \in Seq(Nat) /\ pending \in Seq(Nat) /\ position \in Nat
      /\ step_counter \in Nat /\ Len(reported) \in Nat
  BY MaxStepsAssumption DEF IInv, TypeOK, ListNext
<1>2. position + 1 \in DOMAIN pending
  BY <1>1 DEF ListNext
<1>3. pending[position + 1] \in Nat /\ pending[position + 1] < step_counter
  <2>1. pending[position + 1] = Popped + position
    BY <1>1, <1>2 DEF IInv, PendingFollowsReported, Popped
  <2>2. Popped + Len(pending) = step_counter
    BY DEF IInv, PendingFollowsReported
  <2> QED BY <1>1, <1>2, <2>1, <2>2 DEF Popped, ListNext
<1>4. /\ publishing' \in Seq(Nat)
      /\ \A n \in DOMAIN publishing' : publishing'[n] < step_counter
  <2>1. publishing' = Append(publishing, pending[position + 1])
    BY DEF ListNext
  <2>2. \A n \in DOMAIN publishing : publishing[n] < step_counter
    BY DEF IInv, TargetIsAhead, BelowCounter, ListNext
  <2>3. DOMAIN publishing = 1 .. Len(publishing) /\ Len(publishing) \in Nat
    BY <1>1
  <2>4. ASSUME NEW n \in DOMAIN publishing' PROVE publishing'[n] < step_counter
    <3>1. CASE n \in DOMAIN publishing
      BY <1>1, <1>3, <2>1, <2>2, <3>1, AppendElements
    <3>2. CASE n = Len(publishing) + 1
      BY <1>1, <1>3, <2>1, <3>2, AppendElements
    <3> QED BY <1>1, <1>3, <2>1, <2>3, <3>1, <3>2, AppendElements
  <2> QED BY <1>1, <1>3, <2>1, <2>4, AppendElements
<1>5. TypeOK'
  BY <1>1, <1>4 DEF IInv, TypeOK, ListNext, statusVars, agentVars, Values
<1>6. PendingFollowsReported'
  BY DEF IInv, PendingFollowsReported, Popped, Consecutive, ListNext, statusVars
<1>7. TargetIsAhead'
  BY <1>4 DEF IInv, TargetIsAhead, BelowCounter, ListNext, agentVars
<1>8. CompletionsAreVisits'
  BY DEF IInv, CompletionsAreVisits, Among, ListNext, statusVars, agentVars
<1>9. UntornLists'
  <2>1. /\ publishing' = Append(publishing, pending[position + 1])
        /\ position' = position + 1 /\ pending' = pending /\ races' = races
        /\ command' = command /\ visited' = visited /\ target' = target
        /\ agent_most_recent_wp' = agent_most_recent_wp /\ Popped' = Popped
    BY DEF ListNext, statusVars, agentVars, Popped
  <2>2. /\ Len(publishing) \in Nat /\ DOMAIN publishing = 1 .. Len(publishing)
        /\ DOMAIN publishing' = 1 .. Len(publishing) + 1
        /\ Len(publishing') = Len(publishing) + 1
        /\ \A n \in DOMAIN publishing : publishing'[n] = publishing[n]
        /\ publishing'[Len(publishing) + 1] = pending[position + 1]
    BY <1>1, <1>3, <2>1, AppendElements
  <2>3. /\ \A n \in DOMAIN pending : pending[n] = Popped + n - 1
        /\ Popped \in Int
        /\ 1 \in DOMAIN pending
    BY <1>1, <1>2 DEF IInv, PendingFollowsReported, Popped
  <2>4. pending[1] = Popped /\ pending[position + 1] = Popped + position
    BY <1>1, <1>2, <2>3
  <2> SUFFICES ASSUME "torn" \notin races PROVE UntornLists'
    BY <2>1 DEF UntornLists
  <2>5. /\ Len(publishing) = position /\ IsRun(publishing)
        /\ publishing # <<>> => publishing[1] = pending[1]
    <3>1. publishing # None /\ position < Len(pending)
      BY DEF ListNext
    <3>2. UntornLists /\ "torn" \notin races
      BY DEF IInv
    <3> HIDE DEF IsRun, Consecutive
    <3> QED BY <3>1, <3>2, Zenon DEF UntornLists
  <2>6. publishing'[1] = Popped
    <3>1. CASE publishing = <<>>
      BY <1>1, <2>2, <2>4, <2>5, <3>1
    <3>2. CASE publishing # <<>>
      <4>1. 1 \in DOMAIN publishing
        BY <1>1, <3>2
      <4> QED BY <2>2, <2>4, <2>5, <3>2, <4>1
    <3> QED BY <3>1, <3>2
  <2>7. ASSUME NEW n \in DOMAIN publishing' PROVE publishing'[n] = publishing'[1] + n - 1
    <3>1. CASE n \in DOMAIN publishing
      <4>1. publishing # <<>>
        BY <1>1, <3>1
      <4>2. publishing[n] = publishing[1] + n - 1
        BY <2>5, <3>1 DEF IsRun
      <4> QED BY <2>2, <2>4, <2>5, <2>6, <3>1, <4>1, <4>2
    <3>2. CASE n = Len(publishing) + 1
      <4>1. publishing'[n] = Popped + position /\ n = position + 1
        BY <2>2, <2>4, <2>5, <3>2
      <4> QED BY <1>1, <2>3, <2>6, <4>1
    <3> QED BY <2>2, <3>1, <3>2
  <2>8. IsRun(publishing') /\ Len(publishing') = position'
    BY <2>1, <2>2, <2>5, <2>7 DEF IsRun
  <2>9. publishing'[1] <= Popped' /\ publishing'[1] = pending'[1]
    BY <2>1, <2>3, <2>4, <2>6
  <2>10. /\ Consecutive(visited)
         /\ Len(visited) = agent_most_recent_wp + 1
         /\ target # None => target = agent_most_recent_wp + 1
         /\ IsRun(command)
         /\ command # <<>> => command[1] <= agent_most_recent_wp + 1
    BY Zenon DEF IInv, UntornLists
  <2>11. /\ Consecutive(visited')
         /\ Len(visited') = agent_most_recent_wp' + 1
         /\ target' # None => target' = agent_most_recent_wp' + 1
         /\ IsRun(command')
         /\ command' # <<>> => command'[1] <= agent_most_recent_wp' + 1
    BY <2>1, <2>10 DEF Consecutive, IsRun
  <2> QED BY <2>8, <2>9, <2>11, Zenon DEF UntornLists
<1> QED BY <1>5, <1>6, <1>7, <1>8, <1>9 DEF IInv

LEMMA PublishStep ==
  ASSUME IInv, Publish PROVE IInv'
<1> USE NoneAssumption
<1>1. publishing \in Seq(Nat) /\ publishing' = None /\ command' = publishing /\ position' = 0
  BY DEF IInv, TypeOK, Publish
<1>2. TypeOK'
  BY <1>1 DEF IInv, TypeOK, Publish, statusVars, agentVars, Values
<1>3. PendingFollowsReported'
  BY DEF IInv, PendingFollowsReported, Popped, Consecutive, Publish, statusVars
<1>4. TargetIsAhead'
  BY <1>1 DEF IInv, TargetIsAhead, BelowCounter, Publish, agentVars
<1>5. CompletionsAreVisits'
  BY DEF IInv, CompletionsAreVisits, Among, Publish, statusVars, agentVars
<1>6. UntornLists'
  <2>1. /\ races' = races /\ visited' = visited /\ target' = target
        /\ agent_most_recent_wp' = agent_most_recent_wp
    BY DEF Publish, agentVars
  <2>2. publishing # None
    BY DEF Publish
  <2> QED BY <1>1, <2>1, <2>2, PoppedVisited DEF IInv, UntornLists, Consecutive, IsRun
<1> QED BY <1>2, <1>3, <1>4, <1>5, <1>6 DEF IInv

\* The status thread.

LEMMA PollStep ==
  ASSUME IInv, Poll PROVE IInv'
<1>1. TypeOK'
  BY DEF IInv, TypeOK, Poll, controllerVars, agentVars, Values
<1>2. PendingFollowsReported'
  BY DEF IInv, PendingFollowsReported, Popped, Consecutive, Poll, controllerVars
<1>3. TargetIsAhead'
  BY DEF IInv, TargetIsAhead, BelowCounter, Poll, controllerVars, agentVars
<1>4. CompletionsAreVisits'
  BY DEF IInv, CompletionsAreVisits, Among, Poll, agentVars
<1>5. UntornLists'
  BY DEF IInv, UntornLists, Consecutive, IsRun, Popped, Poll, controllerVars, agentVars
<1> QED BY <1>1, <1>2, <1>3, <1>4, <1>5 DEF IInv

\* Reporting the head of _pending keeps the number of waypoints popped.
LEMMA CheckStep ==
  ASSUME IInv, Check PROVE IInv'
<1> USE NoneAssumption
<1>1. CASE ~IsCurrent
  <2>1. TypeOK'
    BY <1>1 DEF IInv, TypeOK, Check, controllerVars, agentVars, Values
  <2>2. PendingFollowsReported'
    BY <1>1 DEF IInv, PendingFollowsReported, Popped, Consecutive, Check, controllerVars
  <2>3. TargetIsAhead'
    BY <1>1 DEF IInv, TargetIsAhead, BelowCounter, Check, controllerVars, agentVars
  <2>4. CompletionsAreVisits'
    BY <1>1 DEF IInv, CompletionsAreVisits, Among, Check, agentVars
  <2>5. UntornLists'
    BY <1>1 DEF IInv, UntornLists, Consecutive, IsRun, Popped, Check, controllerVars, agentVars
  <2> QED BY <2>1, <2>2, <2>3, <2>4, <2>5 DEF IInv
<1>2. CASE IsCurrent
  <2>1. pending \in Seq(Nat) /\ reported \in Seq(Nat) /\ Len(pending) \in Nat /\ Len(reported) \in Nat
    BY DEF IInv, TypeOK
  <2>2. 1 \in DOMAIN pending /\ Head(pending) = pending[1] /\ Head(pending) \in Nat
    BY <1>2, <2>1 DEF IsCurrent
  <2>3. Popped = Len(reported) /\ status = "check"
    BY DEF Popped, Check
  <2>4. Head(pending) = Len(reported)
    BY <2>1, <2>2, <2>3 DEF IInv, PendingFollowsReported
  <2>5. reported' = Append(reported, Len(reported)) /\ status' = "pop" /\ res' = None
    BY <1>2, <2>4 DEF Check
  <2>6. /\ reported' \in Seq(Nat)
        /\ Len(reported') = Len(reported) + 1
        /\ DOMAIN reported' = 1 .. Len(reported) + 1
        /\ \A n \in DOMAIN reported : reported'[n] = reported[n]
        /\ reported'[Len(reported) + 1] = Len(reported)
    BY <2>1, <2>5, AppendElements
  <2>7. DOMAIN reported = 1 .. Len(reported)
    BY <2>1
  <2>8. TypeOK'
    BY <2>5, <2>6 DEF IInv, TypeOK, Check, controllerVars, agentVars, Values
  <2>9. PendingFollowsReported'
    <3>1. Popped' = Popped
      BY <2>1, <2>3, <2>5, <2>6 DEF Popped
    <3>2. Consecutive(reported')
      <4> SUFFICES ASSUME NEW n \in 1 .. Len(reported) + 1 PROVE reported'[n] = n - 1
        BY <2>6 DEF Consecutive
      <4>1. CASE n \in DOMAIN reported
        BY <2>6, <4>1 DEF IInv, PendingFollowsReported, Consecutive
      <4>2. CASE n = Len(reported) + 1
        BY <2>1, <2>6, <4>2
      <4> QED BY <2>1, <2>7, <4>1, <4>2
    <3>3. reported' # <<>>
      BY <2>1, <2>6
    <3>4. pending' = pending /\ step_counter' = step_counter
      BY DEF Check, controllerVars
    <3>5. pending # <<>>
      BY <2>1, <2>2
    <3> QED BY <3>1, <3>2, <3>3, <3>4, <3>5 DEF IInv, PendingFollowsReported
  <2>10. TargetIsAhead'
    BY DEF IInv, TargetIsAhead, BelowCounter, Check, controllerVars, agentVars
  <2>11. CompletionsAreVisits'
    <3>1. Among(Len(reported), visited)
      BY <1>2, <2>4 DEF IInv, CompletionsAreVisits, IsCurrent, Check
    <3>2. visited' = visited /\ feedback' = feedback
      BY DEF Check, agentVars
    <3>3. ASSUME NEW n \in DOMAIN reported' PROVE Among(reported'[n], visited)
      <4>1. CASE n \in DOMAIN reported
        BY <2>6, <4>1 DEF IInv, CompletionsAreVisits
      <4>2. CASE n = Len(reported) + 1
        BY <2>6, <3>1, <4>2
      <4> QED BY <2>1, <2>6, <2>7, <4>1, <4>2
    <3> QED BY <2>5, <3>2, <3>3 DEF IInv, CompletionsAreVisits
  <2>12. UntornLists'
    <3>1. Popped' = Popped
      BY <2>1, <2>3, <2>5, <2>6 DEF Popped
    <3>2. UNCHANGED controllerVars /\ UNCHANGED agentVars /\ races' = races
      BY DEF Check
    <3> QED BY <3>1, <3>2
            DEF IInv, UntornLists, Consecutive, IsRun, controllerVars, agentVars
  <2> QED BY <2>8, <2>9, <2>10, <2>11, <2>12 DEF IInv
<1> QED BY <1>1, <1>2

LEMMA PopStep ==
  ASSUME IInv, Pop PROVE IInv'
<1>1. /\ pending \in Seq(Nat) /\ reported \in Seq(Nat)
      /\ Len(pending) \in Nat /\ Len(reported) \in Nat /\ step_counter \in Nat
  BY MaxStepsAssumption DEF IInv, TypeOK
<1>2. status = "pop" /\ status' = "sleep" /\ reported' = reported /\ pending' = Tail(pending)
  BY DEF Pop, statusVars
<1>3. /\ Popped' = Popped + 1 /\ Popped \in Int
      /\ Popped + Len(pending) = step_counter
      /\ \A n \in DOMAIN pending : pending[n] = Popped + n - 1
      /\ pending # <<>>
  BY <1>1, <1>2 DEF IInv, PendingFollowsReported, Popped
<1>4. /\ pending' \in Seq(Nat)
      /\ Len(pending') = Len(pending) - 1
      /\ DOMAIN pending' = 1 .. Len(pending) - 1
      /\ \A n \in DOMAIN pending' : pending'[n] = pending[n + 1]
  BY <1>1, <1>2, <1>3, HeadTailProperties, LenProperties
<1>5. TypeOK'
  <2>1. races' \subseteq {"torn", "overwritten"}
    BY DEF IInv, TypeOK, Pop
  <2> QED BY <1>2, <1>4, <2>1 DEF IInv, TypeOK, Pop, agentVars, Values
<1>6. PendingFollowsReported'
  <2>1. ASSUME NEW n \in DOMAIN pending' PROVE pending'[n] = Popped' + n - 1
    <3>1. n \in Nat /\ n + 1 \in DOMAIN pending /\ pending'[n] = pending[n + 1]
      BY <1>1, <1>4, LenProperties
    <3>2. pending[n + 1] = Popped + (n + 1) - 1
      BY <1>3, <3>1
    <3> QED BY <1>3, <3>1, <3>2
  <2>2. Popped' + Len(pending') = step_counter'
    <3>1. step_counter' = step_counter
      BY DEF Pop
    <3>2. Popped' = Popped + 1 /\ Len(pending') = Len(pending) - 1
      BY <1>3, <1>4
    <3> QED BY <1>1, <1>3, <3>1, <3>2
  <2>3. status' # "pop" /\ reported' = reported
    BY <1>2
  <2> QED BY <2>1, <2>2, <2>3 DEF IInv, PendingFollowsReported, Consecutive
<1>7. TargetIsAhead'
  BY DEF IInv, TargetIsAhead, BelowCounter, Pop, agentVars
<1>8. CompletionsAreVisits'
  BY <1>2 DEF IInv, CompletionsAreVisits, Among, Pop, agentVars
<1>9. UntornLists'
  <2>1. /\ publishing' = publishing /\ position' = position /\ command' = command
        /\ visited' = visited /\ target' = target
        /\ agent_most_recent_wp' = agent_most_recent_wp
    BY DEF Pop, agentVars
  <2>2. "torn" \notin races' =>
          /\ "torn" \notin races
          /\ publishing # None => position \notin 1 .. Len(pending) - 1
    BY DEF Pop
  <2>3. publishing # None => publishing \in Seq(Nat)
    BY DEF IInv, TypeOK
  <2>4. ASSUME "torn" \notin races', publishing # None
        PROVE  /\ publishing # <<>> => publishing[1] <= Popped'
               /\ publishing # <<>> => ~(position < Len(pending'))
    <3>1. Len(publishing) = position /\ position \in Nat
      BY <2>2, <2>4 DEF IInv, UntornLists, TypeOK
    <3>2. publishing # <<>> => publishing[1] <= Popped /\ publishing[1] \in Nat
      BY <2>2, <2>3, <2>4 DEF IInv, UntornLists
    <3>3. publishing # <<>> => position \in Nat \ {0}
      BY <2>3, <2>4, <3>1
    <3> QED BY <1>1, <1>3, <1>4, <2>2, <2>4, <3>2, <3>3
  <2> QED BY <2>1, <2>2, <2>4 DEF IInv, UntornLists, Consecutive, IsRun
<1> QED BY <1>5, <1>6, <1>7, <1>8, <1>9 DEF IInv

\* The agent.

LEMMA GetTargetStep ==
  ASSUME IInv, GetTarget PROVE IInv'
<1> USE NoneAssumption
<1>1. command \in Seq(Nat) /\ BelowCounter(command)
  BY DEF IInv, TypeOK, TargetIsAhead
<1>2. \/ target' = None
      \/ /\ target' \in Nat /\ agent_most_recent_wp < target' /\ target' < step_counter
         /\ \E n \in DOMAIN command :
              /\ target' = command[n] /\ command[n] > agent_most_recent_wp
              /\ \A m \in DOMAIN command : command[m] > agent_most_recent_wp => n <= m
  <2> DEFINE todo == {n \in DOMAIN command : command[n] > agent_most_recent_wp}
  <2>1. CASE todo = {}
    BY <2>1 DEF GetTarget, CommandToTarget
  <2>2. CASE todo # {}
    <3>1. PICK n \in todo : \A m \in todo : n <= m
      <4>1. todo \in SUBSET Nat
        BY <1>1
      <4> HIDE DEF todo
      <4> QED BY <2>2, <4>1, WellOrdered
    <3> DEFINE first == CHOOSE k \in todo : \A m \in todo : k <= m
    <3>2. first \in todo /\ \A m \in todo : first <= m
      BY <3>1
    <3>3. target' = command[first]
      BY <2>2 DEF GetTarget, CommandToTarget
    <3> HIDE DEF first
    <3> QED BY <1>1, <3>2, <3>3 DEF BelowCounter
  <2> QED BY <2>1, <2>2
<1>3. TypeOK'
  BY <1>2 DEF IInv, TypeOK, GetTarget, controllerVars, statusVars, Values
<1>4. PendingFollowsReported'
  BY DEF IInv, PendingFollowsReported, Popped, Consecutive, GetTarget, controllerVars, statusVars
<1>5. TargetIsAhead'
  BY <1>2 DEF IInv, TargetIsAhead, BelowCounter, GetTarget, controllerVars
<1>6. CompletionsAreVisits'
  BY DEF IInv, CompletionsAreVisits, Among, GetTarget, statusVars
<1>7. UntornLists'
  <2>1. /\ publishing' = publishing /\ position' = position /\ command' = command
        /\ visited' = visited /\ races' = races /\ pending' = pending
        /\ agent_most_recent_wp' = agent_most_recent_wp /\ Popped' = Popped
    BY DEF GetTarget, controllerVars, statusVars, Popped
  <2> SUFFICES ASSUME "torn" \notin races, target' # None
               PROVE  target' = agent_most_recent_wp + 1
    BY <2>1 DEF IInv, UntornLists, Consecutive, IsRun
  <2>2. PICK n \in DOMAIN command :
          /\ target' = command[n] /\ command[n] > agent_most_recent_wp
          /\ \A m \in DOMAIN command : command[m] > agent_most_recent_wp => n <= m
    BY <1>2
  <2>3. /\ command # <<>> /\ Len(command) \in Nat
        /\ DOMAIN command = 1 .. Len(command)
        /\ \A m \in 1 .. Len(command) : command[m] \in Nat
    BY <1>1, <2>2
  <2>4. /\ agent_most_recent_wp \in Int /\ n \in 1 .. Len(command)
        /\ command[1] <= agent_most_recent_wp + 1
        /\ \A m \in 1 .. Len(command) : command[m] = command[1] + m - 1
    <3>1. agent_most_recent_wp \in Int
      BY DEF IInv, TypeOK
    <3>2. /\ command[1] <= agent_most_recent_wp + 1
          /\ \A m \in DOMAIN command : command[m] = command[1] + m - 1
      BY <2>3, Zenon DEF IInv, UntornLists, IsRun
    <3> QED BY <2>2, <2>3, <3>1, <3>2
  <2>5. CASE n = 1
    BY <2>2, <2>3, <2>4, <2>5
  <2>6. CASE n # 1
    <3>1. n - 1 \in DOMAIN command /\ ~(command[n - 1] > agent_most_recent_wp)
      BY <2>2, <2>3, <2>4, <2>6
    <3>2. command[n] = command[n - 1] + 1 /\ command[n - 1] \in Nat
      BY <2>3, <2>4, <2>6
    <3> QED BY <2>2, <2>3, <2>4, <3>1, <3>2
  <2> QED BY <2>5, <2>6
<1> QED BY <1>3, <1>4, <1>5, <1>6, <1>7 DEF IInv

LEMMA CompletedStep ==
  ASSUME IInv, Completed PROVE IInv'
<1> USE NoneAssumption
<1>1. /\ visited \in Seq(Nat) /\ Len(visited) \in Nat /\ target \in Nat
      /\ DOMAIN visited = 1 .. Len(visited)
      /\ agent_most_recent_wp \in Int /\ step_counter \in Nat
  BY MaxStepsAssumption DEF IInv, TypeOK, Completed, Values
<1>2. visited' = Append(visited, target)
  BY DEF Completed
<1>3. /\ visited' \in Seq(Nat)
      /\ DOMAIN visited' = 1 .. Len(visited) + 1
      /\ \A n \in DOMAIN visited : visited'[n] = visited[n]
      /\ visited'[Len(visited) + 1] = target
  BY <1>1, <1>2, AppendElements
<1>4. agent_most_recent_wp < target /\ target < step_counter
  BY DEF IInv, TargetIsAhead, Completed
<1>5. \A n \in DOMAIN visited : visited[n] < step_counter /\ visited[n] < target /\ visited[n] \in Nat
  BY <1>1, <1>4 DEF IInv, TargetIsAhead, BelowCounter
<1>6. /\ agent_most_recent_wp' = target /\ feedback' = target /\ target' = None
      /\ UNCHANGED controllerVars /\ UNCHANGED statusVars
  BY DEF Completed
<1>7. TypeOK'
  BY <1>1, <1>3, <1>6 DEF IInv, TypeOK, Completed, controllerVars, statusVars, Values
<1>8. PendingFollowsReported'
  BY <1>6 DEF IInv, PendingFollowsReported, Popped, Consecutive, controllerVars, statusVars
<1>9. TargetIsAhead'
  <2>1. \A n \in DOMAIN visited' : visited'[n] < step_counter /\ visited'[n] <= target
    BY <1>1, <1>3, <1>4, <1>5
  <2>2. ASSUME NEW m \in DOMAIN visited', NEW n \in DOMAIN visited', m < n
        PROVE  visited'[m] < visited'[n]
    <3>1. m \in DOMAIN visited
      BY <1>1, <1>3, <2>2
    <3>2. CASE n \in DOMAIN visited
      BY <1>3, <2>2, <3>1, <3>2 DEF IInv, TargetIsAhead
    <3>3. CASE n = Len(visited) + 1
      BY <1>3, <1>5, <3>1, <3>3
    <3> QED BY <1>1, <1>3, <3>2, <3>3
  <2> QED BY <1>6, <2>1, <2>2 DEF IInv, TargetIsAhead, BelowCounter, controllerVars
<1>10. CompletionsAreVisits'
  <2>1. \A y : Among(y, visited) => Among(y, visited')
    BY <1>1, <1>2, AmongAppend
  <2>2. Among(target, visited')
    BY <1>1, <1>2, AmongAppend
  <2>3. status' = status /\ res' = res /\ reported' = reported
    BY <1>6 DEF statusVars
  <2> QED BY <1>6, <2>1, <2>2, <2>3 DEF IInv, CompletionsAreVisits
<1>11. UntornLists'
  <2>1. "torn" \notin races' => "torn" \notin races
    BY DEF Completed
  <2>2. Popped' = Popped
    BY <1>6 DEF statusVars, Popped
  <2>3. ASSUME "torn" \notin races
        PROVE  /\ Consecutive(visited')
               /\ Len(visited') = target + 1
    <3>1. target = Len(visited) /\ Consecutive(visited)
      <4>1. target # None
        BY DEF Completed
      <4>2. /\ Consecutive(visited)
            /\ Len(visited) = agent_most_recent_wp + 1
            /\ target = agent_most_recent_wp + 1
        BY <2>3, <4>1, Zenon DEF IInv, UntornLists
      <4> QED BY <4>2
    <3>2. ASSUME NEW n \in DOMAIN visited' PROVE visited'[n] = n - 1
      <4>1. CASE n \in DOMAIN visited
        BY <1>3, <3>1, <4>1 DEF Consecutive
      <4>2. CASE n = Len(visited) + 1
        BY <1>1, <1>3, <3>1, <4>2
      <4> QED BY <1>1, <1>3, <4>1, <4>2
    <3>3. Len(visited') = Len(visited) + 1
      BY <1>1, <1>2, AppendElements
    <3> QED BY <3>1, <3>2, <3>3 DEF Consecutive
  <2>4. command \in Seq(Nat)
    BY DEF IInv, TypeOK
  <2>5. "torn" \notin races => (command # <<>> => command[1] <= target + 1)
    <3>1. command # <<>> => command[1] \in Nat
      BY <2>4
    <3>2. "torn" \notin races /\ command # <<>> => command[1] <= agent_most_recent_wp + 1
      BY DEF IInv, UntornLists
    <3> QED BY <1>1, <1>4, <3>1, <3>2
  <2> QED BY <1>6, <2>1, <2>2, <2>3, <2>5 DEF IInv, UntornLists, IsRun, controllerVars
<1> QED BY <1>7, <1>8, <1>9, <1>10, <1>11 DEF IInv

LEMMA StutteringStep ==
  ASSUME IInv, UNCHANGED vars PROVE IInv'
<1>1. TypeOK'
  BY DEF IInv, TypeOK, vars, Values
<1>2. PendingFollowsReported'
  BY DEF IInv, PendingFollowsReported, Popped, Consecutive, vars
<1>3. TargetIsAhead'
  BY DEF IInv, TargetIsAhead, BelowCounter, vars
<1>4. CompletionsAreVisits'
  BY DEF IInv, CompletionsAreVisits, Among, vars
<1>5. UntornLists'
  BY DEF IInv, UntornLists, Consecutive, IsRun, Popped, vars
<1> QED BY <1>1, <1>2, <1>3, <1>4, <1>5 DEF IInv

\* The three threads keep their lists in agreement, whatever the interleaving
\* and whatever the races between them.
THEOREM HandshakeInvariance == Spec => []IInv
<1>1. IInv /\ [Next]_vars => IInv'
  <2> SUFFICES ASSUME IInv, [Next]_vars PROVE IInv'
    OBVIOUS
  <2>1. CASE \E n \in 1 .. Window : Enqueue(n)
    BY <2>1, EnqueueStep
  <2>2. CASE ListNext
    BY <2>2, ListNextStep
  <2>3. CASE Publish
    BY <2>3, PublishStep
  <2>4. CASE Poll
    BY <2>4, PollStep
  <2>5. CASE Check
    BY <2>5, CheckStep
  <2>6. CASE Pop
    BY <2>6, PopStep
  <2>7. CASE GetTarget
    BY <2>7, GetTargetStep
  <2>8. CASE Completed
    BY <2>8, CompletedStep
  <2>9. CASE UNCHANGED vars
    BY <2>9, StutteringStep
  <2> QED BY <2>1, <2>2, <2>3, <2>4, <2>5, <2>6, <2>7, <2>8, <2>9 DEF Next
<1> QED BY <1>1, InitIInv, PTL DEF Spec

\* on_reached is called in the order of the waypoints, for each once, and only
\* after the agent has been there: the FIFO order that BaseRobotController asks
\* for, as far as the executor can see.
THEOREM ReportsAreFIFO == Spec => []ReportsAreVisits
<1>1. IInv => ReportsAreVisits
  BY DEF IInv, PendingFollowsReported, CompletionsAreVisits, ReportsAreVisits
<1> QED BY <1>1, HandshakeInvariance, PTL

\* The agent is never sent back, and never to what has not been enqueued.
THEOREM AgentGoesForward == Spec => []NeverGoesBack
<1>1. IInv => NeverGoesBack
  BY DEF IInv, TargetIsAhead, BelowCounter, NeverGoesBack
<1> QED BY <1>1, HandshakeInvariance, PTL

\* As long as no pop has fallen into the making of a command, the agent visits
\* the waypoints in order and leaves none out.
THEOREM VisitsAreFIFO == Spec => []SkipsOnlyWhenTorn
<1>1. IInv => SkipsOnlyWhenTorn
  BY DEF IInv, UntornLists, SkipsOnlyWhenTorn
<1> QED BY <1>1, HandshakeInvariance, PTL

=============================================================================
