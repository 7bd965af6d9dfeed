------------------------ MODULE PlanGeneratorProofs ------------------------
(***************************************************************************)
(* Proofs about the plans that are generated for the solutions of          *)
(* GeneratedPlans, from what SolutionProofs says of any solution.          *)
(***************************************************************************)
EXTENDS GeneratedPlans, SolutionProofs

-----------------------------------------------------------------------------
(* The properties of GeneratedPlans.                                       *)

\* Longer paths have come about by a step, which leaves no conflict.
Grown == (\A r \in Robots : Len(paths[r]) = 1) \/ ConflictFree(paths)

GInv == paths \in Paths /\ Grown

LEMMA GrownInvariant == Spec => []GInv
<1>1. Init => GInv
  <2> SUFFICES ASSUME Init PROVE paths \in Paths /\ Grown
    BY DEF GInv
  <2>1. \A r \in Robots : Starts[r] \in Locations
    BY StartsAssumption
  <2>2. \A r \in Robots : paths[r] = <<Starts[r]>>
    BY DEF Init
  <2>3. \A r \in Robots : paths[r] \in Seq(Locations) \ {<<>>} /\ Len(paths[r]) = 1
    <3> TAKE r \in Robots
    <3> DEFINE s == Starts[r]
    <3>1. s \in Locations /\ paths[r] = <<s>>
      BY <2>1, <2>2
    <3> HIDE DEF s
    <3> QED BY <3>1
  <2>4. paths = [r \in Robots |-> paths[r]]
    BY DEF Init
  <2> QED BY <2>3, <2>4 DEF Grown, Paths
<1>2. GInv /\ [Next]_paths => GInv'
  <2> SUFFICES ASSUME paths \in Paths, Next PROVE paths' \in Paths /\ ConflictFree(paths')
    BY DEF Grown, GInv
  <2>1. PICK moving \in SUBSET {r \in Robots : Len(paths[r]) = MaxT(paths)} \ {{}} :
          \E to \in [moving -> Locations] :
            /\ paths' = [r \in Robots |->
                           IF r \in moving THEN Append(paths[r], to[r]) ELSE paths[r]]
            /\ ConflictFree(paths')
    BY DEF Next
  <2>2. PICK to \in [moving -> Locations] :
          /\ paths' = [r \in Robots |->
                         IF r \in moving THEN Append(paths[r], to[r]) ELSE paths[r]]
          /\ ConflictFree(paths')
    BY <2>1
  <2>3. ASSUME NEW r \in Robots
        PROVE  (IF r \in moving THEN Append(paths[r], to[r]) ELSE paths[r])
                 \in Seq(Locations) \ {<<>>}
    <3>1. paths[r] \in Seq(Locations) /\ paths[r] # <<>>
      BY DEF Paths
    <3>2. CASE r \in moving
      <4>1. to[r] \in Locations
        BY <3>2
      <4>2. Append(paths[r], to[r]) \in Seq(Locations) /\ Append(paths[r], to[r]) # <<>>
        BY <3>1, <4>1
      <4> QED BY <3>2, <4>2
    <3>3. CASE r \notin moving
      BY <3>1, <3>3
    <3> QED BY <3>2, <3>3
  <2> QED BY <2>2, <2>3 DEF Paths
<1> QED BY <1>1, <1>2, PTL DEF Spec

\* Before the first step there are no plans.
LEMMA NoPlansAtFirst ==
  ASSUME paths \in Paths, \A r \in Robots : Len(paths[r]) = 1
  PROVE  DOMAIN Generated = {}
<1>1. DOMAIN Generated = {j \in Robots : Len(paths[j]) > 1}
  BY GeneratedIs, OffsetAssumption DEF Generated
<1>2. ~(1 > 1)
  OBVIOUS
<1> QED BY <1>1, <1>2

\* Every two visits of a location are ordered by a blocker, in the plans of
\* any conflict-free solution (plan_generator.py:98-99).
THEOREM VisitsAreOrdered == Spec => []AllVisitsOrdered
<1>1. GInv => AllVisitsOrdered
  <2> SUFFICES ASSUME paths \in Paths, Grown PROVE VisitsOrdered(Generated)
    BY DEF AllVisitsOrdered, GInv
  <2>1. CASE ConflictFree(paths)
    BY <2>1, GeneratedVisits, RobotsAssumption, OffsetAssumption DEF Generated
  <2>2. CASE \A r \in Robots : Len(paths[r]) = 1
    BY <2>2, NoPlansAtFirst DEF VisitsOrdered
  <2> QED BY <2>1, <2>2 DEF Grown
<1> QED BY <1>1, GrownInvariant, PTL

\* Every blocker names another robot with a plan, the id of that plan and the
\* progress of one of its waypoints.
THEOREM BlockersAreAttainable == Spec => []BlockersAttainable
<1>1. GInv => BlockersAttainable
  <2> SUFFICES ASSUME paths \in Paths,
                      NEW j \in DOMAIN Generated, NEW k \in Indices(Generated[j]),
                      NEW b \in WaypointAt(Generated[j], k).departure_blockers
               PROVE  /\ b.name \in DOMAIN Generated \ {j}
                      /\ b.plan_id = Generated[b.name].plan_id
                      /\ \E m \in Indices(Generated[b.name]) :
                           WaypointAt(Generated[b.name], m).progress = b.required_progress
    BY DEF BlockersAttainable, GInv
  <2>1. PICK i \in DOMAIN Generated \ {j} : \E m \in Indices(Generated[i]) :
           /\ b.name = i
           /\ b.plan_id = Generated[i].plan_id
           /\ b.required_progress = m + Offset[i]
           /\ WaypointAt(Generated[i], m).progress = m + Offset[i]
    BY BlockerFields, OffsetAssumption DEF Generated
  <2> QED BY <2>1
<1> QED BY <1>1, GrownInvariant, PTL

\* The blockers of a solution in which no robots rotate leave, wherever the
\* robots are in their plans, one that may go on.
THEOREM SomeoneMayAlwaysDepart == Spec => []SomeoneMayDepart
<1>1. GInv => SomeoneMayDepart
  <2> SUFFICES ASSUME paths \in Paths, Grown, ~Rotates(paths) PROVE NoCircularWait(Generated)
    BY DEF SomeoneMayDepart, GInv
  <2>1. CASE ConflictFree(paths)
    BY <2>1, GeneratedNoCircularWait, RobotsAssumption, OffsetAssumption DEF Generated
  <2>2. CASE \A r \in Robots : Len(paths[r]) = 1
    BY <2>2, NoPlansAtFirst DEF NoCircularWait
  <2> QED BY <2>1, <2>2 DEF Grown
<1> QED BY <1>1, GrownInvariant, PTL

\* When every robot has somewhere to go, the generated plans are what the
\* theorems about the execution of a batch assume of it.
THEOREM GeneratedIsABatch ==
  Spec => []((\A r \in Robots : Len(paths[r]) > 1) => BatchAssumption(Generated))
<1>1. GInv =>
        ((\A r \in Robots : Len(paths[r]) > 1) => BatchAssumption(Generated))
  <2> SUFFICES ASSUME paths \in Paths, Grown, \A r \in Robots : Len(paths[r]) > 1
               PROVE  BatchAssumption(Generated)
    BY DEF GInv
  <2>1. DOMAIN Generated = Robots
    BY GeneratedIs, OffsetAssumption DEF Generated
  <2>2. ConflictFree(paths)
    <3>1. CASE Robots = {}
      BY <3>1 DEF ConflictFree, Paths
    <3>2. CASE Robots # {}
      <4>1. PICK r \in Robots : TRUE
        BY <3>2
      <4>2. Len(paths[r]) # 1
        <5>1. Len(paths[r]) \in Nat /\ Len(paths[r]) > 1
          BY PathFields
        <5>2. \A n \in Nat : n > 1 => n # 1
          OBVIOUS
        <5> QED BY <5>1, <5>2, Zenon
      <4> QED BY <4>2 DEF Grown
    <3> QED BY <3>1, <3>2
  <2>3. Generated \in [Robots -> Plan]
    BY <2>1, GeneratedType, IdsAssumption, OffsetAssumption DEF Generated
  <2>4. \A i, j \in Robots : Generated[i].plan_id = Generated[j].plan_id => i = j
    <3>1. \A i \in Robots : Generated[i].plan_id = Ids[i]
      BY <2>1, GeneratedFields, OffsetAssumption DEF Generated
    <3> QED BY <3>1, IdsAssumption
  <2>5. \A i \in Robots : ProgressIncreases(Generated[i])
    BY <2>1, GeneratedProgress, OffsetAssumption DEF Generated
  <2>6. VisitsOrdered(Generated)
    BY <2>2, GeneratedVisits, RobotsAssumption, OffsetAssumption DEF Generated
  <2>7. Attainable(Generated)
    <3>1. \A r, s \in DOMAIN Generated : Ids[r] = Ids[s] => r = s
      BY <2>1, IdsAssumption
    <3> QED BY <3>1, GeneratedAttainable, OffsetAssumption DEF Generated
  <2> QED BY <2>3, <2>4, <2>5, <2>6, <2>7 DEF BatchAssumption
<1> QED BY <1>1, GrownInvariant, PTL

=============================================================================
