-------------------------- MODULE MapfSystemProofs ---------------------------
(***************************************************************************)
(* Proofs about the server and the executor together, for any map, any     *)
(* solver and any script of the client.                                    *)
(***************************************************************************)
EXTENDS MapfSystem, DependencyManagerProofs, SolutionProofs

-----------------------------------------------------------------------------
(* Requests and answers: what the server plans from is the last promise of *)
(* the executor.                                                           *)

Request == "committed_locations_request"
Reached == "waypoint_reached"

QueuesTyped ==
  /\ IsSequence(message_queue)
  /\ IsSequence(responses)
  /\ subscriptions \in [{"server", "executor"} -> [Robots -> Nat]]

\* Nothing is in the queue q that changes plans or cuts.
Settled(q) == \A n \in DOMAIN q : q[n].type = Reached

\* The executor keeps to these locations.
Promised(d, committed) ==
  \A r \in Known(d) :
    /\ r \in DOMAIN committed \cap DOMAIN d.cut_indices
    /\ d.cut_indices[r] = committed[r].waypoint_index
    /\ WaypointAt(d.plan[r], d.cut_indices[r]).name = committed[r].location

IdsAreCounted ==
  /\ request_counter \in Nat
  /\ \A n \in DOMAIN message_queue :
       message_queue[n].type = Request => message_queue[n].request_id \in 1 .. request_counter
  /\ \A n \in DOMAIN responses : responses[n].request_id \in 1 .. request_counter
  /\ server.at = "waiting" => server.request_id = request_counter

\* Until the last request is answered, no plan comes after it.
Waits == server.at \in {"idle", "waiting", "dead"}

RequestIsLast ==
  \A n \in DOMAIN message_queue :
    message_queue[n].type = Request /\ message_queue[n].request_id = request_counter =>
      /\ Waits
      /\ \A m \in DOMAIN message_queue : m > n => message_queue[m].type = Reached
      /\ \A m \in DOMAIN responses : responses[m].request_id # request_counter

AnswerIsLast ==
  \A n \in DOMAIN responses :
    responses[n].request_id = request_counter =>
      /\ Waits
      /\ Settled(message_queue)
      /\ Promised(dm, responses[n].committed_locations)
      /\ \A m \in DOMAIN responses : responses[m].request_id = request_counter => m = n

AnswerIsTaken ==
  server.at \in {"solving", "identified"} =>
    Settled(message_queue) /\ Promised(dm, server.committed)

AnswersInv ==
  /\ QueuesTyped
  /\ DOMAIN dm = ManagerFields
  /\ IdsAreCounted
  /\ RequestIsLast
  /\ AnswerIsLast
  /\ AnswerIsTaken

LEMMA AnswersInit ==
  ASSUME Init
  PROVE  AnswersInv
<1>1. /\ message_queue = <<>> /\ responses = <<>> /\ request_counter = 0 /\ server = Idle
      /\ dm = EmptyManager
      /\ subscriptions = [side \in {"server", "executor"} |-> [r \in Robots |-> 0]]
  BY DEF Init, ServerInit, ExecutorInit, TransportInit
<1>2. IsSequence(<<>>)
  BY DEF IsSequence
<1>3. DOMAIN message_queue = {} /\ DOMAIN responses = {} /\ server.at = "idle"
  BY <1>1 DEF Idle
<1> QED BY <1>1, <1>2, <1>3 DEF AnswersInv, QueuesTyped, IdsAreCounted, RequestIsLast,
                                AnswerIsLast, AnswerIsTaken, ManagerFields, EmptyManager

\* Steps of the worker thread that the executor does not see, and its death.
LEMMA ServerGoesOn ==
  ASSUME AnswersInv, UNCHANGED <<dm, message_queue, responses, request_counter, subscriptions>>,
         \/ UNCHANGED server
         \/ server'.at \in {"idle", "dead"}
         \/ /\ ~Waits
            /\ server'.at \in {"solving", "identified", "publishing", "recording"}
            /\ server'.at \in {"solving", "identified"} =>
                 server.at \in {"solving", "identified"} /\ server'.committed = server.committed
  PROVE  AnswersInv'
<1>1. QueuesTyped' /\ IdsAreCounted'
  BY DEF AnswersInv, QueuesTyped, IdsAreCounted
<1>2. RequestIsLast' /\ AnswerIsLast'
  BY DEF AnswersInv, RequestIsLast, AnswerIsLast, Waits
<1>3. AnswerIsTaken'
  BY DEF AnswersInv, AnswerIsTaken
<1> QED BY <1>1, <1>2, <1>3 DEF AnswersInv

LEMMA TakeResponseKeeps ==
  ASSUME AnswersInv, TakeResponse, UNCHANGED <<dm, message_queue, subscriptions>>
  PROVE  AnswersInv'
<1>1. /\ server.at = "waiting" /\ responses # <<>> /\ responses' = Tail(responses)
      /\ UNCHANGED <<dm, message_queue, request_counter, subscriptions>>
      /\ server.request_id = request_counter
  BY DEF TakeResponse, AnswersInv, IdsAreCounted
<1>2. /\ IsSequence(responses') /\ Head(responses) = responses[1] /\ 1 \in DOMAIN responses
      /\ \A n \in DOMAIN responses' : /\ n + 1 \in DOMAIN responses /\ n + 1 # 1
                                     /\ responses'[n] = responses[n + 1]
  BY <1>1, TailIs DEF AnswersInv, QueuesTyped
<1>3. QueuesTyped'
  BY <1>1, <1>2 DEF AnswersInv, QueuesTyped
<1>4. CASE responses[1].request_id # request_counter
  <2>1. server' = server
    BY <1>1, <1>2, <1>4 DEF TakeResponse, Answers
  <2>2. IdsAreCounted' /\ RequestIsLast' /\ AnswerIsTaken'
    BY <1>1, <1>2, <2>1 DEF AnswersInv, IdsAreCounted, RequestIsLast, AnswerIsTaken, Waits
  <2>3. AnswerIsLast'
    <3> SUFFICES ASSUME NEW n \in DOMAIN responses', responses'[n].request_id = request_counter
                 PROVE  /\ Waits' /\ Settled(message_queue')
                        /\ Promised(dm', responses'[n].committed_locations)
                        /\ \A m \in DOMAIN responses' :
                             responses'[m].request_id = request_counter => m = n
      BY <1>1 DEF AnswerIsLast
    <3>1. n + 1 \in DOMAIN responses /\ responses[n + 1].request_id = request_counter
          /\ responses'[n] = responses[n + 1]
      BY <1>2
    <3>2. /\ Waits /\ Settled(message_queue)
          /\ Promised(dm, responses[n + 1].committed_locations)
          /\ \A m \in DOMAIN responses : responses[m].request_id = request_counter => m = n + 1
      BY <3>1 DEF AnswersInv, AnswerIsLast
    <3>3. ASSUME NEW m \in DOMAIN responses', responses'[m].request_id = request_counter
          PROVE  m = n
      <4>1. m + 1 = n + 1
        BY <1>2, <3>2, <3>3
      <4>2. m \in Nat /\ n \in Nat
        BY <1>1, TailIs DEF AnswersInv, QueuesTyped
      <4> QED BY <4>1, <4>2
    <3> QED BY <1>1, <2>1, <3>1, <3>2, <3>3 DEF Waits
  <2> QED BY <1>3, <2>2, <2>3 DEF AnswersInv
<1>5. CASE responses[1].request_id = request_counter
  <2>1. /\ server'.at = "solving" /\ server'.committed = responses[1].committed_locations
    BY <1>1, <1>2, <1>5 DEF TakeResponse, Answers
  <2>2. /\ Settled(message_queue) /\ Promised(dm, responses[1].committed_locations)
        /\ \A m \in DOMAIN responses : responses[m].request_id = request_counter => m = 1
    BY <1>2, <1>5 DEF AnswersInv, AnswerIsLast
  <2>3. AnswerIsTaken'
    BY <1>1, <2>1, <2>2 DEF AnswerIsTaken
  <2>4. \A n \in DOMAIN responses' : responses'[n].request_id # request_counter
    BY <1>2, <2>2
  <2>5. AnswerIsLast'
    BY <1>1, <2>4 DEF AnswerIsLast
  <2>6. RequestIsLast'
    <3>1. \A n \in DOMAIN message_queue : message_queue[n].type # Request
      BY <2>2 DEF Settled, Request, Reached
    <3> QED BY <1>1, <3>1 DEF RequestIsLast
  <2>7. IdsAreCounted'
    BY <1>1, <1>2, <2>1 DEF AnswersInv, IdsAreCounted
  <2> QED BY <1>3, <2>3, <2>5, <2>6, <2>7 DEF AnswersInv
<1> QED BY <1>4, <1>5

LEMMA ProcessBatchKeeps ==
  ASSUME AnswersInv, ServerBatch
  PROVE  AnswersInv'
<1>1. /\ server = Idle /\ UNCHANGED <<responses, dm, subscriptions>>
      /\ \/ /\ UNCHANGED <<server, request_counter>>
         \/ /\ request_counter' = request_counter + 1
            /\ server'.at = "waiting" /\ server'.request_id = request_counter'
  BY DEF ServerBatch, ProcessBatch, OnCommittedLocationsRequest, executorVars, transportVars
<1>2. CASE UNCHANGED server
  <2>1. UNCHANGED message_queue
    BY <1>1, <1>2 DEF ServerBatch, Idle, executorVars
  <2>2. UNCHANGED request_counter
    BY <1>1, <1>2 DEF Idle
  <2> QED BY <1>1, <1>2, <2>1, <2>2, ServerGoesOn
<1>3. CASE server'.at = "waiting" /\ ~UNCHANGED server
  <2> DEFINE id == request_counter + 1
             asked == RequestMessage(id)
  <2>1. /\ request_counter' = id /\ server'.at = "waiting" /\ server'.request_id = id
        /\ message_queue' = Append(message_queue, asked)
    BY <1>1, <1>3 DEF ServerBatch, OnCommittedLocationsRequest
  <2>2. request_counter \in Nat /\ id \in Nat /\ id = request_counter + 1
    BY DEF AnswersInv, IdsAreCounted
  <2>3. asked.type = Request /\ asked.request_id = id
    BY DEF RequestMessage, Request
  <2> HIDE DEF id, asked
  <2>4. /\ IsSequence(message_queue') /\ Len(message_queue) \in Nat
        /\ DOMAIN message_queue = 1 .. Len(message_queue)
        /\ DOMAIN message_queue' = 1 .. Len(message_queue) + 1
        /\ \A n \in 1 .. Len(message_queue) + 1 :
             message_queue'[n] = IF n <= Len(message_queue) THEN message_queue[n] ELSE asked
    BY <2>1, AppendedIs DEF AnswersInv, QueuesTyped
  <2>5. /\ \A n \in DOMAIN message_queue :
             message_queue[n].type = Request => message_queue[n].request_id \in 1 .. request_counter
        /\ \A n \in DOMAIN responses : responses[n].request_id \in 1 .. request_counter
    BY DEF AnswersInv, IdsAreCounted
  <2>6. QueuesTyped'
    BY <1>1, <2>4 DEF AnswersInv, QueuesTyped
  <2>7. \A i \in 1 .. request_counter : i \in 1 .. id /\ i # id
    BY <2>2
  <2>8. IdsAreCounted'
    <3>1. id \in 1 .. id
      BY <2>2
    <3> QED BY <1>1, <2>1, <2>2, <2>3, <2>4, <2>5, <2>7, <3>1 DEF IdsAreCounted
  <2>9. RequestIsLast'
    <3> SUFFICES ASSUME NEW n \in DOMAIN message_queue', message_queue'[n].type = Request,
                        message_queue'[n].request_id = id
                 PROVE  /\ Waits'
                        /\ \A m \in DOMAIN message_queue' : m > n => message_queue'[m].type = Reached
                        /\ \A m \in DOMAIN responses' : responses'[m].request_id # id
      BY <2>1 DEF RequestIsLast
    <3>1. n = Len(message_queue) + 1
      BY <2>4, <2>5, <2>7
    <3>2. \A m \in DOMAIN message_queue' : ~(m > n)
      BY <2>4, <3>1
    <3>3. \A m \in DOMAIN responses' : responses'[m].request_id # id
      BY <1>1, <2>5, <2>7
    <3> QED BY <2>1, <3>2, <3>3 DEF Waits
  <2>10. AnswerIsLast' /\ AnswerIsTaken'
    BY <1>1, <2>1, <2>5, <2>7 DEF AnswerIsLast, AnswerIsTaken
  <2> QED BY <1>1, <2>6, <2>8, <2>9, <2>10 DEF AnswersInv
<1> QED BY <1>1, <1>2, <1>3

\* Plans are published when nothing has been asked.
LEMMA PublishKeeps ==
  ASSUME AnswersInv, NEW r \in Robots, ServerPublish(r),
         server'.at = "publishing"
  PROVE  AnswersInv'
<1> DEFINE message == PlanMessage(r, Carried(server.plans[r]))
           copies == [n \in 1 .. subscriptions["executor"][r] |-> message]
<1>1. /\ server.at = "publishing"
      /\ message_queue' = message_queue \o copies
      /\ UNCHANGED <<dm, responses, request_counter, subscriptions>>
  BY DEF ServerPublish, PublishPlan, transportVars, Delivered
<1>2. subscriptions["executor"][r] \in Nat
  BY DEF AnswersInv, QueuesTyped
<1>3. message.type # Request
  BY DEF PlanMessage, Request
<1> HIDE DEF message
<1>4. IsSequence(copies) /\ \A n \in DOMAIN copies : copies[n].type # Request
  BY <1>2, <1>3, CopiesAre
<1> HIDE DEF copies
<1>5. /\ IsSequence(message_queue')
      /\ \A n \in DOMAIN message_queue' :
           message_queue'[n].type = Request =>
             \E m \in DOMAIN message_queue : message_queue'[n] = message_queue[m]
  <2>1. /\ IsSequence(message_queue') /\ Len(message_queue) \in Nat /\ Len(copies) \in Nat
        /\ DOMAIN message_queue = 1 .. Len(message_queue) /\ DOMAIN copies = 1 .. Len(copies)
        /\ DOMAIN message_queue' = 1 .. Len(message_queue) + Len(copies)
        /\ \A n \in 1 .. Len(message_queue) + Len(copies) :
             message_queue'[n] = IF n <= Len(message_queue) THEN message_queue[n]
                                 ELSE copies[n - Len(message_queue)]
    BY <1>1, <1>4, JoinedIs DEF AnswersInv, QueuesTyped
  <2>2. ASSUME NEW n \in DOMAIN message_queue', ~(n <= Len(message_queue))
        PROVE  message_queue'[n].type # Request
    <3>1. n - Len(message_queue) \in DOMAIN copies /\ message_queue'[n] = copies[n - Len(message_queue)]
      BY <2>1, <2>2
    <3> QED BY <1>4, <3>1
  <2>3. ASSUME NEW n \in DOMAIN message_queue', n <= Len(message_queue)
        PROVE  n \in DOMAIN message_queue /\ message_queue'[n] = message_queue[n]
    BY <2>1, <2>3
  <2> QED BY <2>1, <2>2, <2>3
<1>6. ~Waits
  BY <1>1 DEF Waits
<1>7. QueuesTyped' /\ IdsAreCounted'
  BY <1>1, <1>5 DEF AnswersInv, QueuesTyped, IdsAreCounted
<1>8. \A n \in DOMAIN responses : responses[n].request_id # request_counter
  BY <1>6 DEF AnswersInv, AnswerIsLast
<1>9. \A n \in DOMAIN message_queue :
        ~(message_queue[n].type = Request /\ message_queue[n].request_id = request_counter)
  BY <1>6 DEF AnswersInv, RequestIsLast
<1>10. RequestIsLast' /\ AnswerIsLast' /\ AnswerIsTaken'
  BY <1>1, <1>5, <1>8, <1>9 DEF RequestIsLast, AnswerIsLast, AnswerIsTaken
<1> QED BY <1>1, <1>7, <1>10 DEF AnswersInv

\* What becomes of the queue when a message is taken out.
LEMMA MessageTaken ==
  ASSUME IsSequence(message_queue), message_queue # <<>>, message_queue' = Tail(message_queue)
  PROVE  /\ IsSequence(message_queue')
         /\ 1 \in DOMAIN message_queue /\ Head(message_queue) = message_queue[1]
         /\ \A n \in DOMAIN message_queue' :
              n \in Nat /\ n + 1 \in DOMAIN message_queue /\ n + 1 > 1
                /\ message_queue'[n] = message_queue[n + 1]
BY TailIs

\* The executor takes out a message that is no request.
LEMMA HandlerKeeps ==
  ASSUME AnswersInv, message_queue # <<>>, message_queue' = Tail(message_queue),
         Head(message_queue).type # Request, DOMAIN dm' = ManagerFields,
         UNCHANGED <<server, responses, request_counter, subscriptions>>,
         Head(message_queue).type = Reached =>
           \A committed : Promised(dm, committed) => Promised(dm', committed)
  PROVE  AnswersInv'
<1>1. /\ IsSequence(message_queue')
      /\ 1 \in DOMAIN message_queue /\ Head(message_queue) = message_queue[1]
      /\ \A n \in DOMAIN message_queue' :
           n \in Nat /\ n + 1 \in DOMAIN message_queue /\ n + 1 > 1
             /\ message_queue'[n] = message_queue[n + 1]
  BY MessageTaken DEF AnswersInv, QueuesTyped
<1>2. QueuesTyped' /\ IdsAreCounted'
  BY <1>1 DEF AnswersInv, QueuesTyped, IdsAreCounted
<1>3. RequestIsLast'
  <2> SUFFICES ASSUME NEW n \in DOMAIN message_queue', message_queue'[n].type = Request,
                      message_queue'[n].request_id = request_counter
               PROVE  /\ Waits
                      /\ \A m \in DOMAIN message_queue' : m > n => message_queue'[m].type = Reached
                      /\ \A m \in DOMAIN responses : responses[m].request_id # request_counter
    BY DEF RequestIsLast, Waits
  <2>1. /\ Waits
        /\ \A m \in DOMAIN message_queue : m > n + 1 => message_queue[m].type = Reached
        /\ \A m \in DOMAIN responses : responses[m].request_id # request_counter
    BY <1>1 DEF AnswersInv, RequestIsLast
  <2>2. ASSUME NEW m \in DOMAIN message_queue', m > n PROVE message_queue'[m].type = Reached
    <3>1. m + 1 > n + 1
      BY <1>1, <2>2
    <3> QED BY <1>1, <2>1, <2>2, <3>1
  <2> QED BY <2>1, <2>2
<1>4. Settled(message_queue) => Settled(message_queue') /\ Head(message_queue).type = Reached
  BY <1>1 DEF Settled
<1>5. AnswerIsLast' /\ AnswerIsTaken'
  BY <1>4 DEF AnswersInv, AnswerIsLast, AnswerIsTaken, Waits
<1> QED BY <1>2, <1>3, <1>5 DEF AnswersInv

LEMMA ExecutorPlanKeeps ==
  ASSUME AnswersInv, ExecutorPlan
  PROVE  AnswersInv'
<1>1. /\ message_queue # <<>> /\ message_queue' = Tail(message_queue)
      /\ Head(message_queue).type = "plan"
      /\ UNCHANGED <<server, responses, request_counter, subscriptions>>
  BY DEF ExecutorPlan, HandlePlan, NextMessage, serverVars, transportVars
<1>2. DOMAIN dm = ManagerFields
  BY DEF AnswersInv
<1>3. PICK d : DispatchUnblocked(d) /\ DOMAIN d = ManagerFields
  <2> DEFINE r == Head(message_queue).robot
             p == Head(message_queue).plan
  <2>1. DispatchUnblocked(SetPlan(dm, r, p)) \/ DispatchUnblocked(UpdatePlanAfterCut(dm, r, p))
    BY DEF ExecutorPlan, HandlePlan
  <2>2. DOMAIN SetPlan(dm, r, p) = ManagerFields /\ DOMAIN UpdatePlanAfterCut(dm, r, p) = ManagerFields
    BY <1>2 DEF SetPlan, UpdatePlanAfterCut
  <2> QED BY <2>1, <2>2
<1>4. DOMAIN dm' = ManagerFields
  BY <1>3, DispatchIs
<1> QED BY <1>1, <1>4, HandlerKeeps DEF Request, Reached

LEMMA ReachedIs ==
  ASSUME DOMAIN dm = ManagerFields, HandleWaypointReached
  PROVE  /\ DOMAIN dm' = ManagerFields
         /\ dm'.robots = dm.robots /\ dm'.plan = dm.plan /\ dm'.cut_indices = dm.cut_indices
<1> DEFINE r == Head(message_queue).robot
           d == UpdateProgress(dm, r, Head(message_queue).index)
           e == IF IsComplete(d, r) THEN OnPlanComplete(d, r) ELSE d
<1>1. DispatchUnblocked(e)
  BY DEF HandleWaypointReached
<1>2. /\ DOMAIN d = ManagerFields
      /\ d.robots = dm.robots /\ d.plan = dm.plan /\ d.cut_indices = dm.cut_indices
  BY DEF UpdateProgress, ManagerFields
<1> HIDE DEF d
<1>3. /\ DOMAIN e = ManagerFields
      /\ e.robots = dm.robots /\ e.plan = dm.plan /\ e.cut_indices = dm.cut_indices
  BY <1>2 DEF OnPlanComplete, ManagerFields
<1> HIDE DEF e
<1> QED BY <1>1, <1>3, DispatchIs

LEMMA ExecutorReachedKeeps ==
  ASSUME AnswersInv, ExecutorReached
  PROVE  AnswersInv'
<1>1. /\ message_queue # <<>> /\ message_queue' = Tail(message_queue)
      /\ Head(message_queue).type = Reached
      /\ UNCHANGED <<server, responses, request_counter, subscriptions>>
  BY DEF ExecutorReached, HandleWaypointReached, NextMessage, serverVars, transportVars, Reached
<1>2. /\ DOMAIN dm' = ManagerFields
      /\ dm'.robots = dm.robots /\ dm'.plan = dm.plan /\ dm'.cut_indices = dm.cut_indices
  BY ReachedIs DEF ExecutorReached, AnswersInv
<1>3. \A committed : Promised(dm, committed) => Promised(dm', committed)
  BY <1>2 DEF Promised, Known
<1> QED BY <1>1, <1>2, <1>3, HandlerKeeps DEF Request, Reached

\* The cut is the promise.
LEMMA ExecutorRequestKeeps ==
  ASSUME AnswersInv, ExecutorRequest
  PROVE  AnswersInv'
<1> DEFINE id == Head(message_queue).request_id
           d == ComputeCommitCut(dm)
<1>1. /\ message_queue # <<>> /\ message_queue' = Tail(message_queue)
      /\ Head(message_queue).type = Request
      /\ UNCHANGED <<server, request_counter, subscriptions>>
  BY DEF ExecutorRequest, HandleCommittedLocationsRequest, NextMessage, transportVars, Request
<1>2. /\ IsSequence(message_queue')
      /\ 1 \in DOMAIN message_queue /\ Head(message_queue) = message_queue[1]
      /\ \A n \in DOMAIN message_queue' :
           n \in Nat /\ n + 1 \in DOMAIN message_queue /\ n + 1 > 1
             /\ message_queue'[n] = message_queue[n + 1]
  BY <1>1, MessageTaken DEF AnswersInv, QueuesTyped
<1>3. id \in 1 .. request_counter
  BY <1>1, <1>2 DEF AnswersInv, IdsAreCounted
<1>4. ~Settled(message_queue)
  BY <1>1, <1>2 DEF Settled, Request, Reached
<1>5. /\ server.at \notin {"solving", "identified"}
      /\ \A n \in DOMAIN responses : responses[n].request_id # request_counter
  BY <1>4 DEF AnswersInv, AnswerIsTaken, AnswerIsLast
<1>6. \A n \in DOMAIN message_queue' :
        message_queue'[n].type = Request => message_queue'[n].request_id # request_counter \/ id # request_counter
  <2> SUFFICES ASSUME NEW n \in DOMAIN message_queue', message_queue'[n].type = Request,
                      id = request_counter
               PROVE  FALSE
    OBVIOUS
  <2>1. message_queue[n + 1].type = Reached
    BY <1>1, <1>2 DEF AnswersInv, RequestIsLast
  <2> QED BY <1>2, <2>1 DEF Request, Reached
<1> HIDE DEF id
<1>7. ASSUME NEW n \in DOMAIN message_queue', message_queue'[n].type = Request,
             message_queue'[n].request_id = request_counter
      PROVE  /\ Waits
             /\ \A m \in DOMAIN message_queue' : m > n => message_queue'[m].type = Reached
             /\ id # request_counter
  <2>1. /\ Waits
        /\ \A m \in DOMAIN message_queue : m > n + 1 => message_queue[m].type = Reached
    BY <1>2, <1>7 DEF AnswersInv, RequestIsLast
  <2>2. ASSUME NEW m \in DOMAIN message_queue', m > n PROVE message_queue'[m].type = Reached
    <3>1. m + 1 > n + 1
      BY <1>2, <2>2
    <3> QED BY <1>2, <2>1, <3>1
  <2> QED BY <1>6, <1>7, <2>1, <2>2
<1>8. CASE CommitCutFails(dm)
  <2>1. UNCHANGED <<dm, responses>>
    BY <1>8 DEF ExecutorRequest, HandleCommittedLocationsRequest
  <2>2. QueuesTyped' /\ IdsAreCounted'
    BY <1>1, <1>2, <2>1 DEF AnswersInv, QueuesTyped, IdsAreCounted
  <2>3. RequestIsLast' /\ AnswerIsLast' /\ AnswerIsTaken'
    BY <1>1, <1>5, <1>7, <2>1 DEF RequestIsLast, AnswerIsLast, AnswerIsTaken, Waits
  <2> QED BY <2>1, <2>2, <2>3 DEF AnswersInv
<1>9. CASE ~CommitCutFails(dm)
  <2> DEFINE committed == CarriedLocations(CommittedLocations(d))
             answer == [ [ request_id |-> id, committed_locations |-> CommittedLocations(d),
                           stationary_agents |-> StationaryAgents(d) ]
                         EXCEPT !.committed_locations = CarriedLocations(@) ]
  <2>1. dm' = d /\ responses' = Append(responses, answer)
    BY <1>9 DEF ExecutorRequest, HandleCommittedLocationsRequest, CommittedLocationsResponse, id
  <2>2. answer.request_id = id /\ answer.committed_locations = committed
    OBVIOUS
  <2>3. DOMAIN d = ManagerFields /\ Promised(d, committed)
    <3>1. DOMAIN dm = ManagerFields
      BY DEF AnswersInv
    <3>2. /\ DOMAIN d = ManagerFields /\ d.robots = dm.robots
          /\ DOMAIN d.cut_indices = Known(dm)
      BY <3>1 DEF ComputeCommitCut, ManagerFields
    <3>3. Known(d) = Known(dm)
      BY <3>2 DEF Known
    <3> HIDE DEF d
    <3>4. /\ DOMAIN committed = Known(d)
          /\ \A r \in Known(d) : /\ committed[r].waypoint_index = d.cut_indices[r]
                                /\ committed[r].location = WaypointAt(d.plan[r], d.cut_indices[r]).name
      BY DEF CarriedLocations, CommittedLocations
    <3> QED BY <3>2, <3>3, <3>4 DEF Promised
  <2> HIDE DEF answer, d, committed
  <2>4. /\ IsSequence(responses') /\ Len(responses) \in Nat
        /\ DOMAIN responses = 1 .. Len(responses)
        /\ DOMAIN responses' = 1 .. Len(responses) + 1
        /\ \A n \in 1 .. Len(responses) + 1 :
             responses'[n] = IF n <= Len(responses) THEN responses[n] ELSE answer
    BY <2>1, AppendedIs DEF AnswersInv, QueuesTyped
  <2>5. \A n \in DOMAIN responses' :
          \/ /\ n \in DOMAIN responses
             /\ responses'[n] = responses[n]
          \/ /\ n = Len(responses) + 1
             /\ responses'[n] = answer
    <3> SUFFICES ASSUME NEW n \in DOMAIN responses'
                 PROVE  \/ /\ n \in DOMAIN responses
                           /\ responses'[n] = responses[n]
                        \/ /\ n = Len(responses) + 1
                           /\ responses'[n] = answer
      OBVIOUS
    <3>1. CASE n <= Len(responses)
      BY <2>4, <3>1
    <3>2. CASE ~(n <= Len(responses))
      <4>1. n = Len(responses) + 1
        BY <2>4, <3>2
      <4> QED BY <2>4, <3>2, <4>1
    <3> QED BY <3>1, <3>2
  <2>6. QueuesTyped' /\ IdsAreCounted'
    BY <1>1, <1>2, <1>3, <2>2, <2>4, <2>5 DEF AnswersInv, QueuesTyped, IdsAreCounted
  <2>7. \A n \in DOMAIN responses' :
          responses'[n].request_id = request_counter =>
            n = Len(responses) + 1 /\ responses'[n] = answer /\ id = request_counter
    BY <1>5, <2>2, <2>5
  <2>8. RequestIsLast'
    BY <1>1, <1>7, <2>7 DEF RequestIsLast, Waits
  <2>9. id = request_counter => Waits /\ Settled(message_queue')
    <3> SUFFICES ASSUME id = request_counter PROVE Waits /\ Settled(message_queue')
      OBVIOUS
    <3>1. Waits /\ \A m \in DOMAIN message_queue : m > 1 => message_queue[m].type = Reached
      BY <1>1, <1>2 DEF AnswersInv, RequestIsLast, id
    <3> QED BY <1>2, <3>1 DEF Settled
  <2>10. AnswerIsLast'
    BY <1>1, <2>1, <2>2, <2>3, <2>7, <2>9 DEF AnswerIsLast, Waits
  <2>11. AnswerIsTaken'
    BY <1>1, <1>5 DEF AnswerIsTaken
  <2> QED BY <2>1, <2>3, <2>6, <2>8, <2>10, <2>11 DEF AnswersInv
<1> QED BY <1>8, <1>9

LEMMA ArriveKeeps ==
  ASSUME AnswersInv, NEW r, RobotArrives(r)
  PROVE  AnswersInv'
<1> DEFINE message == ReachedMessage(r, Head(pending[r]).index)
<1>1. /\ message_queue' = Append(message_queue, message)
      /\ UNCHANGED <<dm, server, responses, request_counter, subscriptions>>
  BY DEF RobotArrives, Arrive, serverVars, transportVars
<1>2. message.type = Reached
  BY DEF ReachedMessage, Reached
<1> HIDE DEF message
<1>3. /\ IsSequence(message_queue') /\ Len(message_queue) \in Nat
      /\ DOMAIN message_queue = 1 .. Len(message_queue)
      /\ DOMAIN message_queue' = 1 .. Len(message_queue) + 1
      /\ \A n \in 1 .. Len(message_queue) + 1 :
           message_queue'[n] = IF n <= Len(message_queue) THEN message_queue[n] ELSE message
  BY <1>1, AppendedIs DEF AnswersInv, QueuesTyped
<1>4. \A n \in DOMAIN message_queue' :
        \/ n \in DOMAIN message_queue /\ message_queue'[n] = message_queue[n]
        \/ message_queue'[n].type = Reached
  BY <1>2, <1>3
<1>5. QueuesTyped' /\ IdsAreCounted'
  BY <1>1, <1>3, <1>4 DEF AnswersInv, QueuesTyped, IdsAreCounted, Request, Reached
<1>6. RequestIsLast'
  BY <1>1, <1>4 DEF AnswersInv, RequestIsLast, Request, Reached, Waits
<1>7. Settled(message_queue) => Settled(message_queue')
  BY <1>4 DEF Settled
<1>8. AnswerIsLast' /\ AnswerIsTaken'
  BY <1>1, <1>7 DEF AnswersInv, AnswerIsLast, AnswerIsTaken, Waits
<1> QED BY <1>1, <1>5, <1>6, <1>8 DEF AnswersInv

LEMMA SubscribeIs ==
  ASSUME QueuesTyped, NEW side, NEW rs, Subscribe(side, rs)
  PROVE  subscriptions' \in [{"server", "executor"} -> [Robots -> Nat]]
<1> DEFINE New(f) == [r \in Robots |-> IF r \notin rs THEN f[r]
                                      ELSE IF Ros THEN f[r] + 1 ELSE 1]
<1>1. subscriptions \in [{"server", "executor"} -> [Robots -> Nat]]
  BY DEF QueuesTyped
<1>2. subscriptions' = [subscriptions EXCEPT ![side] = New(subscriptions[side])]
  BY DEF Subscribe
<1>3. \A f \in [Robots -> Nat] : New(f) \in [Robots -> Nat]
  OBVIOUS
<1> HIDE DEF New
<1> QED BY <1>1, <1>2, <1>3

\* What becomes known to the transport is not seen by server and executor.
LEMMA SubscriptionKeeps ==
  ASSUME AnswersInv, NEW side, NEW rs, Subscribe(side, rs),
         UNCHANGED <<dm, message_queue, server, responses, request_counter>>
  PROVE  AnswersInv'
<1>1. subscriptions' \in [{"server", "executor"} -> [Robots -> Nat]]
  BY SubscribeIs DEF AnswersInv
<1>2. QueuesTyped' /\ IdsAreCounted'
  BY <1>1 DEF AnswersInv, QueuesTyped, IdsAreCounted
<1>3. RequestIsLast' /\ AnswerIsLast' /\ AnswerIsTaken'
  BY DEF AnswersInv, RequestIsLast, AnswerIsLast, AnswerIsTaken, Waits
<1> QED BY <1>2, <1>3 DEF AnswersInv

LEMMA ClientKeeps ==
  ASSUME AnswersInv, Client
  PROVE  AnswersInv'
<1>1. CASE SendTasks
  BY <1>1, ServerGoesOn DEF SendTasks, OnTaskRequests, executorVars, transportVars
<1>2. CASE OnboardAtServer
  <2>1. UNCHANGED <<dm, message_queue>> /\ Onboard("server", Item.robot)
    BY <1>2 DEF OnboardAtServer, executorVars
  <2>2. UNCHANGED <<responses, request_counter>> /\ (UNCHANGED server \/ server' = Dead)
    BY <1>2 DEF OnboardAtServer, AddRobot, serverVars
  <2>3. Subscribe("server", {Item.robot} \ participants["server"])
    BY <2>1 DEF Onboard
  <2>4. CASE UNCHANGED server
    BY <2>1, <2>2, <2>3, <2>4, SubscriptionKeeps
  <2>5. CASE server' = Dead
    <3>1. server'.at = "dead"
      BY <2>5 DEF Dead
    <3>2. subscriptions' \in [{"server", "executor"} -> [Robots -> Nat]]
      BY <2>3, SubscribeIs DEF AnswersInv
    <3>3. QueuesTyped' /\ IdsAreCounted'
      BY <2>1, <2>2, <3>1, <3>2 DEF AnswersInv, QueuesTyped, IdsAreCounted
    <3>4. RequestIsLast' /\ AnswerIsLast' /\ AnswerIsTaken'
      BY <2>1, <2>2, <3>1 DEF AnswersInv, RequestIsLast, AnswerIsLast, AnswerIsTaken, Waits
    <3> QED BY <2>1, <3>3, <3>4 DEF AnswersInv
  <2> QED BY <2>2, <2>4, <2>5
<1>3. CASE OnboardAtExecutor
  <2>1. /\ UNCHANGED <<dm, message_queue, server, responses, request_counter>>
        /\ Subscribe("executor", {Item.robot} \ participants["executor"])
    BY <1>3 DEF OnboardAtExecutor, Onboard, serverVars, executorVars
  <2> QED BY <2>1, SubscriptionKeeps
<1>4. CASE Discovery
  <2>1. /\ UNCHANGED <<dm, message_queue, server, responses, request_counter>>
        /\ Subscribe(Item.side, Item.robots \ participants[Item.side])
    BY <1>4 DEF Discovery, Discover, serverVars, executorVars
  <2> QED BY <2>1, SubscriptionKeeps
<1> QED BY <1>1, <1>2, <1>3, <1>4 DEF Client

\* The worker thread has its program point and its locals while it publishes.
PublishingFields == {"at", "tasks", "committed", "plan_ids", "plans", "left"}
ServerFields == server.at = "publishing" => DOMAIN server = PublishingFields

LEMMA ServerInternalKeeps ==
  ASSUME AnswersInv, ServerFields, ServerInternal
  PROVE  AnswersInv'
<1>1. UNCHANGED <<dm, message_queue, subscriptions>>
  BY DEF ServerInternal, executorVars, transportVars
<1>2. CASE TakeResponse
  BY <1>1, <1>2, TakeResponseKeeps
<1>3. CASE AssignPlanIds
  <2>1. /\ server.at = "solving" /\ server'.at = "identified"
        /\ server'.committed = server.committed
        /\ UNCHANGED <<responses, request_counter>>
    BY <1>3 DEF AssignPlanIds
  <2> QED BY <1>1, <2>1, ServerGoesOn DEF Waits
<1>4. CASE Solve
  <2>1. server.at = "identified" /\ UNCHANGED <<responses, request_counter>>
    BY <1>4 DEF Solve
  <2>2. server'.at \in {"idle", "dead", "publishing"}
    <3>1. \/ server' = Idle
          \/ server' = Dead
          \/ \E a, b, c, d, e :
               server' = [ at |-> "publishing", tasks |-> a, committed |-> b, plan_ids |-> c,
                           plans |-> d, left |-> e ]
      BY <1>4 DEF Solve, BatchFails
    <3> QED BY <3>1 DEF Idle, Dead
  <2> QED BY <1>1, <2>1, <2>2, ServerGoesOn DEF Waits
<1>5. CASE SupersedeTasks
  <2>1. server.at = "publishing" /\ UNCHANGED <<responses, request_counter>>
    BY <1>5 DEF SupersedeTasks
  <2>2. server'.at = "recording"
    BY <1>5, <2>1 DEF SupersedeTasks, ServerFields, PublishingFields
  <2> QED BY <1>1, <2>1, <2>2, ServerGoesOn DEF Waits
<1>6. CASE RecordBatch
  <2>1. server'.at = "idle" /\ UNCHANGED <<responses, request_counter>>
    BY <1>6 DEF RecordBatch, Idle
  <2> QED BY <1>1, <2>1, ServerGoesOn
<1> QED BY <1>2, <1>3, <1>4, <1>5, <1>6 DEF ServerInternal

LEMMA ServerCallbackKeeps ==
  ASSUME AnswersInv, ServerCallback
  PROVE  AnswersInv'
<1>1. UNCHANGED <<dm, message_queue, subscriptions, server, responses, request_counter>>
  BY DEF ServerCallback, ServerProgress, ServerRecordsEnd, ServerScanFails, OnProgress,
         ScanEnds, Complete, ScanFails, executorVars, transportVars
<1> QED BY <1>1, ServerGoesOn

LEMMA FieldsKept ==
  ASSUME ServerFields, [Next]_vars
  PROVE  ServerFields'
<1>1. CASE UNCHANGED server
  BY <1>1 DEF ServerFields
<1>2. CASE server' \in {Idle, Dead}
  BY <1>2 DEF ServerFields, Idle, Dead
<1>3. CASE ProcessBatch
  BY <1>1, <1>3 DEF ServerFields, ProcessBatch
<1>4. CASE TakeResponse
  BY <1>1, <1>4 DEF ServerFields, TakeResponse
<1>5. CASE AssignPlanIds
  BY <1>5 DEF ServerFields, AssignPlanIds
<1>6. CASE Solve
  <2>1. \/ server' = Idle
        \/ server' = Dead
        \/ DOMAIN server' = PublishingFields
    BY <1>6 DEF Solve, BatchFails, PublishingFields
  <2> QED BY <1>2, <2>1 DEF ServerFields
<1>7. CASE \E r \in Robots : PublishPlan(r)
  BY <1>7 DEF ServerFields, PublishPlan
<1>8. CASE SupersedeTasks
  BY <1>8 DEF ServerFields, SupersedeTasks
<1>9. \/ UNCHANGED server
      \/ server' \in {Idle, Dead}
      \/ ProcessBatch
      \/ TakeResponse
      \/ AssignPlanIds
      \/ Solve
      \/ \E r \in Robots : PublishPlan(r)
      \/ SupersedeTasks
  <2>1. CASE Client
    BY <2>1 DEF Client, SendTasks, OnboardAtServer, OnboardAtExecutor, Discovery,
                OnTaskRequests, AddRobot, serverVars
  <2>2. CASE ServerWorker \/ ServerTimeout
    BY <2>2 DEF ServerWorker, ServerBatch, ServerInternal, ServerPublish, ServerTimeout,
                WaitTimesOut, BatchFails, RecordBatch
  <2>3. CASE ServerCallback
    BY <2>3 DEF ServerCallback, ServerProgress, ServerRecordsEnd, ServerScanFails, OnProgress,
                ScanEnds, Complete, ScanFails
  <2>4. CASE ExecutorWorker
    BY <2>4 DEF ExecutorWorker, ExecutorPlan, ExecutorReached, ExecutorRequest, serverVars
  <2>5. CASE \E r \in Robots : RobotArrives(r)
    BY <2>5 DEF RobotArrives, serverVars
  <2>6. CASE UNCHANGED vars
    BY <2>6 DEF vars, serverVars
  <2> QED BY <2>1, <2>2, <2>3, <2>4, <2>5, <2>6 DEF Next
<1> QED BY <1>1, <1>2, <1>3, <1>4, <1>5, <1>6, <1>7, <1>8, <1>9

LEMMA AnswersNext ==
  ASSUME AnswersInv, ServerFields, [Next]_vars
  PROVE  AnswersInv'
<1>1. CASE Client
  BY <1>1, ClientKeeps
<1>2. CASE ServerBatch
  BY <1>2, ProcessBatchKeeps
<1>3. CASE ServerInternal
  BY <1>3, ServerInternalKeeps
<1>4. ASSUME NEW r \in Robots, ServerPublish(r) PROVE AnswersInv'
  <2>1. server.at = "publishing" /\ server' = [server EXCEPT !.left = @ \ {r}]
    BY <1>4 DEF ServerPublish, PublishPlan
  <2>2. server'.at = "publishing"
    BY <2>1 DEF ServerFields, PublishingFields
  <2> QED BY <1>4, <2>2, PublishKeeps
<1>5. CASE ServerTimeout
  <2>1. /\ UNCHANGED <<dm, message_queue, subscriptions, responses, request_counter>>
        /\ server' = Idle
    BY <1>5 DEF ServerTimeout, WaitTimesOut, BatchFails, executorVars, transportVars
  <2>2. server'.at \in {"idle", "dead"}
    BY <2>1 DEF Idle
  <2> QED BY <2>1, <2>2, ServerGoesOn
<1>6. CASE ServerCallback
  BY <1>6, ServerCallbackKeeps
<1>7. CASE ExecutorWorker
  BY <1>7, ExecutorPlanKeeps, ExecutorReachedKeeps, ExecutorRequestKeeps DEF ExecutorWorker
<1>8. CASE \E r \in Robots : RobotArrives(r)
  BY <1>8, ArriveKeeps
<1>9. CASE UNCHANGED vars
  <2>1. UNCHANGED <<dm, message_queue, subscriptions, server, responses, request_counter>>
    BY <1>9 DEF vars, serverVars, executorVars, transportVars
  <2> QED BY <2>1, ServerGoesOn
<1> QED BY <1>1, <1>2, <1>3, <1>4, <1>5, <1>6, <1>7, <1>8, <1>9 DEF Next, ServerWorker

\* What the server plans from is what the executor has promised last: an
\* answer that comes too late, or again, is not taken for the last one, and
\* between the promise and the plans made from it no plan or cut changes, with
\* any map, solver, script and timeouts (_wait_for_committed_locations,
\* plan_server.py, and compute_commit_cut, dependency_manager.py).
THEOREM AnswersAreCurrent == Spec => []AnswerIsCurrent
<1>1. Init => AnswersInv /\ ServerFields
  <2>1. Init => ServerFields
    BY DEF Init, ServerInit, ServerFields, Idle
  <2> QED BY <2>1, AnswersInit
<1>2. AnswersInv /\ ServerFields /\ [Next]_vars => (AnswersInv /\ ServerFields)'
  BY AnswersNext, FieldsKept
<1>3. AnswersInv => AnswerIsCurrent
  BY DEF AnswersInv, AnswerIsTaken, AnswerIsCurrent, Promised
<1> QED BY <1>1, <1>2, <1>3, PTL DEF Spec

-----------------------------------------------------------------------------
(* Plans and cuts: what has been enqueued lies before the cut that is stored,  *)
(* and stays when plans are joined.                                        *)

\* What the theorems below need of the solver: a path for every agent.
SolverReturnsPaths ==
  \A starts, goals, obstacles : \A paths \in Solver(starts, goals, obstacles) :
    /\ DOMAIN paths = DOMAIN starts
    /\ \A r \in DOMAIN paths : IsSequence(paths[r]) /\ paths[r] # <<>>

\* A plan with a waypoint for every position of a path.
PlanOf(p, id, path, offset) ==
  /\ WellFormed(p) /\ p.plan_id = id
  /\ Len(p.waypoints) = Len(path)
  /\ \A k \in 1 .. Len(path) : /\ p.waypoints[k].name = path[k]
                              /\ p.waypoints[k].progress = k - 1 + offset

\* The plan generator makes a waypoint of every position.
LEMMA PlansOfPaths ==
  ASSUME NEW paths, NEW ids, NEW offset,
         \A r \in DOMAIN paths : /\ IsSequence(paths[r]) /\ paths[r] # <<>>
                                 /\ offset[r] \in Int,
         NEW g, g = Generate(paths, ids, offset)
  PROVE  /\ DOMAIN g = {r \in DOMAIN paths : Len(paths[r]) > 1}
         /\ \A r \in DOMAIN g : PlanOf(g[r], ids[r], paths[r], offset[r])
<1> DEFINE steps == [r \in DOMAIN paths |-> Steps(paths[r])]
           Blocked(r, n) == DepartureBlockers(steps, ids, offset, r, n - 1)
           Stop(r, n) == [ name |-> WaypointName(steps[r], n - 1),
                           progress |-> WaypointProgress(steps[r], n - 1, offset[r]),
                           departure_blockers |-> Blocked(r, n) ]
<1>1. g = [r \in {i \in DOMAIN paths : steps[i] # <<>>} |->
             [plan_id |-> ids[r], waypoints |-> [n \in 1 .. Len(steps[r]) + 1 |-> Stop(r, n)]]]
  BY DEF Generate
<1>2. ASSUME NEW r \in DOMAIN paths
      PROVE  /\ Len(paths[r]) \in Nat \ {0}
             /\ Len(steps[r]) = Len(paths[r]) - 1
             /\ steps[r] # <<>> <=> Len(paths[r]) > 1
             /\ \A k \in 1 .. Len(paths[r]) - 1 :
                  steps[r][k] = [timestep |-> k - 1, step_from |-> paths[r][k],
                                 step_to |-> paths[r][k + 1]]
  <2>1. Len(paths[r]) \in Nat \ {0}
    BY LenProperties, EmptySeq DEF IsSequence
  <2> DEFINE m == Len(paths[r]) - 1
  <2>2. steps[r] = [k \in 1 .. m |->
                      [timestep |-> k - 1, step_from |-> paths[r][k], step_to |-> paths[r][k + 1]]]
    BY DEF Steps
  <2>3. m \in Nat
    BY <2>1
  <2> HIDE DEF m, steps
  <2>4. steps[r] = [k \in 1 .. m |-> steps[r][k]]
    BY <2>2
  <2>5. IsSequence(steps[r]) /\ Len(steps[r]) = m /\ DOMAIN steps[r] = 1 .. m
    BY <2>3, <2>4, SequenceOf
  <2>6. steps[r] # <<>> <=> m > 0
    BY <2>3, <2>5
  <2> QED BY <2>1, <2>2, <2>5, <2>6 DEF m
<1>3. DOMAIN g = {r \in DOMAIN paths : Len(paths[r]) > 1}
  BY <1>1, <1>2
<1> HIDE DEF steps
<1>4. ASSUME NEW r \in DOMAIN g
      PROVE  PlanOf(g[r], ids[r], paths[r], offset[r])
  <2> DEFINE n == Len(paths[r])
             W == [k \in 1 .. n |-> Stop(r, k)]
  <2>1. r \in DOMAIN paths /\ n \in Nat /\ n > 1 /\ offset[r] \in Int
    BY <1>2, <1>3
  <2>2. Len(steps[r]) = n - 1 /\ Len(steps[r]) + 1 = n
    BY <1>2, <2>1
  <2>3. g[r] = [plan_id |-> ids[r], waypoints |-> W]
    <3>1. r \in {i \in DOMAIN paths : steps[i] # <<>>}
      BY <1>1
    <3> HIDE DEF Stop
    <3> QED BY <1>1, <2>2, <3>1
  <2>4. ASSUME NEW k \in 1 .. n
        PROVE  Stop(r, k).name = paths[r][k] /\ Stop(r, k).progress = k - 1 + offset[r]
    <3>1. CASE k < n
      <4>1. k \in 1 .. n - 1 /\ k - 1 < n - 1 /\ (k - 1) + 1 = k
        BY <2>1, <3>1
      <4>2. steps[r][k] = [timestep |-> k - 1, step_from |-> paths[r][k],
                           step_to |-> paths[r][k + 1]]
        BY <1>2, <2>1, <4>1
      <4> QED BY <2>2, <4>1, <4>2 DEF WaypointName, WaypointProgress
    <3>2. CASE k = n
      <4>1. n - 1 \in 1 .. n - 1 /\ ~(n - 1 < n - 1) /\ (n - 1) + 1 = n
        BY <2>1
      <4>2. steps[r][n - 1] = [timestep |-> (n - 1) - 1, step_from |-> paths[r][n - 1],
                               step_to |-> paths[r][(n - 1) + 1]]
        BY <1>2, <2>1, <4>1
      <4>3. Stop(r, k).name = paths[r][n] /\ Stop(r, k).progress = ((n - 1) - 1) + 1 + offset[r]
        BY <2>2, <3>2, <4>1, <4>2 DEF WaypointName, WaypointProgress
      <4> HIDE DEF Stop
      <4> QED BY <2>1, <3>2, <4>3
    <3> QED BY <2>1, <3>1, <3>2
  <2>5. \A k \in 1 .. n : DOMAIN Stop(r, k) = WaypointFields
    BY DEF WaypointFields
  <2> HIDE DEF Stop, n
  <2>6. \A k \in 1 .. n : W[k] = Stop(r, k)
    OBVIOUS
  <2>7. IsSequence(W) /\ Len(W) = n /\ DOMAIN W = 1 .. n
    <3>1. W = [k \in 1 .. n |-> W[k]]
      OBVIOUS
    <3> HIDE DEF W
    <3> QED BY <2>1, <3>1, SequenceOf
  <2> HIDE DEF W
  <2>8. \A k \in 1 .. n : /\ DOMAIN W[k] = WaypointFields /\ W[k].name = paths[r][k]
                         /\ W[k].progress = k - 1 + offset[r] /\ W[k].progress \in Int
    <3> TAKE k \in 1 .. n
    <3>1. k - 1 + offset[r] \in Int
      BY <2>1
    <3> QED BY <2>4, <2>5, <2>6, <3>1
  <2>9. W # <<>>
    BY <2>1, <2>7
  <2>10. WellFormed(g[r])
    BY <2>3, <2>7, <2>8, <2>9 DEF WellFormed
  <2> QED BY <2>3, <2>7, <2>8, <2>10 DEF n, PlanOf
<1> QED BY <1>3, <1>4

\* The transport keeps names and progress.
LEMMA CarriedIs ==
  ASSUME NEW p, WellFormed(p)
  PROVE  LET q == Carried(p)
         IN /\ WellFormed(q) /\ q.plan_id = p.plan_id
            /\ Len(q.waypoints) = Len(p.waypoints)
            /\ \A n \in DOMAIN p.waypoints : SameStop(q.waypoints[n], p.waypoints[n])
<1> DEFINE q == Carried(p)
           New(w) == FromRosWaypoint(ToRosWaypoint(w))
<1>1. CASE ~Ros
  BY <1>1 DEF Carried, SameStop
<1>2. CASE Ros
  <2>1. /\ DOMAIN q = {"plan_id", "waypoints"} /\ q.plan_id = p.plan_id
        /\ q.waypoints = [n \in DOMAIN p.waypoints |-> New(p.waypoints[n])]
    BY <1>2 DEF Carried, WellFormed
  <2>2. \A w : DOMAIN New(w) = WaypointFields /\ SameStop(New(w), w)
    BY DEF WaypointFields, SameStop, FromRosWaypoint, ToRosWaypoint
  <2> HIDE DEF q, New
  <2>3. Len(p.waypoints) \in Nat \ {0} /\ DOMAIN p.waypoints = 1 .. Len(p.waypoints)
    BY WaypointsAre
  <2>4. IsSequence(q.waypoints) /\ Len(q.waypoints) = Len(p.waypoints)
        /\ DOMAIN q.waypoints = DOMAIN p.waypoints
    <3>1. q.waypoints = [n \in 1 .. Len(p.waypoints) |-> q.waypoints[n]]
      BY <2>1, <2>3
    <3> QED BY <2>3, <3>1, SequenceOf
  <2>5. \A n \in DOMAIN p.waypoints : /\ DOMAIN q.waypoints[n] = WaypointFields
                                     /\ SameStop(q.waypoints[n], p.waypoints[n])
                                     /\ q.waypoints[n].progress \in Int
    BY <2>1, <2>2 DEF WellFormed, SameStop
  <2>6. q.waypoints # <<>>
    BY <2>3, <2>4
  <2> QED BY <2>1, <2>4, <2>5, <2>6 DEF WellFormed, q
<1> QED BY <1>1, <1>2

\* A plan on its way is a plan.
Proper(m) == m.type = "plan" => m.robot \in Robots /\ WellFormed(m.plan)
PlansComing == \A n \in DOMAIN message_queue : Proper(message_queue[n])
PlansLeaving == server.at = "publishing" => \A r \in server.left : WellFormed(server.plans[r])

\* The committed locations, wherever they are, have a progress.
Located(committed) == \A r \in DOMAIN committed : committed[r].progress \in Int
AnswersLocated ==
  /\ \A n \in DOMAIN responses : Located(responses[n].committed_locations)
  /\ server.at \in {"solving", "identified"} => Located(server.committed)

PlansInv ==
  /\ AnswersInv
  /\ ServerFields
  /\ Sound(dm)
  /\ PlansComing
  /\ PlansLeaving
  /\ AnswersLocated

\* What a sequence holds once something has been put into it, or taken out.
LEMMA PutIn ==
  ASSUME NEW s, IsSequence(s), NEW t, IsSequence(t)
  PROVE  \A n \in DOMAIN (s \o t) : \/ \E m \in DOMAIN s : (s \o t)[n] = s[m]
                                    \/ \E m \in DOMAIN t : (s \o t)[n] = t[m]
<1> DEFINE u == s \o t
<1>1. /\ Len(s) \in Nat /\ Len(t) \in Nat
      /\ DOMAIN s = 1 .. Len(s) /\ DOMAIN t = 1 .. Len(t) /\ DOMAIN u = 1 .. Len(s) + Len(t)
      /\ \A n \in 1 .. Len(s) + Len(t) : u[n] = IF n <= Len(s) THEN s[n] ELSE t[n - Len(s)]
  BY JoinedIs
<1> HIDE DEF u
<1>2. ASSUME NEW n \in DOMAIN u, n <= Len(s) PROVE n \in DOMAIN s /\ u[n] = s[n]
  BY <1>1, <1>2
<1>3. ASSUME NEW n \in DOMAIN u, ~(n <= Len(s))
      PROVE  n - Len(s) \in DOMAIN t /\ u[n] = t[n - Len(s)]
  BY <1>1, <1>3
<1> QED BY <1>2, <1>3 DEF u

LEMMA PutOne ==
  ASSUME NEW s, IsSequence(s), NEW x
  PROVE  \A n \in DOMAIN Append(s, x) : \/ \E m \in DOMAIN s : Append(s, x)[n] = s[m]
                                        \/ Append(s, x)[n] = x
<1> DEFINE u == Append(s, x)
<1>1. /\ Len(s) \in Nat /\ DOMAIN s = 1 .. Len(s) /\ DOMAIN u = 1 .. Len(s) + 1
      /\ \A n \in 1 .. Len(s) + 1 : u[n] = IF n <= Len(s) THEN s[n] ELSE x
  BY AppendedIs
<1> HIDE DEF u
<1>2. ASSUME NEW n \in DOMAIN u, n <= Len(s) PROVE n \in DOMAIN s /\ u[n] = s[n]
  BY <1>1, <1>2
<1>3. ASSUME NEW n \in DOMAIN u, ~(n <= Len(s)) PROVE u[n] = x
  BY <1>1, <1>3
<1> QED BY <1>2, <1>3 DEF u

LEMMA TakenOut ==
  ASSUME NEW s, IsSequence(s), s # <<>>
  PROVE  /\ 1 \in DOMAIN s /\ Head(s) = s[1]
         /\ \A n \in DOMAIN Tail(s) : \E m \in DOMAIN s : Tail(s)[n] = s[m]
<1>1. /\ Len(s) \in Nat \ {0} /\ DOMAIN s = 1 .. Len(s) /\ DOMAIN Tail(s) = 1 .. Len(s) - 1
      /\ Head(s) = s[1]
      /\ \A n \in 1 .. Len(s) - 1 : Tail(s)[n] = s[n + 1]
  BY TailIs
<1>2. \A n \in 1 .. Len(s) - 1 : n + 1 \in DOMAIN s
  BY <1>1
<1> QED BY <1>1, <1>2

\* The handlers of the executor, one by one.
LEMMA PlanIsSound ==
  ASSUME PlansInv, HandlePlan
  PROVE  /\ Sound(dm')
         /\ \A r \in Known(dm) : ~IsComplete(dm, r) =>
              \A k \in 0 .. dm.latest_enqueued[r] :
                /\ k <= LastIndex(dm'.plan[r])
                /\ WaypointAt(dm'.plan[r], k).name = WaypointAt(dm.plan[r], k).name
<1> DEFINE s == Head(message_queue).robot
           p == Head(message_queue).plan
           Kept(d) == \A r \in Known(dm) : ~IsComplete(dm, r) =>
                        \A k \in 0 .. dm.latest_enqueued[r] :
                          /\ k <= LastIndex(d.plan[r])
                          /\ WaypointAt(d.plan[r], k).name = WaypointAt(dm.plan[r], k).name
<1>1. s \in Robots /\ WellFormed(p) /\ Sound(dm)
  <2>1. message_queue # <<>> /\ Head(message_queue).type = "plan"
    BY DEF HandlePlan, NextMessage
  <2>2. 1 \in DOMAIN message_queue /\ Head(message_queue) = message_queue[1]
    BY <2>1, TakenOut DEF PlansInv, AnswersInv, QueuesTyped
  <2> QED BY <2>1, <2>2 DEF PlansInv, PlansComing, Proper
<1>2. CASE s \notin Known(dm) \/ IsComplete(dm, s)
  <2> DEFINE d == SetPlan(dm, s, p)
  <2>1. DispatchUnblocked(d)
    BY <1>2 DEF HandlePlan
  <2>2. Sound(d) /\ \A t \in Robots : d.plan[t] = IF t = s THEN p ELSE dm.plan[t]
    <3> HIDE DEF s, p
    <3>1. IsSet(dm, s, p, d)
      BY <1>1, SetPlanIsSound
    <3> HIDE DEF d
    <3> QED BY <3>1 DEF IsSet
  <2> HIDE DEF d
  <2>3. Sound(dm') /\ dm'.plan = d.plan
    BY <2>1, <2>2, DispatchIsSound
  <2>4. ASSUME NEW r \in Known(dm), ~IsComplete(dm, r)
        PROVE  dm'.plan[r] = dm.plan[r] /\ dm.latest_enqueued[r] <= LastIndex(dm.plan[r])
               /\ LastIndex(dm.plan[r]) \in Nat /\ dm.latest_enqueued[r] \in Nat
    <3>1. r # s
      BY <1>2, <2>4
    <3> QED BY <1>1, <2>2, <2>3, <3>1, SoundPlans
  <2>5. Kept(dm')
    BY <2>4
  <2> QED BY <2>3, <2>5
<1>3. CASE ~(s \notin Known(dm) \/ IsComplete(dm, s))
  <2> DEFINE d == UpdatePlanAfterCut(dm, s, p)
  <2>1. DispatchUnblocked(d)
    BY <1>3 DEF HandlePlan
  <2>2. s \in Known(dm)
    BY <1>3
  <2>3. Sound(d) /\ \A r \in Known(dm) : \A k \in 0 .. dm.latest_enqueued[r] :
                      /\ k <= LastIndex(d.plan[r])
                      /\ SameStop(WaypointAt(d.plan[r], k), WaypointAt(dm.plan[r], k))
    <3> HIDE DEF s, p
    <3>1. IsUpdated(dm, s, p, d)
      BY <1>1, <2>2, UpdateIsSound
    <3> HIDE DEF d
    <3> QED BY <3>1 DEF IsUpdated
  <2> HIDE DEF d
  <2>4. Sound(dm') /\ dm'.plan = d.plan
    BY <2>1, <2>3, DispatchIsSound
  <2>5. Kept(dm')
    BY <2>3, <2>4 DEF SameStop
  <2> QED BY <2>4, <2>5
<1> QED BY <1>2, <1>3

LEMMA ReachedIsSound ==
  ASSUME Sound(dm), HandleWaypointReached
  PROVE  /\ Sound(dm') /\ Known(dm') = Known(dm)
         /\ dm'.robots = dm.robots /\ dm'.plan = dm.plan /\ dm'.cut_indices = dm.cut_indices
<1> DEFINE r == Head(message_queue).robot
           d == UpdateProgress(dm, r, Head(message_queue).index)
           e == IF IsComplete(d, r) THEN OnPlanComplete(d, r) ELSE d
<1>1. DispatchUnblocked(e)
  BY DEF HandleWaypointReached
<1>2. DOMAIN dm = ManagerFields
  BY DEF Sound
<1>3. /\ DOMAIN d = ManagerFields /\ d.robots = dm.robots /\ d.plan = dm.plan
      /\ d.cut_indices = dm.cut_indices /\ d.latest_enqueued = dm.latest_enqueued
      /\ DOMAIN d.current_waypoint = DOMAIN dm.current_waypoint
  BY <1>2 DEF UpdateProgress, ManagerFields
<1> HIDE DEF d
<1>4. /\ DOMAIN e = ManagerFields /\ e.robots = dm.robots /\ e.plan = dm.plan
      /\ e.cut_indices = dm.cut_indices /\ e.latest_enqueued = dm.latest_enqueued
      /\ DOMAIN e.current_waypoint = DOMAIN dm.current_waypoint
  BY <1>3 DEF OnPlanComplete, ManagerFields
<1> HIDE DEF e
<1>5. Known(e) = Known(dm)
  BY <1>4 DEF Known
<1>6. Sound(e)
  BY <1>4, <1>5 DEF Sound
<1> QED BY <1>1, <1>4, <1>5, <1>6, DispatchIsSound

LEMMA RequestIsSound ==
  ASSUME Sound(dm), HandleCommittedLocationsRequest
  PROVE  Sound(dm') /\ dm'.plan = dm.plan
<1>1. CASE CommitCutFails(dm)
  BY <1>1 DEF HandleCommittedLocationsRequest
<1>2. CASE ~CommitCutFails(dm)
  BY <1>2, CutIsSound DEF HandleCommittedLocationsRequest
<1> QED BY <1>1, <1>2

\* What the executor answers has a progress.
LEMMA AnswerIsLocated ==
  ASSUME Sound(dm), ~CommitCutFails(dm)
  PROVE  Located(CarriedLocations(CommittedLocations(ComputeCommitCut(dm))))
<1> DEFINE d == ComputeCommitCut(dm)
           locations == CommittedLocations(d)
<1>1. /\ Sound(d) /\ Known(d) = Known(dm) /\ d.plan = dm.plan
      /\ \A r \in Known(dm) : d.cut_indices[r] \in Indices(dm.plan[r])
  BY CutIsSound
<1> HIDE DEF d
<1>2. ASSUME NEW r \in Known(d) PROVE WaypointAt(d.plan[r], d.cut_indices[r]).progress \in Int
  <2> DEFINE k == d.cut_indices[r]
  <2>1. WellFormed(d.plan[r]) /\ Indices(d.plan[r]) = 0 .. LastIndex(d.plan[r])
    BY SoundPlans, <1>1
  <2>2. k \in 0 .. LastIndex(d.plan[r])
    BY <1>1, <2>1
  <2> HIDE DEF k
  <2>3. k + 1 \in DOMAIN d.plan[r].waypoints /\ WaypointAt(d.plan[r], k) = d.plan[r].waypoints[k + 1]
    BY <2>1, <2>2, WaypointsAre
  <2> QED BY <2>1, <2>3 DEF WellFormed, k
<1>3. locations = [r \in Known(d) |->
         [location |-> WaypointAt(d.plan[r], d.cut_indices[r]).name,
          waypoint_index |-> d.cut_indices[r],
          progress |-> WaypointAt(d.plan[r], d.cut_indices[r]).progress]]
  BY DEF CommittedLocations
<1>4. /\ DOMAIN locations = Known(d)
      /\ \A r \in Known(d) : locations[r].progress \in Int /\
           DOMAIN locations[r] = {"location", "waypoint_index", "progress"}
  BY <1>2, <1>3
<1> HIDE DEF locations
<1>5. Located(CarriedLocations(locations))
  <2>1. CASE Ros
    <3>1. CarriedLocations(locations) = [r \in Known(d) |-> [locations[r] EXCEPT !.progress = 0]]
      BY <1>4, <2>1 DEF CarriedLocations
    <3>2. \A r \in Known(d) : [locations[r] EXCEPT !.progress = 0].progress = 0
      BY <1>4
    <3> DEFINE carried == [r \in Known(d) |-> [locations[r] EXCEPT !.progress = 0]]
    <3>3. DOMAIN carried = Known(d) /\ \A r \in Known(d) : carried[r].progress = 0
      BY <3>2
    <3> HIDE DEF carried
    <3>4. Located(carried)
      BY <3>3 DEF Located
    <3> QED BY <3>1, <3>4 DEF carried
  <2>2. CASE ~Ros
    <3>1. CarriedLocations(locations) = locations
      BY <2>2 DEF CarriedLocations
    <3> QED BY <1>4, <3>1 DEF Located
  <2> QED BY <2>1, <2>2
<1> QED BY <1>5 DEF locations, d

\* Of the steps of the system, the handlers of the executor change the manager.
LEMMA ChangedByHandlers ==
  ASSUME [Next]_vars
  PROVE  UNCHANGED dm \/ HandlePlan \/ HandleWaypointReached \/ HandleCommittedLocationsRequest
<1>1. CASE Client
  BY <1>1 DEF Client, SendTasks, OnboardAtServer, OnboardAtExecutor, Discovery, executorVars
<1>2. CASE ServerWorker \/ ServerTimeout
  BY <1>2 DEF ServerWorker, ServerBatch, ServerInternal, ServerPublish, ServerTimeout,
              OnCommittedLocationsRequest, executorVars
<1>3. CASE ServerCallback
  BY <1>3 DEF ServerCallback, ServerProgress, ServerRecordsEnd, ServerScanFails, executorVars
<1>4. CASE ExecutorWorker
  BY <1>4 DEF ExecutorWorker, ExecutorPlan, ExecutorReached, ExecutorRequest
<1>5. CASE \E r \in Robots : RobotArrives(r)
  BY <1>5 DEF RobotArrives, Arrive
<1>6. CASE UNCHANGED vars
  BY <1>6 DEF vars, executorVars
<1> QED BY <1>1, <1>2, <1>3, <1>4, <1>5, <1>6 DEF Next

LEMMA SoundKept ==
  ASSUME PlansInv, [Next]_vars
  PROVE  Sound(dm')
BY ChangedByHandlers, PlanIsSound, ReachedIsSound, RequestIsSound DEF PlansInv

LEMMA ComingKept ==
  ASSUME PlansInv, [Next]_vars
  PROVE  PlansComing'
<1>1. IsSequence(message_queue) /\ subscriptions \in [{"server", "executor"} -> [Robots -> Nat]]
  BY DEF PlansInv, AnswersInv, QueuesTyped
<1>2. SUFFICES \A n \in DOMAIN message_queue' :
                 \/ \E m \in DOMAIN message_queue : message_queue'[n] = message_queue[m]
                 \/ Proper(message_queue'[n])
  BY DEF PlansInv, PlansComing
<1>3. CASE UNCHANGED message_queue
  BY <1>3
<1>4. CASE ServerBatch
  <2>1. CASE UNCHANGED message_queue
    BY <1>3, <2>1
  <2>2. CASE message_queue' = Append(message_queue, RequestMessage(server'.request_id))
    BY <1>1, <2>2, PutOne DEF RequestMessage, Proper
  <2> QED BY <1>4, <2>1, <2>2 DEF ServerBatch, OnCommittedLocationsRequest, executorVars
<1>5. ASSUME NEW r \in Robots, ServerPublish(r)
      PROVE  \A n \in DOMAIN message_queue' :
                 \/ \E m \in DOMAIN message_queue : message_queue'[n] = message_queue[m]
                 \/ Proper(message_queue'[n])
  <2> DEFINE message == PlanMessage(r, Carried(server.plans[r]))
             copies == [n \in 1 .. subscriptions["executor"][r] |-> message]
  <2>1. message_queue' = message_queue \o copies
    BY <1>5 DEF ServerPublish, Delivered
  <2>2. WellFormed(server.plans[r])
    BY <1>5 DEF ServerPublish, PublishPlan, PlansInv, PlansLeaving
  <2>3. Proper(message)
    BY <2>2, CarriedIs DEF Proper, PlanMessage
  <2> HIDE DEF message
  <2>4. subscriptions["executor"][r] \in Nat
    BY <1>1
  <2>5. IsSequence(copies) /\ \A m \in DOMAIN copies : copies[m] = message
    BY <2>4, CopiesAre
  <2> HIDE DEF copies
  <2> QED BY <1>1, <2>1, <2>3, <2>5, PutIn
<1>6. CASE ExecutorWorker
  <2>1. message_queue # <<>> /\ message_queue' = Tail(message_queue)
    BY <1>6 DEF ExecutorWorker, ExecutorPlan, ExecutorReached, ExecutorRequest, HandlePlan,
                HandleWaypointReached, HandleCommittedLocationsRequest, NextMessage
  <2> QED BY <1>1, <2>1, TakenOut
<1>7. ASSUME NEW r, RobotArrives(r)
      PROVE  \A n \in DOMAIN message_queue' :
                 \/ \E m \in DOMAIN message_queue : message_queue'[n] = message_queue[m]
                 \/ Proper(message_queue'[n])
  <2>1. message_queue' = Append(message_queue, ReachedMessage(r, Head(pending[r]).index))
    BY <1>7 DEF RobotArrives, Arrive
  <2>2. Proper(ReachedMessage(r, Head(pending[r]).index))
    BY DEF ReachedMessage, Proper
  <2> QED BY <1>1, <2>1, <2>2, PutOne
<1>8. \/ UNCHANGED message_queue \/ ServerBatch \/ \E r \in Robots : ServerPublish(r)
      \/ ExecutorWorker \/ \E r \in Robots : RobotArrives(r)
  <2>1. CASE Client
    BY <2>1 DEF Client, SendTasks, OnboardAtServer, OnboardAtExecutor, Discovery, executorVars
  <2>2. CASE ServerInternal \/ ServerTimeout
    BY <2>2 DEF ServerInternal, ServerTimeout, executorVars
  <2>3. CASE ServerCallback
    BY <2>3 DEF ServerCallback, ServerProgress, ServerRecordsEnd, ServerScanFails, executorVars
  <2>4. CASE UNCHANGED vars
    BY <2>4 DEF vars, executorVars
  <2> QED BY <2>1, <2>2, <2>3, <2>4 DEF Next, ServerWorker
<1> QED BY <1>3, <1>4, <1>5, <1>6, <1>7, <1>8

\* A solution becomes plans.
LEMMA SolutionIsLeaving ==
  ASSUME SolverReturnsPaths, PlansInv, Solve, server'.at = "publishing"
  PROVE  \A r \in server'.left : WellFormed(server'.plans[r])
<1> DEFINE Offsets(paths) == [r \in DOMAIN paths |-> OffsetOf(server.committed, r)]
           Plans(paths) == Generate(paths, server.plan_ids, Offsets(paths))
<1>1. PICK paths \in Solutions(server.tasks, server.committed, server.stationary) :
        server'.plans = Plans(paths) /\ server'.left = DOMAIN Plans(paths)
  <2>1. Idle.at # "publishing" /\ Dead.at # "publishing"
    BY DEF Idle, Dead
  <2>2. PICK paths \in Solutions(server.tasks, server.committed, server.stationary) :
          server' = [ at |-> "publishing", tasks |-> server.tasks,
                      committed |-> server.committed, plan_ids |-> server.plan_ids,
                      plans |-> Plans(paths), left |-> DOMAIN Plans(paths) ]
    BY <2>1 DEF Solve, BatchFails
  <2> QED BY <2>2
<1>2. \A r \in DOMAIN paths : IsSequence(paths[r]) /\ paths[r] # <<>>
  BY DEF Solutions, SolverReturnsPaths
<1>3. Located(server.committed)
  BY DEF Solve, PlansInv, AnswersLocated
<1>4. \A r \in DOMAIN paths : Offsets(paths)[r] \in Int
  BY <1>3 DEF Located, OffsetOf
<1> HIDE DEF Offsets
<1>5. \A r \in DOMAIN Plans(paths) : WellFormed(Plans(paths)[r])
  BY <1>2, <1>4, PlansOfPaths DEF PlanOf
<1> QED BY <1>1, <1>5

LEMMA LeavingKept ==
  ASSUME SolverReturnsPaths, PlansInv, [Next]_vars
  PROVE  PlansLeaving'
<1>1. CASE UNCHANGED server \/ server'.at # "publishing"
  BY <1>1 DEF PlansInv, PlansLeaving
<1>2. CASE Solve
  BY <1>2, SolutionIsLeaving DEF PlansLeaving
<1>3. ASSUME NEW r \in Robots, ServerPublish(r) PROVE PlansLeaving'
  <2>1. server.at = "publishing" /\ server' = [server EXCEPT !.left = @ \ {r}]
    BY <1>3 DEF ServerPublish, PublishPlan
  <2>2. server'.left \subseteq server.left /\ server'.plans = server.plans
    BY <2>1 DEF PlansInv, ServerFields, PublishingFields
  <2> QED BY <2>1, <2>2 DEF PlansInv, PlansLeaving
<1>4. UNCHANGED server \/ server'.at # "publishing" \/ Solve \/ \E r \in Robots : ServerPublish(r)
  <2>1. CASE Client
    BY <2>1 DEF Client, SendTasks, OnboardAtServer, OnboardAtExecutor, Discovery,
                OnTaskRequests, AddRobot, Dead, serverVars
  <2>2. CASE ServerBatch
    BY <2>2 DEF ServerBatch, ProcessBatch
  <2>3. CASE ServerInternal
    <3>1. CASE TakeResponse
      BY <3>1 DEF TakeResponse
    <3>2. CASE AssignPlanIds
      BY <3>2 DEF AssignPlanIds
    <3>3. CASE SupersedeTasks
      BY <3>3 DEF SupersedeTasks, PlansInv, ServerFields, PublishingFields
    <3>4. CASE RecordBatch
      BY <3>4 DEF RecordBatch, Idle
    <3> QED BY <2>3, <3>1, <3>2, <3>3, <3>4 DEF ServerInternal
  <2>4. CASE ServerTimeout
    BY <2>4 DEF ServerTimeout, WaitTimesOut, BatchFails, Idle
  <2>5. CASE ServerCallback
    BY <2>5 DEF ServerCallback, ServerProgress, ServerRecordsEnd, ServerScanFails, OnProgress,
                ScanEnds, Complete, ScanFails
  <2>6. CASE ExecutorWorker
    BY <2>6 DEF ExecutorWorker, ExecutorPlan, ExecutorReached, ExecutorRequest, serverVars
  <2>7. CASE \E r \in Robots : RobotArrives(r)
    BY <2>7 DEF RobotArrives, serverVars
  <2>8. CASE UNCHANGED vars
    BY <2>8 DEF vars, serverVars
  <2> QED BY <2>1, <2>2, <2>3, <2>4, <2>5, <2>6, <2>7, <2>8 DEF Next, ServerWorker
<1> QED BY <1>1, <1>2, <1>3, <1>4

\* The steps that change the answers or take one.
LEMMA AnswerSteps ==
  ASSUME PlansInv, [Next]_vars
  PROVE  \/ UNCHANGED responses /\ (UNCHANGED server \/ server'.at \notin {"solving", "identified"})
         \/ TakeResponse \/ AssignPlanIds \/ ExecutorRequest
<1>1. CASE Client
  BY <1>1 DEF Client, SendTasks, OnboardAtServer, OnboardAtExecutor, Discovery,
              OnTaskRequests, AddRobot, Dead, serverVars
<1>2. CASE ServerBatch
  BY <1>2 DEF ServerBatch, ProcessBatch
<1>3. CASE ServerInternal
  <2>1. CASE Solve
    <3>1. \/ server' = Idle
          \/ server' = Dead
          \/ \E a, b, c, d, e :
               server' = [ at |-> "publishing", tasks |-> a, committed |-> b, plan_ids |-> c,
                           plans |-> d, left |-> e ]
      BY <2>1 DEF Solve, BatchFails
    <3> QED BY <2>1, <3>1 DEF Solve, Idle, Dead
  <2>2. CASE SupersedeTasks
    BY <2>2 DEF SupersedeTasks, PlansInv, ServerFields, PublishingFields
  <2>3. CASE RecordBatch
    BY <2>3 DEF RecordBatch, Idle
  <2> QED BY <1>3, <2>1, <2>2, <2>3 DEF ServerInternal
<1>4. CASE ServerTimeout
  BY <1>4 DEF ServerTimeout, WaitTimesOut, BatchFails, Idle
<1>5. CASE ServerCallback
  BY <1>5 DEF ServerCallback, ServerProgress, ServerRecordsEnd, ServerScanFails, OnProgress,
              ScanEnds, Complete, ScanFails
<1>6. CASE ExecutorPlan \/ ExecutorReached
  BY <1>6 DEF ExecutorPlan, ExecutorReached, serverVars
<1>7. CASE \E r \in Robots : RobotArrives(r)
  BY <1>7 DEF RobotArrives, serverVars
<1>8. CASE UNCHANGED vars
  BY <1>8 DEF vars, serverVars
<1>9. ASSUME NEW r \in Robots, ServerPublish(r)
      PROVE  UNCHANGED responses /\ server'.at \notin {"solving", "identified"}
  BY <1>9 DEF ServerPublish, PublishPlan, PlansInv, ServerFields, PublishingFields
<1> QED BY <1>1, <1>2, <1>3, <1>4, <1>5, <1>6, <1>7, <1>8, <1>9
        DEF Next, ServerWorker, ExecutorWorker

LEMMA LocatedKept ==
  ASSUME PlansInv, [Next]_vars
  PROVE  AnswersLocated'
<1>1. IsSequence(responses)
  BY DEF PlansInv, AnswersInv, QueuesTyped
<1>2. CASE UNCHANGED responses /\ (UNCHANGED server \/ server'.at \notin {"solving", "identified"})
  BY <1>2 DEF PlansInv, AnswersLocated
<1>3. CASE TakeResponse
  <2>1. /\ responses # <<>> /\ responses' = Tail(responses) /\ server.at = "waiting"
        /\ \/ UNCHANGED server
           \/ server'.committed = Head(responses).committed_locations
    BY <1>3 DEF TakeResponse
  <2> QED BY <1>1, <2>1, TakenOut DEF PlansInv, AnswersLocated
<1>4. CASE AssignPlanIds
  <2>1. server.at = "solving" /\ server'.committed = server.committed /\ UNCHANGED responses
    BY <1>4 DEF AssignPlanIds
  <2> QED BY <2>1 DEF PlansInv, AnswersLocated
<1>5. CASE ExecutorRequest
  <2>1. UNCHANGED server
    BY <1>5 DEF ExecutorRequest
  <2>2. CASE CommitCutFails(dm)
    BY <1>2, <1>5, <2>1, <2>2 DEF ExecutorRequest
  <2>3. CASE ~CommitCutFails(dm)
    <3> DEFINE committed == CarriedLocations(CommittedLocations(ComputeCommitCut(dm)))
               answer == [ CommittedLocationsResponse(Head(message_queue).request_id)
                           EXCEPT !.committed_locations = CarriedLocations(@) ]
    <3>1. responses' = Append(responses, answer)
      BY <1>5, <2>3 DEF ExecutorRequest
    <3>2. answer.committed_locations = committed
      BY DEF CommittedLocationsResponse
    <3>3. Located(committed)
      BY <2>3, AnswerIsLocated DEF PlansInv
    <3> HIDE DEF committed, answer
    <3> QED BY <1>1, <2>1, <3>1, <3>2, <3>3, PutOne DEF PlansInv, AnswersLocated
  <2> QED BY <2>2, <2>3
<1> QED BY <1>2, <1>3, <1>4, <1>5, AnswerSteps

LEMMA PlansInvHolds ==
  ASSUME SolverReturnsPaths
  PROVE  Spec => []PlansInv
<1>1. Init => PlansInv
  <2> SUFFICES ASSUME Init PROVE PlansInv
    OBVIOUS
  <2>1. /\ message_queue = <<>> /\ responses = <<>> /\ server = Idle /\ dm = EmptyManager
    BY DEF Init, ServerInit, ExecutorInit
  <2>2. Known(dm) = {} /\ DOMAIN dm.cut_indices = {}
    BY <2>1 DEF Known, EmptyManager
  <2>3. IsSequence(<<>>)
    BY DEF IsSequence
  <2>4. Sound(dm)
    <3>1. /\ dm.robots = <<>> /\ DOMAIN dm.plan = Robots
          /\ DOMAIN dm.current_waypoint = Robots
          /\ dm.latest_enqueued = [r \in Robots |-> 0] /\ DOMAIN dm = ManagerFields
      BY <2>1 DEF EmptyManager, ManagerFields
    <3> QED BY <2>2, <2>3, <3>1 DEF Sound
  <2> QED BY <2>1, <2>4, AnswersInit DEF PlansInv, ServerFields, PlansComing, PlansLeaving,
                                         AnswersLocated, Idle
<1>2. PlansInv /\ [Next]_vars => PlansInv'
  <2> SUFFICES ASSUME PlansInv, [Next]_vars PROVE PlansInv'
    OBVIOUS
  <2>1. AnswersInv' /\ ServerFields'
    BY AnswersNext, FieldsKept DEF PlansInv
  <2> QED BY <2>1, SoundKept, ComingKept, LeavingKept, LocatedKept DEF PlansInv
<1> QED BY <1>1, <1>2, PTL DEF Spec

\* While a cut is stored it covers all that has been enqueued and nothing is
\* enqueued behind it, with any map, script and solver that returns a path for
\* every agent (compute_commit_cut and get_valid_waypoints_and_advance,
\* dependency_manager.py).
THEOREM CutsBoundDispatch ==
  ASSUME SolverReturnsPaths
  PROVE  Spec => []CutBoundsDispatch
<1>1. PlansInv => CutBoundsDispatch
  BY DEF PlansInv, Sound, CutBoundsDispatch
<1> QED BY <1>1, PlansInvHolds, PTL

\* What a robot has been given of a plan stays in the plan that replaces it,
\* at the same places, whenever and however often plans come while it moves
\* (update_plan_after_cut, dependency_manager.py).
THEOREM DispatchedStays ==
  ASSUME SolverReturnsPaths
  PROVE  Spec => DispatchedIsKept
<1> DEFINE Kept == \A r \in Known(dm) :
                     ~IsComplete(dm, r) =>
                       \A k \in 0 .. dm.latest_enqueued[r] :
                         /\ k <= LastIndex(dm'.plan[r])
                         /\ WaypointAt(dm'.plan[r], k).name = WaypointAt(dm.plan[r], k).name
<1>1. PlansInv /\ [Next]_vars => Kept
  <2> SUFFICES ASSUME PlansInv, [Next]_vars PROVE Kept
    OBVIOUS
  <2>1. CASE dm'.plan = dm.plan
    <3>1. \A r \in Known(dm) : /\ dm.latest_enqueued[r] \in Nat /\ LastIndex(dm.plan[r]) \in Nat
                               /\ dm.latest_enqueued[r] <= LastIndex(dm.plan[r])
      BY SoundPlans DEF PlansInv
    <3> QED BY <2>1, <3>1
  <2>2. CASE HandlePlan
    BY <2>2, PlanIsSound
  <2>3. dm'.plan = dm.plan \/ HandlePlan
    BY ChangedByHandlers, ReachedIsSound, RequestIsSound DEF PlansInv
  <2> QED BY <2>1, <2>2, <2>3
<1> QED BY <1>1, PlansInvHolds, PTL DEF Spec, DispatchedIsKept

-----------------------------------------------------------------------------
(* Tasks and robots on their way through the system.                       *)

\* All that is requested in a scenario.
AskedIn(s) ==
  UNION {{s.script[n].requests[k] : k \in DOMAIN s.script[n].requests} :
           n \in {m \in DOMAIN s.script : s.script[m].type = "tasks"}}

\* What the theorems below need of the client: a task is for one robot, also
\* when it is requested again.
TasksOfOneRobot ==
  \A s \in Scenarios :
    /\ IsSequence(s.script)
    /\ \A n \in DOMAIN s.script : s.script[n].type = "tasks" => IsSequence(s.script[n].requests)
    /\ \A q, u \in AskedIn(s) : q.task_id = u.task_id => q.robot_id = u.robot_id

\* Requests that the transport has taken.
Taken(requests, f, n) ==
  f = [i \in 0 .. n |-> IF i = 0 THEN <<>>
                        ELSE IF subscriptions["server"][requests[i].robot_id] > 0
                             THEN Append(f[i - 1], requests[i])
                             ELSE f[i - 1]]

LEMMA TakenExist ==
  ASSUME NEW requests, NEW n \in Nat
  PROVE  \E f : Taken(requests, f, n)
<1> DEFINE T == {m \in Nat : ~\E f : Taken(requests, f, m)}
<1> SUFFICES ASSUME T # {} PROVE FALSE
  OBVIOUS
<1>1. PICK m \in T : \A i \in T : m <= i
  <2>1. T \in SUBSET Nat
    OBVIOUS
  <2> HIDE DEF T
  <2> QED BY <2>1, WellOrdered
<1>2. m \in Nat
  OBVIOUS
<1> DEFINE Value(g, i) == IF i = 0 THEN <<>>
                          ELSE IF subscriptions["server"][requests[i].robot_id] > 0
                               THEN Append(g[i - 1], requests[i])
                               ELSE g[i - 1]
<1>3. CASE m = 0
  <2> DEFINE f == [i \in 0 .. 0 |-> <<>>]
  <2>1. f = [i \in 0 .. 0 |-> Value(f, i)]
    OBVIOUS
  <2>2. Taken(requests, f, 0)
    BY <2>1, Zenon DEF Taken
  <2> QED BY <1>1, <1>3, <2>2
<1>4. CASE m # 0
  <2>1. m - 1 \in Nat /\ ~(m <= m - 1)
    BY <1>2, <1>4
  <2>2. PICK f : Taken(requests, f, m - 1)
    BY <1>1, <2>1
  <2> DEFINE more == [i \in 0 .. m |-> Value(f, i)]
  <2>3. f = [i \in 0 .. m - 1 |-> Value(f, i)]
    BY <2>2 DEF Taken
  <2>4. ASSUME NEW i \in 0 .. m PROVE Value(f, i) = Value(more, i)
    <3>1. CASE i = 0
      BY <3>1
    <3>2. CASE i # 0
      <4>1. i - 1 \in 0 .. m - 1 /\ i - 1 \in 0 .. m
        BY <1>2, <3>2
      <4>2. f[i - 1] = Value(f, i - 1)
        <5> HIDE DEF Value
        <5> QED BY <2>3, <4>1
      <4>3. more[i - 1] = Value(f, i - 1)
        <5> HIDE DEF Value
        <5> QED BY <4>1
      <4>4. f[i - 1] = more[i - 1]
        BY <4>2, <4>3, Zenon
      <4> HIDE DEF more
      <4> QED BY <4>4, Zenon
    <3> QED BY <3>1, <3>2
  <2>5. more = [i \in 0 .. m |-> Value(more, i)]
    <3> HIDE DEF Value
    <3> QED BY <2>4
  <2> HIDE DEF more
  <2>6. Taken(requests, more, m)
    BY <2>5, Zenon DEF Taken
  <2> QED BY <1>1, <2>6
<1> QED BY <1>3, <1>4

\* The transport takes requests as they are.
LEMMA RequestedIs ==
  ASSUME NEW requests, IsSequence(requests)
  PROVE  /\ IsSequence(Requested(requests))
         /\ \A n \in DOMAIN Requested(requests) :
              \E m \in DOMAIN requests : Requested(requests)[n] = requests[m]
<1> DEFINE N == Len(requests)
           f == CHOOSE g : Taken(requests, g, N)
           Of(s) == /\ IsSequence(s)
                    /\ \A n \in DOMAIN s : \E m \in DOMAIN requests : s[n] = requests[m]
<1>1. N \in Nat /\ DOMAIN requests = 1 .. N
  BY LenProperties DEF IsSequence
<1>2. Requested(requests) = f[N]
  BY Zenon DEF Requested, Taken
<1>3. Taken(requests, f, N)
  BY <1>1, TakenExist
<1> HIDE DEF N, f
<1>4. /\ f[0] = <<>>
      /\ \A i \in 1 .. N : f[i] = f[i - 1] \/ f[i] = Append(f[i - 1], requests[i])
  <2>1. \A i \in 0 .. N : f[i] = IF i = 0 THEN <<>>
                                  ELSE IF subscriptions["server"][requests[i].robot_id] > 0
                                       THEN Append(f[i - 1], requests[i])
                                       ELSE f[i - 1]
    BY <1>3, Zenon DEF Taken
  <2>2. 0 \in 0 .. N /\ \A i \in 1 .. N : i \in 0 .. N /\ i # 0
    BY <1>1
  <2> QED BY <2>1, <2>2, Zenon
<1> DEFINE T == {i \in 0 .. N : ~Of(f[i])}
<1>5. T = {}
  <2> SUFFICES ASSUME T # {} PROVE FALSE
    OBVIOUS
  <2>1. PICK i \in T : \A j \in T : i <= j
    <3>1. T \in SUBSET Nat
      BY <1>1
    <3> HIDE DEF T
    <3> QED BY <3>1, WellOrdered
  <2>2. i \in 0 .. N /\ ~Of(f[i])
    OBVIOUS
  <2>3. CASE i = 0
    <3>1. IsSequence(<<>>) /\ DOMAIN <<>> = {}
      BY DEF IsSequence
    <3> QED BY <1>4, <2>2, <2>3, <3>1
  <2>4. CASE i # 0
    <3>1. i \in 1 .. N /\ i - 1 \in 0 .. N /\ ~(i <= i - 1)
      BY <1>1, <2>2, <2>4
    <3>2. Of(f[i - 1])
      BY <2>1, <3>1
    <3>3. CASE f[i] = Append(f[i - 1], requests[i])
      <4>1. IsSequence(f[i])
        BY <3>2, <3>3, AppendedIs
      <4>2. \A n \in DOMAIN f[i] : \/ \E m \in DOMAIN f[i - 1] : f[i][n] = f[i - 1][m]
                                   \/ f[i][n] = requests[i]
        BY <3>2, <3>3, PutOne
      <4>3. i \in DOMAIN requests
        BY <1>1, <3>1
      <4>4. \A n \in DOMAIN f[i] : \E m \in DOMAIN requests : f[i][n] = requests[m]
        BY <3>2, <4>2, <4>3
      <4> QED BY <2>2, <4>1, <4>4
    <3> QED BY <1>4, <2>2, <3>1, <3>2, <3>3
  <2> QED BY <2>3, <2>4
<1>6. Of(f[N])
  <2>1. N \in 0 .. N
    BY <1>1
  <2> QED BY <1>5, <2>1
<1> QED BY <1>2, <1>6

InBatch == server.at \in {"waiting", "solving", "identified", "publishing", "recording"}

TasksAsked ==
  /\ scenario \in Scenarios /\ sent \in Nat
  /\ IsSequence(task_request_queue)
  /\ \A n \in DOMAIN task_request_queue : task_request_queue[n] \in AskedIn(scenario)
  /\ InBatch => \A r \in DOMAIN server.tasks :
                  server.tasks[r] \in AskedIn(scenario) /\ server.tasks[r].robot_id = r

\* A batch keeps its tasks.
LEMMA BatchKeepsTasks ==
  ASSUME ServerFields, [Next]_vars, InBatch', ~ProcessBatch
  PROVE  InBatch /\ server'.tasks = server.tasks
<1>1. CASE UNCHANGED server
  BY <1>1 DEF InBatch
<1>2. CASE server' \in {Idle, Dead}
  BY <1>2 DEF InBatch, Idle, Dead
<1>3. CASE TakeResponse
  BY <1>3 DEF InBatch, TakeResponse
<1>4. CASE AssignPlanIds
  BY <1>4 DEF InBatch, AssignPlanIds
<1>5. CASE Solve
  <2>1. \/ server' = Idle
        \/ server' = Dead
        \/ \E b, c, d, e :
             server' = [ at |-> "publishing", tasks |-> server.tasks, committed |-> b,
                         plan_ids |-> c, plans |-> d, left |-> e ]
    BY <1>5 DEF Solve, BatchFails
  <2> QED BY <1>2, <1>5, <2>1 DEF Solve, InBatch
<1>6. CASE \E r \in Robots : PublishPlan(r)
  BY <1>6 DEF ServerFields, PublishingFields, PublishPlan, InBatch
<1>7. CASE SupersedeTasks
  BY <1>7 DEF ServerFields, PublishingFields, SupersedeTasks, InBatch
<1>8. \/ UNCHANGED server
      \/ server' \in {Idle, Dead}
      \/ TakeResponse
      \/ AssignPlanIds
      \/ Solve
      \/ \E r \in Robots : PublishPlan(r)
      \/ SupersedeTasks
  <2>1. CASE Client
    BY <2>1 DEF Client, SendTasks, OnboardAtServer, OnboardAtExecutor, Discovery,
                OnTaskRequests, AddRobot, serverVars
  <2>2. CASE ServerWorker \/ ServerTimeout
    BY <2>2 DEF ServerWorker, ServerBatch, ServerInternal, ServerPublish, ServerTimeout,
                WaitTimesOut, BatchFails, RecordBatch
  <2>3. CASE ServerCallback
    BY <2>3 DEF ServerCallback, ServerProgress, ServerRecordsEnd, ServerScanFails, OnProgress,
                ScanEnds, Complete, ScanFails
  <2>4. CASE ExecutorWorker
    BY <2>4 DEF ExecutorWorker, ExecutorPlan, ExecutorReached, ExecutorRequest, serverVars
  <2>5. CASE \E r \in Robots : RobotArrives(r)
    BY <2>5 DEF RobotArrives, serverVars
  <2>6. CASE UNCHANGED vars
    BY <2>6 DEF vars, serverVars
  <2> QED BY <2>1, <2>2, <2>3, <2>4, <2>5, <2>6 DEF Next
<1> QED BY <1>1, <1>2, <1>3, <1>4, <1>5, <1>6, <1>7, <1>8

\* The tasks of a new batch, by robot.
LEMMA NewBatchIs ==
  ASSUME ProcessBatch, server'.at = "waiting"
  PROVE  /\ server'.request_id = request_counter' /\ request_counter' = request_counter + 1
         /\ \A r \in DOMAIN server'.tasks :
              server'.tasks[r].robot_id = r
                /\ \E n \in DOMAIN task_request_queue : server'.tasks[r] = task_request_queue[n]
<1> DEFINE items == task_request_queue
           valid == {n \in LastRequests(items) : items[n].robot_id \in DOMAIN context}
           At(r) == CHOOSE n \in valid : items[n].robot_id = r
           tasks == [r \in {items[n].robot_id : n \in valid} |-> items[At(r)]]
<1>1. server = Idle /\ server.at = "idle"
  BY DEF ProcessBatch, Idle
<1>2. /\ request_counter' = request_counter + 1
      /\ server' = [at |-> "waiting", tasks |-> tasks, request_id |-> request_counter']
  BY <1>1 DEF ProcessBatch
<1>3. valid \subseteq DOMAIN items
  BY DEF LastRequests
<1> HIDE DEF valid
<1>4. \A r \in DOMAIN tasks : At(r) \in valid /\ items[At(r)].robot_id = r
  OBVIOUS
<1> HIDE DEF At
<1>5. \A r \in DOMAIN tasks : tasks[r] = items[At(r)]
  OBVIOUS
<1> QED BY <1>2, <1>3, <1>4, <1>5

LEMMA TasksKept ==
  ASSUME TasksOfOneRobot, TasksAsked, ServerFields, [Next]_vars
  PROVE  TasksAsked'
<1>1. /\ scenario' = scenario /\ sent' \in Nat
      /\ IsSequence(task_request_queue')
      /\ \A n \in DOMAIN task_request_queue' : task_request_queue'[n] \in AskedIn(scenario)
  <2>1. CASE UNCHANGED <<scenario, sent, task_request_queue>>
    BY <2>1 DEF TasksAsked
  <2>2. CASE SendTasks
    <3> DEFINE requests == Requested(Item.requests)
    <3>1. /\ scenario' = scenario /\ sent' = sent + 1
          /\ task_request_queue' = task_request_queue \o requests
          /\ sent + 1 <= Len(scenario.script) /\ Item.type = "tasks"
      <4>1. sent < Len(scenario.script)
        BY <2>2 DEF SendTasks, NextOnScript
      <4>2. Len(scenario.script) \in Nat /\ sent \in Nat
        BY LenProperties DEF TasksOfOneRobot, TasksAsked, IsSequence
      <4> QED BY <2>2, <4>1, <4>2 DEF SendTasks, NextOnScript, OnTaskRequests, Item
    <3>2. sent + 1 \in DOMAIN scenario.script /\ sent' \in Nat
      <4>1. DOMAIN scenario.script = 1 .. Len(scenario.script) /\ Len(scenario.script) \in Nat
        BY LenProperties DEF TasksOfOneRobot, TasksAsked, IsSequence
      <4> QED BY <3>1, <4>1 DEF TasksAsked
    <3>3. IsSequence(Item.requests)
      BY <3>1, <3>2 DEF TasksOfOneRobot, TasksAsked, Item
    <3>4. \A k \in DOMAIN Item.requests : Item.requests[k] \in AskedIn(scenario)
      BY <3>1, <3>2 DEF AskedIn, Item
    <3>5. IsSequence(requests) /\ \A n \in DOMAIN requests : requests[n] \in AskedIn(scenario)
      BY <3>3, <3>4, RequestedIs
    <3> HIDE DEF requests
    <3>6. IsSequence(task_request_queue')
      BY <3>1, <3>5, JoinedIs DEF TasksAsked
    <3>7. \A n \in DOMAIN task_request_queue' :
            \/ \E m \in DOMAIN task_request_queue : task_request_queue'[n] = task_request_queue[m]
            \/ \E m \in DOMAIN requests : task_request_queue'[n] = requests[m]
      BY <3>1, <3>5, PutIn DEF TasksAsked
    <3> QED BY <3>1, <3>2, <3>5, <3>6, <3>7 DEF TasksAsked
  <2>3. CASE Client /\ ~SendTasks
    <3>1. scenario' = scenario /\ sent' \in {sent + 1, Len(scenario.script)}
          /\ UNCHANGED task_request_queue
      BY <2>3 DEF Client, OnboardAtServer, OnboardAtExecutor, Discovery, NextOnScript, AddRobot,
                  serverVars
    <3>2. Len(scenario.script) \in Nat /\ sent + 1 \in Nat
      BY LenProperties DEF TasksOfOneRobot, TasksAsked, IsSequence
    <3> QED BY <3>1, <3>2 DEF TasksAsked
  <2>4. CASE ServerBatch
    <3>1. task_request_queue' = <<>> /\ UNCHANGED <<scenario, sent>>
      BY <2>4 DEF ServerBatch, ProcessBatch, systemVars
    <3>2. IsSequence(<<>>) /\ DOMAIN <<>> = {}
      BY DEF IsSequence
    <3> QED BY <3>1, <3>2 DEF TasksAsked
  <2>5. UNCHANGED <<scenario, sent, task_request_queue>> \/ Client \/ ServerBatch
    <3>1. CASE ServerInternal
      BY <3>1 DEF ServerInternal, TakeResponse, AssignPlanIds, Solve, SupersedeTasks, RecordBatch,
                  systemVars
    <3>2. CASE ServerTimeout \/ \E r \in Robots : ServerPublish(r)
      BY <3>2 DEF ServerPublish, PublishPlan, ServerTimeout, WaitTimesOut, systemVars
    <3>3. CASE ServerCallback
      BY <3>3 DEF ServerCallback, ServerProgress, ServerRecordsEnd, ServerScanFails, OnProgress,
                  ScanEnds, Complete, ScanFails, systemVars
    <3>4. CASE ExecutorWorker
      BY <3>4 DEF ExecutorWorker, ExecutorPlan, ExecutorReached, ExecutorRequest, serverVars,
                  systemVars
    <3>5. CASE \E r \in Robots : RobotArrives(r)
      BY <3>5 DEF RobotArrives, serverVars, systemVars
    <3>6. CASE UNCHANGED vars
      BY <3>6 DEF vars, serverVars, systemVars
    <3> QED BY <3>1, <3>2, <3>3, <3>4, <3>5, <3>6 DEF Next, ServerWorker
  <2> QED BY <2>1, <2>2, <2>3, <2>4, <2>5
<1>2. ASSUME InBatch', NEW r \in DOMAIN server'.tasks
      PROVE  server'.tasks[r] \in AskedIn(scenario) /\ server'.tasks[r].robot_id = r
  <2>1. CASE ~ProcessBatch
    BY <1>2, <2>1, BatchKeepsTasks DEF TasksAsked
  <2>2. CASE ProcessBatch
    <3>1. server'.at = "waiting"
      BY <1>2, <2>2 DEF ProcessBatch, InBatch, Idle
    <3> QED BY <1>2, <2>2, <3>1, NewBatchIs DEF TasksAsked
  <2> QED BY <2>1, <2>2
<1> QED BY <1>1, <1>2 DEF TasksAsked

-----------------------------------------------------------------------------
(* What the handlers do, as far as plans, their ids and the robots that are *)
(* known go.                                                               *)

\* Robots without a plan are given nothing.
LEMMA DispatchServesKnown ==
  ASSUME NEW d, DispatchUnblocked(d), NEW s \in Robots, s \notin Known(d)
  PROVE  pending'[s] = pending[s]
<1> DEFINE served == {d.robots[n] : n \in Turns(d) \ OverrunAt(d)}
<1>1. s \notin served
  BY DEF Turns, Known
<1>2. pending' = [r \in Robots |-> IF r \in served THEN pending[r] \o Released(d, r) ELSE pending[r]]
  BY DEF DispatchUnblocked
<1> HIDE DEF served
<1> QED BY <1>1, <1>2

\* The message that is taken next.
First == message_queue[1]

LEMMA FirstIs ==
  ASSUME PlansInv, NEW type, NextMessage(type)
  PROVE  /\ 1 \in DOMAIN message_queue /\ First = message_queue[1] /\ Head(message_queue) = First
         /\ First.type = type /\ message_queue' = Tail(message_queue)
         /\ type = "plan" => First.robot \in Robots /\ WellFormed(First.plan)
<1>1. message_queue # <<>> /\ Head(message_queue).type = type
      /\ message_queue' = Tail(message_queue)
  BY DEF NextMessage
<1>2. 1 \in DOMAIN message_queue /\ Head(message_queue) = message_queue[1]
  BY <1>1, TakenOut DEF PlansInv, AnswersInv, QueuesTyped
<1> QED BY <1>1, <1>2 DEF PlansInv, PlansComing, Proper, First

\* The plan at the head of the queue becomes its robot's, in name.
LEMMA PlanHandled ==
  ASSUME PlansInv, HandlePlan
  PROVE  /\ Known(dm') = Known(dm) \cup {First.robot}
         /\ dm'.completed_plan_ids = dm.completed_plan_ids
         /\ \A s \in Known(dm') :
              dm'.plan[s].plan_id = IF s = First.robot THEN First.plan.plan_id
                                                       ELSE dm.plan[s].plan_id
         /\ \A s \in Robots : s \notin Known(dm') => pending'[s] = pending[s]
<1> DEFINE r == First.robot
           p == First.plan
<1>1. r \in Robots /\ WellFormed(p) /\ Sound(dm) /\ Head(message_queue) = First
  BY FirstIs DEF HandlePlan, PlansInv
<1>2. CASE r \notin Known(dm) \/ IsComplete(dm, r)
  <2> DEFINE d == SetPlan(dm, r, p)
  <2>1. DispatchUnblocked(d)
    BY <1>1, <1>2 DEF HandlePlan
  <2>2. IsSet(dm, r, p, d)
    <3> HIDE DEF r, p
    <3> QED BY <1>1, SetPlanIsSound
  <2> HIDE DEF d
  <2>3. /\ Known(dm') = Known(d) /\ dm'.plan = d.plan
        /\ dm'.completed_plan_ids = d.completed_plan_ids
    BY <2>1, <2>2, DispatchIsSound DEF IsSet
  <2>4. \A s \in Robots : s \notin Known(d) => pending'[s] = pending[s]
    BY <2>1, DispatchServesKnown
  <2>5. Known(d) \subseteq Robots
    BY <2>2 DEF IsSet, Sound
  <2> QED BY <2>2, <2>3, <2>4, <2>5 DEF IsSet
<1>3. CASE ~(r \notin Known(dm) \/ IsComplete(dm, r))
  <2> DEFINE d == UpdatePlanAfterCut(dm, r, p)
  <2>1. DispatchUnblocked(d)
    BY <1>1, <1>3 DEF HandlePlan
  <2>2. r \in Known(dm) /\ WellFormed(dm.plan[r])
    BY <1>1, <1>3 DEF Sound
  <2>3. IsUpdated(dm, r, p, d)
    <3> HIDE DEF r, p
    <3> QED BY <1>1, <2>2, UpdateIsSound
  <2> HIDE DEF d
  <2>4. Joined(dm, r, p).plan_id = p.plan_id
    <3> HIDE DEF r, p
    <3> QED BY <1>1, <2>2, <2>3, SplicedIs DEF Joined, IsUpdated
  <2>5. /\ Known(dm') = Known(d) /\ dm'.plan = d.plan
        /\ dm'.completed_plan_ids = d.completed_plan_ids
    BY <2>1, <2>3, DispatchIsSound DEF IsUpdated
  <2>6. \A s \in Robots : s \notin Known(d) => pending'[s] = pending[s]
    BY <2>1, DispatchServesKnown
  <2> QED BY <2>2, <2>3, <2>4, <2>5, <2>6 DEF IsUpdated, Updated
<1> QED BY <1>2, <1>3

\* A reached waypoint leaves plans and robots, and may complete a plan.
LEMMA ReachedHandled ==
  ASSUME PlansInv, HandleWaypointReached
  PROVE  /\ Known(dm') = Known(dm) /\ dm'.plan = dm.plan
         /\ \A s \in Robots : s \notin Known(dm) => pending'[s] = pending[s]
         /\ dm'.completed_plan_ids =
              IF First.robot \in Known(dm) /\ First.index >= LastIndex(dm.plan[First.robot])
              THEN dm.completed_plan_ids \cup {dm.plan[First.robot].plan_id}
              ELSE dm.completed_plan_ids
<1> DEFINE r == First.robot
           k == First.index
           d == UpdateProgress(dm, r, k)
           e == IF IsComplete(d, r) THEN OnPlanComplete(d, r) ELSE d
           done == r \in Known(dm) /\ k >= LastIndex(dm.plan[r])
<1>1. DispatchUnblocked(e)
  BY FirstIs DEF HandleWaypointReached
<1>2. DOMAIN dm = ManagerFields /\ DOMAIN dm.plan = Robots /\ Known(dm) \subseteq Robots /\ Sound(dm)
  BY DEF PlansInv, Sound
<1>3. /\ DOMAIN d = ManagerFields /\ d.robots = dm.robots /\ d.plan = dm.plan
      /\ d.cut_indices = dm.cut_indices /\ d.latest_enqueued = dm.latest_enqueued
      /\ d.completed_plan_ids = dm.completed_plan_ids
      /\ DOMAIN d.current_waypoint = DOMAIN dm.current_waypoint
      /\ r \in Known(dm) => d.current_waypoint = [dm.current_waypoint EXCEPT ![r] = k]
  BY <1>2 DEF UpdateProgress, ManagerFields
<1> HIDE DEF d, r, k
<1>4. Known(d) = Known(dm)
  BY <1>3 DEF Known
<1>5. IsComplete(d, r) <=> done
  <2>1. r \in Known(dm) => d.current_waypoint[r] = k
    BY <1>2, <1>3 DEF Sound
  <2>2. IsComplete(d, r) <=> (r \in Known(dm) /\ d.current_waypoint[r] >= LastIndex(dm.plan[r]))
    BY <1>3, <1>4 DEF IsComplete
  <2> QED BY <2>1, <2>2
<1>6. /\ DOMAIN e = ManagerFields /\ e.robots = dm.robots /\ e.plan = dm.plan
      /\ e.cut_indices = dm.cut_indices /\ e.latest_enqueued = dm.latest_enqueued
      /\ DOMAIN e.current_waypoint = DOMAIN dm.current_waypoint
      /\ e.completed_plan_ids = IF IsComplete(d, r)
                                THEN dm.completed_plan_ids \cup {dm.plan[r].plan_id}
                                ELSE dm.completed_plan_ids
  BY <1>3 DEF OnPlanComplete, ManagerFields
<1> HIDE DEF e
<1>7. Known(e) = Known(dm)
  BY <1>6 DEF Known
<1>8. Sound(e)
  BY <1>2, <1>6, <1>7 DEF Sound
<1>9. /\ Known(dm') = Known(e) /\ dm'.plan = e.plan
      /\ dm'.completed_plan_ids = e.completed_plan_ids
  BY <1>1, <1>8, DispatchIsSound
<1>10. \A s \in Robots : s \notin Known(e) => pending'[s] = pending[s]
  BY <1>1, DispatchServesKnown
<1> QED BY <1>5, <1>6, <1>7, <1>9, <1>10 DEF r, k

\* What is put behind a sequence, with what it holds.
LEMMA CopiesPutIn ==
  ASSUME NEW s, IsSequence(s), NEW k \in Nat, NEW x, NEW t, t = s \o [n \in 1 .. k |-> x]
  PROVE  /\ IsSequence(t)
         /\ \A n \in DOMAIN t : t[n] = x \/ \E m \in DOMAIN s : t[n] = s[m]
<1> DEFINE copies == [n \in 1 .. k |-> x]
<1>1. IsSequence(copies) /\ \A n \in DOMAIN copies : copies[n] = x
  BY CopiesAre
<1> HIDE DEF copies
<1>2. IsSequence(s \o copies)
  BY <1>1, JoinedIs
<1>3. \A n \in DOMAIN (s \o copies) : \/ \E m \in DOMAIN s : (s \o copies)[n] = s[m]
                                      \/ \E m \in DOMAIN copies : (s \o copies)[n] = copies[m]
  BY <1>1, PutIn
<1>4. \A n \in DOMAIN (s \o copies) : \/ (s \o copies)[n] = x
                                      \/ \E m \in DOMAIN s : (s \o copies)[n] = s[m]
  BY <1>1, <1>3
<1> QED BY <1>2, <1>4 DEF copies

\* The robots that reports are about have plans.
Recording == callback.at \in {"scanning", "completing"}

KnownReports ==
  /\ DOMAIN pending = Robots /\ IsSequence(reports)
  /\ \A r \in Robots : pending[r] # <<>> => r \in Known(dm)
  /\ \A n \in DOMAIN message_queue : message_queue[n].type = Reached => message_queue[n].robot \in Known(dm)
  /\ \A n \in DOMAIN reports : reports[n].robot \in Known(dm)
  /\ Recording => callback.robot \in Known(dm)

\* The steps that touch none of the plans, queues and reports.
LEMMA OtherSteps ==
  ASSUME [Next]_vars
  PROVE  \/ UNCHANGED <<dm, pending, message_queue, reports, callback>>
         \/ UNCHANGED <<dm, pending, message_queue, reports>> /\ callback' = Dead
         \/ ServerBatch \/ \E r \in Robots : ServerPublish(r)
         \/ ServerProgress \/ ServerRecordsEnd
         \/ ExecutorPlan \/ ExecutorReached \/ ExecutorRequest
         \/ \E r \in Robots : RobotArrives(r)
<1>1. CASE Client
  BY <1>1 DEF Client, SendTasks, OnboardAtServer, OnboardAtExecutor, Discovery, NextOnScript,
              OnTaskRequests, AddRobot, serverVars, executorVars
<1>2. CASE ServerInternal
  BY <1>2 DEF ServerInternal, TakeResponse, AssignPlanIds, Solve, SupersedeTasks, RecordBatch,
              executorVars, systemVars
<1>3. CASE ServerTimeout
  BY <1>3 DEF ServerTimeout, WaitTimesOut, executorVars
<1>4. CASE ServerScanFails
  BY <1>4 DEF ServerScanFails, ScanFails, systemVars
<1>5. CASE UNCHANGED vars
  BY <1>5 DEF vars, serverVars, executorVars, systemVars
<1> QED BY <1>1, <1>2, <1>3, <1>4, <1>5 DEF Next, ServerWorker, ServerCallback, ExecutorWorker

LEMMA KnownReportsKept ==
  ASSUME PlansInv, KnownReports, [Next]_vars
  PROVE  KnownReports'
<1>1. /\ IsSequence(message_queue) /\ IsSequence(reports)
      /\ subscriptions \in [{"server", "executor"} -> [Robots -> Nat]]
  BY DEF PlansInv, AnswersInv, QueuesTyped, KnownReports
<1>2. Idle.at = "idle" /\ Dead.at = "dead"
  BY DEF Idle, Dead
<1>3. CASE UNCHANGED <<dm, pending, message_queue, reports>> /\ (UNCHANGED callback \/ callback' = Dead)
  BY <1>2, <1>3 DEF KnownReports, Recording
<1>4. CASE ServerBatch
  <2>1. UNCHANGED <<dm, pending, reports, callback>>
    BY <1>4 DEF ServerBatch, ProcessBatch, OnCommittedLocationsRequest, executorVars, systemVars
  <2>2. CASE message_queue' = Append(message_queue, RequestMessage(server'.request_id))
    <3>1. RequestMessage(server'.request_id).type # Reached
      BY DEF RequestMessage, Reached
    <3> QED BY <1>1, <2>1, <2>2, <3>1, PutOne DEF KnownReports, Recording
  <2>3. UNCHANGED message_queue \/ message_queue' = Append(message_queue, RequestMessage(server'.request_id))
    BY <1>4 DEF ServerBatch, OnCommittedLocationsRequest, executorVars
  <2> QED BY <1>3, <2>1, <2>2, <2>3
<1>5. ASSUME NEW r \in Robots, ServerPublish(r) PROVE KnownReports'
  <2> DEFINE message == PlanMessage(r, Carried(server.plans[r]))
             k == subscriptions["executor"][r]
  <2>1. /\ message_queue' = message_queue \o [n \in 1 .. k |-> message]
        /\ UNCHANGED <<dm, pending, reports, callback>>
    BY <1>5 DEF ServerPublish, PublishPlan, Delivered, systemVars
  <2>2. k \in Nat /\ message.type # Reached
    BY <1>1 DEF PlanMessage, Reached
  <2> HIDE DEF message, k
  <2>3. \A n \in DOMAIN message_queue' :
          message_queue'[n] = message \/ \E m \in DOMAIN message_queue : message_queue'[n] = message_queue[m]
    BY <1>1, <2>1, <2>2, CopiesPutIn
  <2> QED BY <2>1, <2>2, <2>3 DEF KnownReports, Recording
<1>6. CASE ServerProgress
  <2>1. /\ reports # <<>> /\ reports' = Tail(reports) /\ UNCHANGED <<dm, pending, message_queue>>
        /\ callback' = Idle \/ callback'.robot = Head(reports).robot
    BY <1>6 DEF ServerProgress, OnProgress, executorVars
  <2>2. /\ IsSequence(reports') /\ Head(reports).robot \in Known(dm)
        /\ \A n \in DOMAIN reports' : reports'[n].robot \in Known(dm)
    BY <1>1, <2>1, TailIs, TakenOut DEF KnownReports
  <2> QED BY <1>2, <2>1, <2>2 DEF KnownReports, Recording
<1>7. CASE ServerRecordsEnd
  <2>1. UNCHANGED <<dm, pending, message_queue, reports>>
    BY <1>7 DEF ServerRecordsEnd, executorVars
  <2>2. callback' = Idle \/ (callback'.robot = callback.robot /\ Recording)
    BY <1>7 DEF ServerRecordsEnd, ScanEnds, Complete, Recording
  <2> QED BY <1>2, <2>1, <2>2 DEF KnownReports, Recording
<1>8. CASE ExecutorPlan
  <2>1. HandlePlan /\ UNCHANGED <<reports, callback>>
    BY <1>8 DEF ExecutorPlan, serverVars, systemVars
  <2>2. /\ Known(dm) \subseteq Known(dm') /\ message_queue' = Tail(message_queue) /\ message_queue # <<>>
        /\ \A s \in Robots : s \notin Known(dm') => pending'[s] = pending[s]
    BY <2>1, PlanHandled DEF HandlePlan, NextMessage
  <2>3. DOMAIN pending' = Robots
    BY <2>1 DEF HandlePlan, DispatchUnblocked
  <2> QED BY <1>1, <2>1, <2>2, <2>3, TakenOut DEF KnownReports, Recording
<1>9. CASE ExecutorReached
  <2> DEFINE r == First.robot
             report == [robot |-> r, report |-> ProgressMessage(r, First.index)]
             k == subscriptions["server"][r]
  <2>1. /\ HandleWaypointReached /\ UNCHANGED callback
        /\ NextMessage(Reached)
    BY <1>9 DEF ExecutorReached, HandleWaypointReached, serverVars, Reached
  <2>2. /\ 1 \in DOMAIN message_queue /\ First = message_queue[1] /\ First.type = Reached
        /\ Head(message_queue) = First /\ message_queue' = Tail(message_queue) /\ message_queue # <<>>
    BY <2>1, FirstIs DEF NextMessage
  <2>3. reports' = reports \o [n \in 1 .. k |-> report]
    BY <1>9, <2>2 DEF ExecutorReached, Delivered
  <2>4. r \in Known(dm) /\ r \in Robots
    BY <2>2 DEF KnownReports, PlansInv, Sound
  <2>5. report.robot = r
    OBVIOUS
  <2>10. k \in Nat
    BY <1>1, <2>4
  <2> HIDE DEF report, k, r
  <2>11. IsSequence(reports)
    BY <1>1
  <2>6. \A n \in DOMAIN reports' :
          reports'[n] = report \/ \E m \in DOMAIN reports : reports'[n] = reports[m]
    BY <2>3, <2>10, <2>11, CopiesPutIn
  <2>12. IsSequence(reports')
    BY <2>3, <2>10, <2>11, CopiesPutIn
  <2>7. /\ Known(dm) = Known(dm')
        /\ \A s \in Robots : s \notin Known(dm) => pending'[s] = pending[s]
    BY <2>1, ReachedHandled
  <2>8. DOMAIN pending' = Robots
    BY <2>1 DEF HandleWaypointReached, DispatchUnblocked
  <2>9. /\ \A n \in DOMAIN reports' : reports'[n].robot \in Known(dm)
        /\ \A n \in DOMAIN message_queue' :
             message_queue'[n].type = Reached => message_queue'[n].robot \in Known(dm)
    <3>1. \A n \in DOMAIN message_queue' : \E m \in DOMAIN message_queue : message_queue'[n] = message_queue[m]
      BY <1>1, <2>2, TakenOut
    <3> QED BY <2>4, <2>5, <2>6, <3>1 DEF KnownReports
  <2> QED BY <2>1, <2>12, <2>7, <2>8, <2>9 DEF KnownReports, Recording
<1>10. CASE ExecutorRequest
  <2>1. HandleCommittedLocationsRequest /\ UNCHANGED <<pending, reports, callback>>
        /\ message_queue # <<>> /\ message_queue' = Tail(message_queue)
    BY <1>10 DEF ExecutorRequest, HandleCommittedLocationsRequest, NextMessage, systemVars
  <2>2. Known(dm') = Known(dm)
    BY <2>1, CutIsSound DEF HandleCommittedLocationsRequest, PlansInv
  <2> QED BY <1>1, <2>1, <2>2, TakenOut DEF KnownReports, Recording
<1>11. ASSUME NEW r \in Robots, RobotArrives(r) PROVE KnownReports'
  <2> DEFINE message == ReachedMessage(r, Head(pending[r]).index)
  <2>1. /\ pending[r] # <<>> /\ pending' = [pending EXCEPT ![r] = Tail(@)]
        /\ message_queue' = Append(message_queue, message)
        /\ UNCHANGED <<dm, reports, callback>>
    BY <1>11 DEF RobotArrives, Arrive, serverVars, systemVars
  <2>2. message.robot = r /\ r \in Known(dm)
    BY <2>1 DEF ReachedMessage, KnownReports
  <2> HIDE DEF message
  <2>3. \A n \in DOMAIN message_queue' :
          message_queue'[n] = message \/ \E m \in DOMAIN message_queue : message_queue'[n] = message_queue[m]
    BY <1>1, <2>1, PutOne
  <2>4. DOMAIN pending' = Robots /\ \A s \in Robots : s # r => pending'[s] = pending[s]
    BY <2>1 DEF KnownReports
  <2> QED BY <2>1, <2>2, <2>3, <2>4 DEF KnownReports, Recording
<1> QED BY <1>3, <1>4, <1>5, <1>6, <1>7, <1>8, <1>9, <1>10, <1>11, OtherSteps

-----------------------------------------------------------------------------
(* Plan ids: who has which.                                                *)

Coming == {n \in DOMAIN message_queue : message_queue[n].type = "plan"}
ComingIds == {message_queue[n].plan.plan_id : n \in Coming}
Executed == dm.completed_plan_ids \cup {dm.plan[s].plan_id : s \in Known(dm)}
ReportedIds == {reports[n].report.plan_id : n \in DOMAIN reports}
RecordedIds == IF Recording THEN {callback.plan_id} ELSE {}
Held == Executed \cup ComingIds \cup ReportedIds \cup RecordedIds

\* What is taken out of the queue, or put into it.
LEMMA ComingTaken ==
  ASSUME PlansInv, NEW type, NextMessage(type)
  PROVE  ComingIds' \subseteq ComingIds
<1>1. \A n \in DOMAIN message_queue' : \E m \in DOMAIN message_queue : message_queue'[n] = message_queue[m]
  BY TakenOut DEF NextMessage, PlansInv, AnswersInv, QueuesTyped
<1> QED BY <1>1 DEF ComingIds, Coming

LEMMA ComingPut ==
  ASSUME PlansInv, NEW message, message.type # "plan", message_queue' = Append(message_queue, message)
  PROVE  ComingIds' \subseteq ComingIds
<1>1. \A n \in DOMAIN message_queue' : \/ \E m \in DOMAIN message_queue : message_queue'[n] = message_queue[m]
                                       \/ message_queue'[n] = message
  BY PutOne DEF PlansInv, AnswersInv, QueuesTyped
<1> QED BY <1>1 DEF ComingIds, Coming

\* No step but the publication of a plan brings an id about that nobody has.
LEMMA HeldKept ==
  ASSUME PlansInv, KnownReports, [Next]_vars, ~\E r \in Robots : ServerPublish(r)
  PROVE  /\ Held' \subseteq Held
         /\ Executed' \subseteq Executed \/ (ExecutorPlan /\ Executed' \subseteq Executed \cup {First.plan.plan_id})
<1>1. Idle.at = "idle" /\ Dead.at = "dead"
  BY DEF Idle, Dead
<1>2. CASE UNCHANGED <<dm, pending, message_queue, reports>> /\ (UNCHANGED callback \/ callback' = Dead)
  BY <1>1, <1>2 DEF Held, Executed, ComingIds, Coming, ReportedIds, RecordedIds, Recording, Known
<1>3. CASE ServerBatch
  <2>1. UNCHANGED <<dm, reports, callback>>
    BY <1>3 DEF ServerBatch, ProcessBatch, OnCommittedLocationsRequest, executorVars, systemVars
  <2>2. UNCHANGED message_queue \/ message_queue' = Append(message_queue, RequestMessage(server'.request_id))
    BY <1>3 DEF ServerBatch, OnCommittedLocationsRequest, executorVars
  <2>3. RequestMessage(server'.request_id).type # "plan"
    BY DEF RequestMessage
  <2>4. ComingIds' \subseteq ComingIds
    BY <2>2, <2>3, ComingPut DEF ComingIds, Coming
  <2> QED BY <2>1, <2>4 DEF Held, Executed, ReportedIds, RecordedIds, Recording, Known
<1>4. CASE ServerProgress
  <2>1. /\ reports # <<>> /\ reports' = Tail(reports) /\ UNCHANGED <<dm, message_queue>>
        /\ callback' = Idle \/ callback'.plan_id = Head(reports).report.plan_id
    BY <1>4 DEF ServerProgress, OnProgress, executorVars
  <2>2. /\ 1 \in DOMAIN reports /\ Head(reports) = reports[1]
        /\ \A n \in DOMAIN reports' : \E m \in DOMAIN reports : reports'[n] = reports[m]
    BY <2>1, TakenOut DEF KnownReports
  <2>3. ReportedIds' \subseteq ReportedIds /\ RecordedIds' \subseteq ReportedIds
    BY <1>1, <2>1, <2>2 DEF ReportedIds, RecordedIds, Recording
  <2> QED BY <2>1, <2>3 DEF Held, Executed, ComingIds, Coming, Known
<1>5. CASE ServerRecordsEnd
  <2>1. UNCHANGED <<dm, message_queue, reports>>
    BY <1>5 DEF ServerRecordsEnd, executorVars
  <2>2. callback' = Idle \/ (callback'.plan_id = callback.plan_id /\ Recording)
    BY <1>5 DEF ServerRecordsEnd, ScanEnds, Complete, Recording
  <2>3. RecordedIds' \subseteq RecordedIds
    BY <1>1, <2>2 DEF RecordedIds, Recording
  <2> QED BY <2>1, <2>3 DEF Held, Executed, ComingIds, Coming, ReportedIds, Known
<1>6. CASE ExecutorPlan
  <2>1. HandlePlan /\ UNCHANGED <<reports, callback>>
    BY <1>6 DEF ExecutorPlan, serverVars, systemVars
  <2>2. NextMessage("plan") /\ 1 \in DOMAIN message_queue /\ First = message_queue[1] /\ First.type = "plan"
    BY <2>1, FirstIs DEF HandlePlan
  <2>3. First.plan.plan_id \in ComingIds /\ ComingIds' \subseteq ComingIds
    BY <2>2, ComingTaken DEF ComingIds, Coming
  <2>4. /\ Known(dm') = Known(dm) \cup {First.robot}
        /\ dm'.completed_plan_ids = dm.completed_plan_ids
        /\ \A s \in Known(dm') :
             dm'.plan[s].plan_id = IF s = First.robot THEN First.plan.plan_id ELSE dm.plan[s].plan_id
    BY <2>1, PlanHandled
  <2>5. Executed' \subseteq Executed \cup {First.plan.plan_id}
    <3> DEFINE new == {dm'.plan[s].plan_id : s \in Known(dm')}
    <3>1. \A s \in Known(dm') : dm'.plan[s].plan_id \in Executed \cup {First.plan.plan_id}
      BY <2>3, <2>4 DEF Executed
    <3>2. Executed' = dm'.completed_plan_ids \cup new
      BY DEF Executed
    <3> QED BY <2>4, <3>1, <3>2 DEF Executed
  <2> QED BY <1>6, <2>1, <2>3, <2>5 DEF Held, ReportedIds, RecordedIds, Recording
<1>7. CASE ExecutorReached
  <2> DEFINE r == First.robot
             report == [robot |-> r, report |-> ProgressMessage(r, First.index)]
             k == subscriptions["server"][r]
  <2>1. /\ HandleWaypointReached /\ UNCHANGED callback
        /\ NextMessage(Reached)
    BY <1>7 DEF ExecutorReached, HandleWaypointReached, serverVars, Reached
  <2>2. /\ 1 \in DOMAIN message_queue /\ First = message_queue[1] /\ First.type = Reached
        /\ Head(message_queue) = First
    BY <2>1, FirstIs
  <2>3. reports' = reports \o [n \in 1 .. k |-> report]
    BY <1>7, <2>2 DEF ExecutorReached, Delivered
  <2>4. r \in Known(dm) /\ r \in Robots
    BY <2>2 DEF KnownReports, PlansInv, Sound
  <2>5. report.report.plan_id \in Executed
    BY <2>4 DEF ProgressMessage, Executed
  <2>6. k \in Nat
    BY <2>4 DEF PlansInv, AnswersInv, QueuesTyped
  <2>7. IsSequence(reports)
    BY DEF KnownReports
  <2>8. /\ Known(dm') = Known(dm) /\ dm'.plan = dm.plan
        /\ dm'.completed_plan_ids \subseteq dm.completed_plan_ids \cup {dm.plan[r].plan_id}
    BY <2>1, ReachedHandled
  <2> HIDE DEF report, k, r
  <2>9. \A n \in DOMAIN reports' : reports'[n] = report \/ \E m \in DOMAIN reports : reports'[n] = reports[m]
    BY <2>3, <2>6, <2>7, CopiesPutIn
  <2>10. ReportedIds' \subseteq ReportedIds \cup Executed
    BY <2>5, <2>9 DEF ReportedIds
  <2>11. Executed' \subseteq Executed
    BY <2>4, <2>8 DEF Executed
  <2>12. ComingIds' \subseteq ComingIds
    BY <2>1, ComingTaken
  <2> QED BY <2>1, <2>10, <2>11, <2>12 DEF Held, RecordedIds, Recording
<1>8. CASE ExecutorRequest
  <2>1. HandleCommittedLocationsRequest /\ UNCHANGED <<reports, callback>>
        /\ NextMessage(Request)
    BY <1>8 DEF ExecutorRequest, HandleCommittedLocationsRequest, systemVars, Request
  <2>2. /\ Known(dm') = Known(dm) /\ dm'.plan = dm.plan
        /\ dm'.completed_plan_ids = dm.completed_plan_ids
    BY <2>1, CutIsSound DEF HandleCommittedLocationsRequest, PlansInv
  <2>3. ComingIds' \subseteq ComingIds
    BY <2>1, ComingTaken
  <2> QED BY <2>1, <2>2, <2>3 DEF Held, Executed, ReportedIds, RecordedIds, Recording
<1>9. ASSUME NEW r \in Robots, RobotArrives(r)
      PROVE  Held' \subseteq Held /\ Executed' \subseteq Executed
  <2> DEFINE message == ReachedMessage(r, Head(pending[r]).index)
  <2>1. /\ message_queue' = Append(message_queue, message)
        /\ UNCHANGED <<dm, reports, callback>>
    BY <1>9 DEF RobotArrives, Arrive, serverVars, systemVars
  <2>2. message.type # "plan"
    BY DEF ReachedMessage
  <2>3. ComingIds' \subseteq ComingIds
    BY <2>1, <2>2, ComingPut
  <2> QED BY <2>1, <2>3 DEF Held, Executed, ReportedIds, RecordedIds, Recording, Known
<1> QED BY <1>2, <1>3, <1>4, <1>5, <1>6, <1>7, <1>8, <1>9, OtherSteps

\* The plan ids that are given to the batch and not published yet.
Due ==
  IF server.at = "identified" THEN DOMAIN server.tasks
  ELSE IF server.at = "publishing" THEN server.left
  ELSE {}
Issued == Held \cup {server.plan_ids[r] : r \in Due}

\* An id that was given by now, and before the current batch until that batch
\* has its ids.
BeforeIds == server.at \in {"waiting", "solving"}
Counted(id) ==
  /\ DOMAIN id = {"destination_session", "plan_version"}
  /\ id.destination_session[1] \in 0 .. request_counter
  /\ BeforeIds => id.destination_session[1] # request_counter
  /\ id.plan_version \in Nat

SameSession(i, j) == i.destination_session = j.destination_session

IdsCounted ==
  /\ request_counter \in Nat
  /\ \A id \in Issued : Counted(id)
  /\ \A t \in DOMAIN task_plan : Counted(task_plan[t])

OneTaskPerSession ==
  \A t, u \in DOMAIN task_plan : SameSession(task_plan[t], task_plan[u]) => t = u

LastVersions ==
  \A t \in DOMAIN task_plan, id \in Issued :
    SameSession(task_plan[t], id) => id.plan_version <= task_plan[t].plan_version

DueIsNew ==
  /\ \A r \in Due : server.plan_ids[r] \notin Held
  /\ \A r, s \in Due : server.plan_ids[r] = server.plan_ids[s] => r = s

PlansNamed ==
  server.at = "publishing" => \A r \in server.left : server.plans[r].plan_id = server.plan_ids[r]

\* An id is given to one plan only, and to a plan of one task.
IdsInv ==
  /\ IdsCounted
  /\ OneTaskPerSession
  /\ LastVersions
  /\ DueIsNew

\* Steps that give nobody a new id.
CountsOn ==
  \/ request_counter' = request_counter /\ (BeforeIds' => BeforeIds)
  \/ request_counter' = request_counter + 1

TasksStay ==
  DOMAIN task_plan' \subseteq DOMAIN task_plan /\ \A t \in DOMAIN task_plan' : task_plan'[t] = task_plan[t]

DueStays == Due' \subseteq Due /\ \A r \in Due' : server'.plan_ids[r] = server.plan_ids[r]

LEMMA FewerIds ==
  ASSUME IdsInv, CountsOn, TasksStay, DueStays, Issued' \subseteq Issued,
         \A r \in Due' : server.plan_ids[r] \notin Held'
  PROVE  IdsInv'
<1>1. request_counter' \in Nat
  BY DEF CountsOn, IdsInv, IdsCounted
<1>2. ASSUME NEW id, Counted(id)
      PROVE  /\ DOMAIN id = {"destination_session", "plan_version"}
             /\ id.destination_session[1] \in 0 .. request_counter'
             /\ BeforeIds' => id.destination_session[1] # request_counter'
             /\ id.plan_version \in Nat
  BY <1>2 DEF CountsOn, Counted, IdsInv, IdsCounted
<1>3. IdsCounted'
  BY <1>1, <1>2 DEF IdsInv, IdsCounted, Counted, TasksStay
<1>4. OneTaskPerSession'
  BY DEF IdsInv, OneTaskPerSession, TasksStay
<1>5. LastVersions'
  BY DEF IdsInv, LastVersions, TasksStay
<1>6. DueIsNew'
  BY DEF IdsInv, DueIsNew, DueStays
<1> QED BY <1>3, <1>4, <1>5, <1>6 DEF IdsInv

\* The ids of a new batch.
LEMMA NewIds ==
  ASSUME TasksOfOneRobot, TasksAsked, IdsInv, AssignPlanIds, UNCHANGED <<dm, message_queue, reports>>
  PROVE  IdsInv'
<1> DEFINE tasks == server.tasks
           c == request_counter
           T(r) == tasks[r].task_id
           ids == [r \in DOMAIN tasks |-> PlanIdFor(tasks[r], c)]
           Of(t) == CHOOSE r \in DOMAIN tasks : T(r) = t
<1>1. /\ server.at = "solving" /\ server'.at = "identified"
      /\ server'.tasks = tasks /\ server'.plan_ids = ids
      /\ request_counter' = c /\ c \in Nat
      /\ UNCHANGED <<callback, dm, message_queue, reports>>
      /\ task_plan' = [t \in DOMAIN task_plan \cup TaskIdsOf(tasks) |->
                         IF t \in TaskIdsOf(tasks) THEN ids[Of(t)] ELSE task_plan[t]]
  BY DEF AssignPlanIds, IdsInv, IdsCounted
<1>2. Held' = Held /\ Due = {} /\ Due' = DOMAIN tasks /\ Issued = Held
  BY <1>1 DEF Held, Executed, ComingIds, Coming, ReportedIds, RecordedIds, Recording, Known, Due, Issued
<1>3. /\ \A r \in DOMAIN tasks : tasks[r] \in AskedIn(scenario) /\ tasks[r].robot_id = r
      /\ \A r, s \in DOMAIN tasks : T(r) = T(s) => r = s
  BY <1>1 DEF TasksAsked, TasksOfOneRobot, InBatch
<1>4. /\ \A t \in TaskIdsOf(tasks) : Of(t) \in DOMAIN tasks /\ T(Of(t)) = t
      /\ \A r \in DOMAIN tasks : T(r) \in TaskIdsOf(tasks) /\ Of(T(r)) = r
  BY <1>3 DEF TaskIdsOf
<1>5. ASSUME NEW id, id \in Held \/ (\E t \in DOMAIN task_plan : id = task_plan[t])
      PROVE  /\ DOMAIN id = {"destination_session", "plan_version"}
             /\ id.destination_session[1] \in 0 .. c
             /\ id.destination_session[1] # c
             /\ id.plan_version \in Nat
  BY <1>1, <1>2, <1>5 DEF IdsInv, IdsCounted, Counted, BeforeIds
<1>6. ASSUME NEW r \in DOMAIN tasks, T(r) \in DOMAIN task_plan
      PROVE  /\ DOMAIN ids[r] = {"destination_session", "plan_version"}
             /\ ids[r].destination_session = task_plan[T(r)].destination_session
             /\ ids[r].plan_version = task_plan[T(r)].plan_version + 1
             /\ ids[r].destination_session[1] \in 0 .. c
             /\ ids[r].destination_session[1] # c
             /\ ids[r].plan_version \in Nat
  <2>1. ids[r] = [task_plan[T(r)] EXCEPT !.plan_version = @ + 1]
    BY <1>6 DEF PlanIdFor
  <2>2. /\ DOMAIN task_plan[T(r)] = {"destination_session", "plan_version"}
        /\ task_plan[T(r)].destination_session[1] \in 0 .. c
        /\ task_plan[T(r)].destination_session[1] # c
        /\ task_plan[T(r)].plan_version \in Nat
    BY <1>5, <1>6
  <2> QED BY <2>1, <2>2
<1>7. ASSUME NEW r \in DOMAIN tasks, T(r) \notin DOMAIN task_plan
      PROVE  /\ DOMAIN ids[r] = {"destination_session", "plan_version"}
             /\ ids[r].destination_session = <<c, r>>
             /\ ids[r].destination_session[1] = c
             /\ ids[r].plan_version = 0
  BY <1>3, <1>7 DEF PlanIdFor
<1> HIDE DEF ids, T, Of, tasks, c
<1>8. ASSUME NEW r \in DOMAIN tasks, NEW s \in DOMAIN tasks, SameSession(ids[r], ids[s])
      PROVE  r = s
  <2>1. CASE T(r) \in DOMAIN task_plan /\ T(s) \in DOMAIN task_plan
    BY <1>3, <1>6, <1>8, <2>1 DEF SameSession, IdsInv, OneTaskPerSession
  <2>2. CASE T(r) \notin DOMAIN task_plan /\ T(s) \notin DOMAIN task_plan
    <3>1. <<c, r>> = <<c, s>>
      BY <1>7, <1>8, <2>2 DEF SameSession
    <3> QED BY <3>1
  <2>3. CASE T(r) \in DOMAIN task_plan /\ T(s) \notin DOMAIN task_plan
    BY <1>6, <1>7, <1>8, <2>3 DEF SameSession
  <2>4. CASE T(r) \notin DOMAIN task_plan /\ T(s) \in DOMAIN task_plan
    BY <1>6, <1>7, <1>8, <2>4 DEF SameSession
  <2> QED BY <2>1, <2>2, <2>3, <2>4
<1>9. ASSUME NEW r \in DOMAIN tasks, NEW t \in DOMAIN task_plan, SameSession(ids[r], task_plan[t])
      PROVE  T(r) = t
  <2>1. CASE T(r) \in DOMAIN task_plan
    BY <1>6, <1>9, <2>1 DEF SameSession, IdsInv, OneTaskPerSession
  <2>2. CASE T(r) \notin DOMAIN task_plan
    BY <1>5, <1>7, <1>9, <2>2 DEF SameSession
  <2> QED BY <2>1, <2>2
<1>10. ASSUME NEW r \in DOMAIN tasks, NEW id \in Held, SameSession(ids[r], id)
       PROVE  T(r) \in DOMAIN task_plan /\ id.plan_version < ids[r].plan_version
  <2>1. CASE T(r) \in DOMAIN task_plan
    <3>1. SameSession(task_plan[T(r)], id)
      BY <1>6, <1>10, <2>1 DEF SameSession
    <3>2. id.plan_version <= task_plan[T(r)].plan_version
      BY <1>2, <2>1, <3>1 DEF IdsInv, LastVersions
    <3>3. id.plan_version \in Nat /\ task_plan[T(r)].plan_version \in Nat
      BY <1>5, <2>1
    <3>4. ids[r].plan_version = task_plan[T(r)].plan_version + 1
      BY <1>6, <2>1
    <3> QED BY <2>1, <3>2, <3>3, <3>4
  <2>2. CASE T(r) \notin DOMAIN task_plan
    BY <1>5, <1>7, <1>10, <2>2 DEF SameSession
  <2> QED BY <2>1, <2>2
<1>11. ASSUME NEW t \in DOMAIN task_plan'
       PROVE  \/ \E r \in DOMAIN tasks : T(r) = t /\ task_plan'[t] = ids[r]
              \/ /\ t \in DOMAIN task_plan /\ task_plan'[t] = task_plan[t]
                 /\ \A r \in DOMAIN tasks : T(r) # t
  BY <1>1, <1>4
<1>12. ASSUME NEW id, id \in Issued' \/ \E t \in DOMAIN task_plan' : id = task_plan'[t]
       PROVE  /\ DOMAIN id = {"destination_session", "plan_version"}
              /\ id.destination_session[1] \in 0 .. c
              /\ id.plan_version \in Nat
  <2>1. id \in Held \/ (\E t \in DOMAIN task_plan : id = task_plan[t]) \/ \E r \in DOMAIN tasks : id = ids[r]
    BY <1>1, <1>2, <1>11, <1>12 DEF Issued
  <2>2. ASSUME NEW r \in DOMAIN tasks, id = ids[r]
        PROVE  /\ DOMAIN id = {"destination_session", "plan_version"}
               /\ id.destination_session[1] \in 0 .. c
               /\ id.plan_version \in Nat
    <3>1. c \in 0 .. c
      BY <1>1
    <3> QED BY <1>6, <1>7, <2>2, <3>1
  <2> QED BY <1>5, <2>1, <2>2
<1>13. IdsCounted'
  <2>1. ~BeforeIds' /\ request_counter' = c
    BY <1>1 DEF BeforeIds
  <2> QED BY <1>1, <1>12, <2>1 DEF IdsCounted, Counted
<1>14. OneTaskPerSession'
  <2> SUFFICES ASSUME NEW t \in DOMAIN task_plan', NEW u \in DOMAIN task_plan',
                      SameSession(task_plan'[t], task_plan'[u])
               PROVE  t = u
    BY DEF OneTaskPerSession, SameSession
  <2>1. SameSession(task_plan'[u], task_plan'[t])
    BY DEF SameSession
  <2> QED BY <1>8, <1>9, <1>11, <2>1 DEF IdsInv, OneTaskPerSession
<1>15. LastVersions'
  <2> SUFFICES ASSUME NEW t \in DOMAIN task_plan', NEW id \in Issued', SameSession(task_plan'[t], id)
               PROVE  id.plan_version <= task_plan'[t].plan_version
    BY DEF LastVersions, SameSession
  <2>1. id \in Held \/ \E r \in DOMAIN tasks : id = ids[r]
    BY <1>1, <1>2 DEF Issued
  <2>2. ASSUME NEW r \in DOMAIN tasks, T(r) = t, task_plan'[t] = ids[r], id \in Held
        PROVE  id.plan_version <= task_plan'[t].plan_version
    <3>1. id.plan_version < ids[r].plan_version
      BY <1>10, <2>2
    <3>2. id.plan_version \in Nat /\ task_plan'[t].plan_version \in Nat
      BY <1>12
    <3> QED BY <2>2, <3>1, <3>2
  <2>3. ASSUME NEW r \in DOMAIN tasks, task_plan'[t] = ids[r], NEW s \in DOMAIN tasks, id = ids[s]
        PROVE  id.plan_version <= task_plan'[t].plan_version
    <3>1. r = s
      BY <1>8, <2>3
    <3>2. task_plan'[t].plan_version \in Nat
      BY <1>12
    <3> QED BY <2>3, <3>1, <3>2
  <2>4. ASSUME t \in DOMAIN task_plan, task_plan'[t] = task_plan[t], id \in Held
        PROVE  id.plan_version <= task_plan'[t].plan_version
    BY <1>2, <2>4 DEF IdsInv, LastVersions
  <2>5. ASSUME t \in DOMAIN task_plan, task_plan'[t] = task_plan[t], \A r \in DOMAIN tasks : T(r) # t,
               NEW s \in DOMAIN tasks, id = ids[s]
        PROVE  FALSE
    <3>1. SameSession(ids[s], task_plan[t])
      BY <2>5 DEF SameSession
    <3> QED BY <1>9, <2>5, <3>1
  <2> QED BY <1>11, <2>1, <2>2, <2>3, <2>4, <2>5
<1>16. DueIsNew'
  <2>1. \A r \in DOMAIN tasks : ids[r] \notin Held
    <3> SUFFICES ASSUME NEW r \in DOMAIN tasks, ids[r] \in Held PROVE FALSE
      OBVIOUS
    <3>1. SameSession(ids[r], ids[r])
      BY DEF SameSession
    <3>2. ids[r].plan_version < ids[r].plan_version /\ ids[r].plan_version \in Nat
      BY <1>5, <1>10, <3>1
    <3> QED BY <3>2
  <2>2. \A r, s \in DOMAIN tasks : ids[r] = ids[s] => r = s
    BY <1>8 DEF SameSession
  <2> QED BY <1>1, <1>2, <2>1, <2>2 DEF DueIsNew
<1> QED BY <1>13, <1>14, <1>15, <1>16 DEF IdsInv

\* What the server does to counter, ids and plans.
LEMMA ServerSteps ==
  ASSUME [Next]_vars
  PROVE  \/ UNCHANGED <<server, request_counter>>
         \/ server' \in {Idle, Dead} /\ UNCHANGED request_counter
         \/ ProcessBatch \/ TakeResponse \/ AssignPlanIds \/ Solve \/ SupersedeTasks
         \/ \E r \in Robots : ServerPublish(r)
<1>1. CASE Client
  BY <1>1 DEF Client, SendTasks, OnboardAtServer, OnboardAtExecutor, Discovery,
              OnTaskRequests, AddRobot, serverVars
<1>2. CASE ServerBatch \/ ServerInternal \/ ServerTimeout
  BY <1>2 DEF ServerBatch, ServerInternal, ServerTimeout, WaitTimesOut, BatchFails, RecordBatch
<1>3. CASE ServerCallback
  BY <1>3 DEF ServerCallback, ServerProgress, ServerRecordsEnd, ServerScanFails, OnProgress,
              ScanEnds, Complete, ScanFails
<1>4. CASE ExecutorWorker
  BY <1>4 DEF ExecutorWorker, ExecutorPlan, ExecutorReached, ExecutorRequest, serverVars
<1>5. CASE \E r \in Robots : RobotArrives(r)
  BY <1>5 DEF RobotArrives, serverVars
<1>6. CASE UNCHANGED vars
  BY <1>6 DEF vars, serverVars
<1> QED BY <1>1, <1>2, <1>3, <1>4, <1>5, <1>6 DEF Next, ServerWorker

\* A solution becomes plans with the ids of their robots.
LEMMA SolutionIsNamed ==
  ASSUME SolverReturnsPaths, PlansInv, Solve, server'.at = "publishing"
  PROVE  /\ UNCHANGED request_counter /\ server'.plan_ids = server.plan_ids
         /\ server'.left \subseteq DOMAIN server.tasks /\ server.at = "identified"
         /\ \A r \in server'.left : server'.plans[r].plan_id = server'.plan_ids[r]
<1> DEFINE Offsets(paths) == [r \in DOMAIN paths |-> OffsetOf(server.committed, r)]
           Plans(paths) == Generate(paths, server.plan_ids, Offsets(paths))
<1>1. PICK paths \in Solutions(server.tasks, server.committed, server.stationary) :
        /\ {r \in DOMAIN paths : Len(paths[r]) > 1} \subseteq DOMAIN server.tasks
        /\ server'.plans = Plans(paths) /\ server'.left = DOMAIN Plans(paths)
        /\ server'.plan_ids = server.plan_ids
  <2>1. Idle.at # "publishing" /\ Dead.at # "publishing"
    BY DEF Idle, Dead
  <2>2. PICK paths \in Solutions(server.tasks, server.committed, server.stationary) :
          /\ {r \in DOMAIN paths : Len(paths[r]) > 1} \subseteq DOMAIN server.tasks
          /\ server' = [ at |-> "publishing", tasks |-> server.tasks,
                         committed |-> server.committed, plan_ids |-> server.plan_ids,
                         plans |-> Plans(paths), left |-> DOMAIN Plans(paths) ]
    BY <2>1 DEF Solve, BatchFails
  <2> QED BY <2>2
<1>2. \A r \in DOMAIN paths : IsSequence(paths[r]) /\ paths[r] # <<>>
  BY DEF Solutions, SolverReturnsPaths
<1>3. Located(server.committed)
  BY DEF Solve, PlansInv, AnswersLocated
<1> DEFINE offset == Offsets(paths)
           ids == server.plan_ids
           plans == Generate(paths, ids, offset)
<1>4. \A r \in DOMAIN paths : offset[r] \in Int
  BY <1>3 DEF Located, OffsetOf
<1> HIDE DEF Offsets, offset, ids
<1>5. /\ DOMAIN plans = {r \in DOMAIN paths : Len(paths[r]) > 1}
      /\ \A r \in DOMAIN plans : PlanOf(plans[r], ids[r], paths[r], offset[r])
  <2>1. \A r \in DOMAIN paths : IsSequence(paths[r]) /\ paths[r] # <<>> /\ offset[r] \in Int
    BY <1>2, <1>4
  <2> HIDE DEF plans
  <2>2. plans = Generate(paths, ids, offset)
    BY DEF plans
  <2> QED BY <2>1, <2>2, PlansOfPaths
<1>6. \A r \in DOMAIN plans : plans[r].plan_id = ids[r]
  BY <1>5 DEF PlanOf
<1>8. /\ server'.plans = plans /\ server'.left = DOMAIN plans
      /\ server'.plan_ids = ids
  BY <1>1 DEF offset, ids
<1> HIDE DEF plans
<1>7. UNCHANGED request_counter /\ server.at = "identified"
  BY DEF Solve
<1> QED BY <1>1, <1>5, <1>6, <1>7, <1>8 DEF ids

LEMMA NamedKept ==
  ASSUME SolverReturnsPaths, PlansInv, PlansNamed, [Next]_vars
  PROVE  PlansNamed'
<1>1. CASE UNCHANGED server \/ server' \in {Idle, Dead}
  BY <1>1 DEF PlansNamed, Idle, Dead
<1>2. CASE ProcessBatch \/ TakeResponse \/ AssignPlanIds
  BY <1>2 DEF PlansNamed, ProcessBatch, TakeResponse, AssignPlanIds, Idle
<1>3. CASE Solve
  BY <1>3, SolutionIsNamed DEF PlansNamed
<1>4. CASE SupersedeTasks
  BY <1>4 DEF SupersedeTasks, PlansNamed, PlansInv, ServerFields, PublishingFields
<1>5. CASE \E r \in Robots : ServerPublish(r)
  BY <1>5 DEF ServerPublish, PublishPlan, PlansNamed, PlansInv, ServerFields, PublishingFields
<1> QED BY <1>1, <1>2, <1>3, <1>4, <1>5, ServerSteps

\* The ids that are given out but for those of a new batch.
LEMMA DueKept ==
  ASSUME SolverReturnsPaths, PlansInv, IdsInv, [Next]_vars, ~AssignPlanIds
  PROVE  DueStays /\ CountsOn
<1>1. Idle.at = "idle" /\ Dead.at = "dead"
  BY DEF Idle, Dead
<1>2. CASE UNCHANGED <<server, request_counter>>
  BY <1>2 DEF DueStays, CountsOn, Due, BeforeIds
<1>3. CASE server' \in {Idle, Dead} /\ UNCHANGED request_counter
  BY <1>1, <1>3 DEF DueStays, CountsOn, Due, BeforeIds
<1>4. CASE ProcessBatch
  <2>1. server.at = "idle" /\ \/ UNCHANGED <<server, request_counter>>
                              \/ server'.at = "waiting" /\ request_counter' = request_counter + 1
    BY <1>1, <1>4 DEF ProcessBatch
  <2> QED BY <1>2, <2>1 DEF DueStays, CountsOn, Due
<1>5. CASE TakeResponse
  <2>1. server.at = "waiting" /\ UNCHANGED request_counter
        /\ (UNCHANGED server \/ server'.at = "solving")
    BY <1>5 DEF TakeResponse
  <2> QED BY <1>2, <2>1 DEF DueStays, CountsOn, Due, BeforeIds
<1>6. CASE Solve
  <2>1. UNCHANGED request_counter /\ (server' \in {Idle, Dead} \/ server'.at = "publishing")
    <3>1. \/ server' = Idle
          \/ server' = Dead
          \/ \E a, b, c, d, e :
               server' = [ at |-> "publishing", tasks |-> a, committed |-> b, plan_ids |-> c,
                           plans |-> d, left |-> e ]
      BY <1>6 DEF Solve, BatchFails
    <3> QED BY <1>6, <3>1 DEF Solve
  <2>2. CASE server'.at = "publishing"
    <3>1. /\ UNCHANGED request_counter /\ server'.plan_ids = server.plan_ids
          /\ server'.left \subseteq DOMAIN server.tasks /\ server.at = "identified"
      BY <1>6, <2>2, SolutionIsNamed
    <3> QED BY <2>2, <3>1 DEF DueStays, CountsOn, Due, BeforeIds
  <2> QED BY <1>3, <2>1, <2>2
<1>7. CASE SupersedeTasks
  <2>1. server.at = "publishing" /\ server'.at = "recording" /\ UNCHANGED request_counter
    BY <1>7 DEF SupersedeTasks, PlansInv, ServerFields, PublishingFields
  <2> QED BY <2>1 DEF DueStays, CountsOn, Due, BeforeIds
<1>8. ASSUME NEW r \in Robots, ServerPublish(r) PROVE DueStays /\ CountsOn
  <2>1. /\ server.at = "publishing" /\ server'.at = "publishing" /\ UNCHANGED request_counter
        /\ server'.left = server.left \ {r} /\ server'.plan_ids = server.plan_ids
    BY <1>8 DEF ServerPublish, PublishPlan, PlansInv, ServerFields, PublishingFields
  <2> QED BY <2>1 DEF DueStays, CountsOn, Due, BeforeIds
<1> QED BY <1>2, <1>3, <1>4, <1>5, <1>6, <1>7, <1>8, ServerSteps

\* A task that has ended is forgotten.
LEMMA TasksForgotten ==
  ASSUME [Next]_vars, ~AssignPlanIds
  PROVE  TasksStay
<1>1. CASE ScanEnds
  <2>1. PICK done : task_plan' = [t \in DOMAIN task_plan \ done |-> task_plan[t]]
    BY <1>1 DEF ScanEnds
  <2> QED BY <2>1 DEF TasksStay
<1>2. UNCHANGED task_plan \/ ScanEnds
  <2>1. CASE Client
    BY <2>1 DEF Client, SendTasks, OnboardAtServer, OnboardAtExecutor, Discovery,
                OnTaskRequests, AddRobot, serverVars
  <2>2. CASE ServerWorker \/ ServerTimeout
    BY <2>2 DEF ServerWorker, ServerBatch, ServerInternal, ServerPublish, ServerTimeout,
                WaitTimesOut, ProcessBatch, TakeResponse, Solve, PublishPlan, SupersedeTasks,
                RecordBatch
  <2>3. CASE ServerCallback
    BY <2>3 DEF ServerCallback, ServerProgress, ServerRecordsEnd, ServerScanFails, OnProgress,
                Complete, ScanFails
  <2>4. CASE ExecutorWorker
    BY <2>4 DEF ExecutorWorker, ExecutorPlan, ExecutorReached, ExecutorRequest, serverVars
  <2>5. CASE \E r \in Robots : RobotArrives(r)
    BY <2>5 DEF RobotArrives, serverVars
  <2>6. CASE UNCHANGED vars
    BY <2>6 DEF vars, serverVars
  <2> QED BY <2>1, <2>2, <2>3, <2>4, <2>5, <2>6 DEF Next
<1> QED BY <1>1, <1>2 DEF TasksStay

\* A published plan is held, by its id.
LEMMA HeldPublished ==
  ASSUME PlansInv, PlansNamed, NEW r \in Robots, ServerPublish(r)
  PROVE  /\ r \in Due /\ Due' = Due \ {r} /\ server'.plan_ids = server.plan_ids
         /\ Held' \subseteq Held \cup {server.plan_ids[r]}
         /\ Executed' = Executed
<1> DEFINE message == PlanMessage(r, Carried(server.plans[r]))
           k == subscriptions["executor"][r]
<1>1. /\ message_queue' = message_queue \o [n \in 1 .. k |-> message]
      /\ UNCHANGED <<dm, reports, callback>>
      /\ server.at = "publishing" /\ r \in server.left
      /\ server'.at = "publishing" /\ server'.left = server.left \ {r}
      /\ server'.plan_ids = server.plan_ids
  BY DEF ServerPublish, PublishPlan, Delivered, systemVars, PlansInv, ServerFields, PublishingFields
<1>2. k \in Nat /\ IsSequence(message_queue)
  BY DEF PlansInv, AnswersInv, QueuesTyped
<1>3. WellFormed(server.plans[r]) /\ server.plans[r].plan_id = server.plan_ids[r]
  BY <1>1 DEF PlansInv, PlansLeaving, PlansNamed
<1>4. message.plan.plan_id = server.plan_ids[r]
  BY <1>3, CarriedIs DEF PlanMessage
<1> HIDE DEF message, k
<1>5. \A n \in DOMAIN message_queue' :
        message_queue'[n] = message \/ \E m \in DOMAIN message_queue : message_queue'[n] = message_queue[m]
  BY <1>1, <1>2, CopiesPutIn
<1>6. ComingIds' \subseteq ComingIds \cup {server.plan_ids[r]}
  BY <1>4, <1>5 DEF ComingIds, Coming
<1>7. Executed' = Executed /\ ReportedIds' = ReportedIds /\ RecordedIds' = RecordedIds
  BY <1>1 DEF Executed, ReportedIds, RecordedIds, Recording, Known
<1>8. Due = server.left /\ Due' = server'.left
  BY <1>1 DEF Due
<1> QED BY <1>1, <1>6, <1>7, <1>8 DEF Held

LEMMA IdsKept ==
  ASSUME SolverReturnsPaths, TasksOfOneRobot, PlansInv, TasksAsked, KnownReports, PlansNamed,
         IdsInv, [Next]_vars
  PROVE  IdsInv'
<1>1. CASE AssignPlanIds
  <2>1. CASE UNCHANGED <<dm, message_queue, reports>>
    BY <1>1, <2>1, NewIds
  <2>2. UNCHANGED <<dm, message_queue, reports>>
    <3>1. server.at = "solving" /\ server'.at = "identified"
      BY <1>1 DEF AssignPlanIds
    <3>2. CASE ServerInternal
      BY <3>2 DEF ServerInternal, executorVars, systemVars
    <3>3. ~Client /\ ~ServerTimeout /\ ~ServerCallback /\ ~ExecutorWorker
          /\ ~(\E r \in Robots : RobotArrives(r)) /\ ~UNCHANGED vars
      <4>1. server' # server /\ server' # Dead
        BY <3>1 DEF Dead
      <4> QED BY <3>1, <4>1 DEF Client, SendTasks, OnboardAtServer, OnboardAtExecutor, Discovery,
                OnTaskRequests, AddRobot, serverVars, ServerTimeout, WaitTimesOut,
                ServerCallback, ServerProgress, ServerRecordsEnd, ServerScanFails, OnProgress,
                ScanEnds, Complete, ScanFails, ExecutorWorker, ExecutorPlan, ExecutorReached,
                ExecutorRequest, RobotArrives, vars
    <3>4. ~ServerBatch /\ ~\E r \in Robots : ServerPublish(r)
      BY <3>1 DEF ServerBatch, ProcessBatch, ServerPublish, PublishPlan, Idle
    <3> QED BY <3>2, <3>3, <3>4 DEF Next, ServerWorker
  <2> QED BY <2>1, <2>2
<1>2. CASE ~AssignPlanIds
  <2>1. DueStays /\ CountsOn /\ TasksStay
    BY <1>2, DueKept, TasksForgotten
  <2>2. CASE \E r \in Robots : ServerPublish(r)
    <3>1. PICK r \in Robots : ServerPublish(r)
      BY <2>2
    <3>2. /\ r \in Due /\ Due' = Due \ {r} /\ server'.plan_ids = server.plan_ids
          /\ Held' \subseteq Held \cup {server.plan_ids[r]}
      BY <3>1, HeldPublished
    <3>3. Issued' \subseteq Issued
      BY <3>2 DEF Issued
    <3>4. \A s \in Due' : server.plan_ids[s] \notin Held'
      BY <3>2 DEF IdsInv, DueIsNew
    <3> QED BY <2>1, <3>3, <3>4, FewerIds
  <2>3. CASE ~\E r \in Robots : ServerPublish(r)
    <3>1. Held' \subseteq Held
      BY <2>3, HeldKept
    <3>2. Issued' \subseteq Issued
      BY <2>1, <3>1 DEF Issued, DueStays
    <3>3. \A s \in Due' : server.plan_ids[s] \notin Held'
      BY <2>1, <3>1 DEF IdsInv, DueIsNew, DueStays
    <3> QED BY <2>1, <3>2, <3>3, FewerIds
  <2> QED BY <2>2, <2>3
<1> QED BY <1>1, <1>2

\* A message is delivered at most once, unless the transport delivers it to
\* several subscriptions.
DeliveredOnce == \A r \in Robots : subscriptions["executor"][r] <= 1

LEMMA DeliveredOnceKept ==
  ASSUME ~Ros, PlansInv, DeliveredOnce, [Next]_vars
  PROVE  DeliveredOnce'
<1>1. subscriptions \in [{"server", "executor"} -> [Robots -> Nat]]
  BY DEF PlansInv, AnswersInv, QueuesTyped
<1>2. CASE UNCHANGED subscriptions
  BY <1>2 DEF DeliveredOnce
<1>3. ASSUME NEW side, NEW rs, Subscribe(side, rs) PROVE DeliveredOnce'
  <2> DEFINE New(f) == [r \in Robots |-> IF r \notin rs THEN f[r] ELSE 1]
  <2>1. subscriptions' = [subscriptions EXCEPT ![side] = New(subscriptions[side])]
    BY <1>3 DEF Subscribe
  <2>2. \A r \in Robots : New(subscriptions["executor"])[r] <= 1
    BY DEF DeliveredOnce
  <2> HIDE DEF New
  <2> QED BY <1>1, <2>1, <2>2 DEF DeliveredOnce
<1>4. UNCHANGED subscriptions \/ \E side, rs : Subscribe(side, rs)
  <2>1. CASE Client
    BY <2>1 DEF Client, SendTasks, OnboardAtServer, OnboardAtExecutor, Discovery, Onboard, Discover,
                transportVars
  <2>2. CASE ServerWorker \/ ServerTimeout \/ ServerCallback
    BY <2>2 DEF ServerWorker, ServerBatch, ServerInternal, ServerPublish, ServerTimeout,
                ServerCallback, ServerProgress, ServerRecordsEnd, ServerScanFails, transportVars
  <2>3. CASE ExecutorWorker \/ \E r \in Robots : RobotArrives(r)
    BY <2>3 DEF ExecutorWorker, ExecutorPlan, ExecutorReached, ExecutorRequest, RobotArrives,
                transportVars
  <2>4. CASE UNCHANGED vars
    BY <2>4 DEF vars, transportVars
  <2> QED BY <2>1, <2>2, <2>3, <2>4 DEF Next
<1> QED BY <1>2, <1>3, <1>4

\* What a step does to the queue of the executor.
LEMMA QueueSteps ==
  ASSUME [Next]_vars
  PROVE  \/ UNCHANGED message_queue
         \/ \E message : message.type # "plan" /\ message_queue' = Append(message_queue, message)
         \/ message_queue # <<>> /\ message_queue' = Tail(message_queue)
         \/ \E r \in Robots : ServerPublish(r)
<1>1. CASE UNCHANGED message_queue
  BY <1>1
<1>2. CASE ServerBatch
  <2>1. UNCHANGED message_queue \/ message_queue' = Append(message_queue, RequestMessage(server'.request_id))
    BY <1>2 DEF ServerBatch, OnCommittedLocationsRequest, executorVars
  <2>2. RequestMessage(server'.request_id).type # "plan"
    BY DEF RequestMessage
  <2> QED BY <2>1, <2>2
<1>3. CASE ExecutorWorker
  BY <1>3 DEF ExecutorWorker, ExecutorPlan, ExecutorReached, ExecutorRequest, HandlePlan,
              HandleWaypointReached, HandleCommittedLocationsRequest, NextMessage
<1>4. CASE \E r \in Robots : RobotArrives(r)
  <2>1. PICK r \in Robots : RobotArrives(r)
    BY <1>4
  <2>2. message_queue' = Append(message_queue, ReachedMessage(r, Head(pending[r]).index))
    BY <2>1 DEF RobotArrives, Arrive
  <2>3. ReachedMessage(r, Head(pending[r]).index).type # "plan"
    BY DEF ReachedMessage
  <2> QED BY <2>2, <2>3
<1>5. CASE ServerProgress \/ ServerRecordsEnd
  BY <1>5 DEF ServerProgress, ServerRecordsEnd, executorVars
<1> QED BY <1>1, <1>2, <1>3, <1>4, <1>5, OtherSteps DEF ExecutorWorker

\* An id is on its way once, and new to the executor.
ComeOnce ==
  /\ \A n, m \in Coming : message_queue[n].plan.plan_id = message_queue[m].plan.plan_id => n = m
  /\ ComingIds \cap Executed = {}

LEMMA ComeOnceKept ==
  ASSUME PlansInv, KnownReports, PlansNamed, IdsInv, DeliveredOnce, ComeOnce, [Next]_vars
  PROVE  ComeOnce'
<1> DEFINE q == message_queue
           Id(n) == q[n].plan.plan_id
<1>1. /\ IsSequence(q) /\ Len(q) \in Nat /\ DOMAIN q = 1 .. Len(q)
      /\ subscriptions \in [{"server", "executor"} -> [Robots -> Nat]]
  BY LenProperties DEF PlansInv, AnswersInv, QueuesTyped, IsSequence
<1>2. CASE \E r \in Robots : ServerPublish(r)
  <2>1. PICK r \in Robots : ServerPublish(r)
    BY <1>2
  <2> DEFINE message == PlanMessage(r, Carried(server.plans[r]))
             k == subscriptions["executor"][r]
             copies == [n \in 1 .. k |-> message]
  <2>2. q' = q \o copies /\ k \in 0 .. 1
    BY <1>1, <2>1 DEF ServerPublish, Delivered, DeliveredOnce
  <2>3. server.at = "publishing" /\ r \in server.left
    BY <2>1 DEF ServerPublish, PublishPlan
  <2>4. message.plan.plan_id = server.plan_ids[r]
    <3>1. WellFormed(server.plans[r]) /\ server.plans[r].plan_id = server.plan_ids[r]
      BY <2>3 DEF PlansInv, PlansLeaving, PlansNamed
    <3> QED BY <3>1, CarriedIs DEF PlanMessage
  <2>5. server.plan_ids[r] \notin Held /\ Executed' = Executed
    BY <2>1, HeldPublished DEF IdsInv, DueIsNew
  <2>6. k \in Nat /\ IsSequence(copies) /\ Len(copies) = k /\ \A n \in DOMAIN copies : copies[n] = message
    <3>1. k \in Nat
      BY <2>2
    <3> HIDE DEF k, message
    <3>2. IsSequence(copies) /\ Len(copies) = k /\ \A n \in DOMAIN copies : copies[n] = message
      BY <3>1, CopiesAre
    <3> QED BY <3>1, <3>2
  <2> HIDE DEF message, k, copies
  <2>7. /\ DOMAIN q' = 1 .. Len(q) + k
        /\ \A n \in 1 .. Len(q) + k : q'[n] = IF n <= Len(q) THEN q[n] ELSE copies[n - Len(q)]
    BY <1>1, <2>2, <2>6, JoinedIs
  <2>8. ASSUME NEW n \in DOMAIN q'
        PROVE  (n \in DOMAIN q /\ q'[n] = q[n]) \/ (n = Len(q) + 1 /\ q'[n] = message)
    <3>1. CASE n <= Len(q)
      BY <1>1, <2>7, <3>1
    <3>2. CASE ~(n <= Len(q))
      <4>1. k = 1 /\ n = Len(q) + 1 /\ n - Len(q) = 1
        BY <1>1, <2>2, <2>7, <3>2
      <4>2. 1 \in DOMAIN copies
        BY <2>6, <4>1, LenProperties DEF IsSequence
      <4> QED BY <2>6, <2>7, <3>2, <4>1, <4>2
    <3> QED BY <3>1, <3>2
  <2>9. \A n \in Coming : Id(n) \in ComingIds /\ Id(n) # server.plan_ids[r]
    BY <2>5 DEF Held, ComingIds
  <2>10. ASSUME NEW n \in Coming', NEW m \in Coming',
                message_queue'[n].plan.plan_id = message_queue'[m].plan.plan_id
         PROVE  n = m
    BY <2>4, <2>8, <2>9, <2>10 DEF Coming, ComeOnce
  <2>11. ComingIds' \subseteq ComingIds \cup {server.plan_ids[r]}
    BY <2>4, <2>8 DEF Coming, ComingIds
  <2>12. server.plan_ids[r] \notin Executed
    BY <2>5 DEF Held
  <2> QED BY <2>5, <2>10, <2>11, <2>12 DEF ComeOnce
<1>3. CASE ~\E r \in Robots : ServerPublish(r)
  <2>1. Executed' \subseteq Executed \/ (ExecutorPlan /\ Executed' \subseteq Executed \cup {First.plan.plan_id})
    BY <1>3, HeldKept
  <2>2. CASE UNCHANGED q \/ \E message : message.type # "plan" /\ q' = Append(q, message)
    <3>1. ASSUME NEW n \in Coming' PROVE n \in Coming /\ message_queue'[n] = message_queue[n]
      <4>1. CASE UNCHANGED q
        BY <4>1 DEF Coming
      <4>2. ASSUME NEW message, message.type # "plan", q' = Append(q, message)
            PROVE  n \in Coming /\ message_queue'[n] = message_queue[n]
        <5>1. /\ DOMAIN q' = 1 .. Len(q) + 1
              /\ \A i \in 1 .. Len(q) + 1 : q'[i] = IF i <= Len(q) THEN q[i] ELSE message
          BY <1>1, <4>2, AppendedIs
        <5> QED BY <1>1, <4>2, <5>1 DEF Coming
      <4> QED BY <2>2, <4>1, <4>2
    <3>2. ~ExecutorPlan
      <4>1. CASE UNCHANGED q
        <5> SUFFICES ASSUME ExecutorPlan PROVE FALSE
          OBVIOUS
        <5>1. q # <<>> /\ q' = Tail(q)
          BY DEF ExecutorPlan, HandlePlan, NextMessage
        <5> QED BY <1>1, <4>1, <5>1, TailIs
      <4>2. ASSUME NEW message, q' = Append(q, message), ExecutorPlan PROVE FALSE
        <5>1. q # <<>> /\ q' = Tail(q)
          BY <4>2 DEF ExecutorPlan, HandlePlan, NextMessage
        <5>2. DOMAIN q' = 1 .. Len(q) - 1 /\ DOMAIN q' = 1 .. Len(q) + 1 /\ Len(q) \in Nat
          BY <1>1, <4>2, <5>1, TailIs, AppendedIs
        <5>3. Len(q) + 1 \in 1 .. Len(q) + 1 /\ Len(q) + 1 \notin 1 .. Len(q) - 1
          BY <1>1
        <5> QED BY <5>2, <5>3
      <4> QED BY <2>2, <4>1, <4>2
    <3>3. ComingIds' \subseteq ComingIds
      BY <3>1 DEF ComingIds
    <3> QED BY <2>1, <3>1, <3>2, <3>3 DEF ComeOnce
  <2>3. CASE q # <<>> /\ q' = Tail(q)
    <3>1. /\ Len(q) \in Nat \ {0} /\ DOMAIN q' = 1 .. Len(q) - 1
          /\ \A n \in 1 .. Len(q) - 1 : q'[n] = q[n + 1]
      BY <1>1, <2>3, TailIs
    <3>2. ASSUME NEW n \in Coming'
          PROVE  /\ n + 1 \in Coming /\ message_queue'[n] = message_queue[n + 1]
                 /\ n \in Int /\ n + 1 # 1
      <4>1. n \in 1 .. Len(q) - 1
        BY <3>1 DEF Coming
      <4>2. n + 1 \in 1 .. Len(q) /\ n + 1 # 1
        BY <3>1, <4>1
      <4> QED BY <1>1, <3>1, <4>1, <4>2 DEF Coming
    <3>3. ASSUME NEW n \in Coming', NEW m \in Coming',
                 message_queue'[n].plan.plan_id = message_queue'[m].plan.plan_id
          PROVE  n = m
      <4>1. n + 1 = m + 1
        BY <3>2, <3>3 DEF ComeOnce
      <4> QED BY <3>2, <4>1
    <3>4. ComingIds' \subseteq ComingIds
      BY <3>2 DEF ComingIds
    <3>5. CASE ExecutorPlan
      <4>1. 1 \in Coming /\ First = message_queue[1]
        BY <3>5, FirstIs DEF ExecutorPlan, HandlePlan, Coming
      <4>2. First.plan.plan_id \notin ComingIds'
        <5> SUFFICES ASSUME NEW n \in Coming', message_queue'[n].plan.plan_id = First.plan.plan_id
                     PROVE  FALSE
          BY DEF ComingIds
        <5> QED BY <3>2, <4>1 DEF ComeOnce
      <4> QED BY <2>1, <3>3, <3>4, <4>2 DEF ComeOnce
    <3> QED BY <2>1, <3>3, <3>4, <3>5 DEF ComeOnce
  <2> QED BY <1>3, <2>2, <2>3, QueueSteps
<1> QED BY <1>2, <1>3

FreshInv ==
  /\ PlansInv
  /\ TasksAsked
  /\ KnownReports
  /\ PlansNamed
  /\ IdsInv
  /\ DeliveredOnce
  /\ ComeOnce

LEMMA FreshInvHolds ==
  ASSUME SolverReturnsPaths, TasksOfOneRobot, ~Ros
  PROVE  Spec => []FreshInv
<1>1. Init => TasksAsked /\ KnownReports /\ PlansNamed /\ IdsInv /\ DeliveredOnce /\ ComeOnce
  <2> SUFFICES ASSUME Init
               PROVE  TasksAsked /\ KnownReports /\ PlansNamed /\ IdsInv /\ DeliveredOnce /\ ComeOnce
    OBVIOUS
  <2>1. /\ message_queue = <<>> /\ reports = <<>> /\ task_request_queue = <<>> /\ server = Idle
        /\ callback = Idle /\ dm = EmptyManager /\ task_plan = <<>> /\ request_counter = 0
        /\ scenario \in Scenarios /\ sent = 0 /\ pending = [r \in Robots |-> <<>>]
        /\ subscriptions = [side \in {"server", "executor"} |-> [r \in Robots |-> 0]]
    BY DEF Init, ServerInit, ExecutorInit, TransportInit
  <2>2. IsSequence(<<>>) /\ DOMAIN <<>> = {} /\ Idle.at = "idle"
    BY DEF IsSequence, Idle
  <2>3. Known(dm) = {} /\ dm.completed_plan_ids = {}
    BY <2>1 DEF Known, EmptyManager
  <2>4. Held = {} /\ Issued = {} /\ Coming = {} /\ Due = {}
    BY <2>1, <2>2, <2>3 DEF Held, Executed, ComingIds, Coming, ReportedIds, RecordedIds, Recording,
                            Issued, Due
  <2>5. TasksAsked
    BY <2>1, <2>2 DEF TasksAsked, InBatch
  <2>6. KnownReports
    BY <2>1, <2>2 DEF KnownReports, Recording
  <2>7. PlansNamed /\ DeliveredOnce
    BY <2>1, <2>2 DEF PlansNamed, DeliveredOnce
  <2>8. IdsInv
    BY <2>1, <2>2, <2>4 DEF IdsInv, IdsCounted, OneTaskPerSession, LastVersions, DueIsNew
  <2>9. ComeOnce
    BY <2>4 DEF ComeOnce, ComingIds
  <2> QED BY <2>5, <2>6, <2>7, <2>8, <2>9
<1>2. FreshInv /\ [Next]_vars /\ PlansInv' => FreshInv'
  <2> SUFFICES ASSUME FreshInv, [Next]_vars, PlansInv' PROVE FreshInv'
    OBVIOUS
  <2>1. ServerFields
    BY DEF FreshInv, PlansInv
  <2>2. TasksAsked' /\ KnownReports'
    BY <2>1, TasksKept, KnownReportsKept DEF FreshInv
  <2>3. PlansNamed' /\ IdsInv'
    BY NamedKept, IdsKept DEF FreshInv
  <2>4. DeliveredOnce' /\ ComeOnce'
    BY DeliveredOnceKept, ComeOnceKept DEF FreshInv
  <2> QED BY <2>2, <2>3, <2>4 DEF FreshInv
<1> QED BY <1>1, <1>2, PlansInvHolds, PTL DEF Spec, FreshInv

\* A plan id is given to one plan only: no plan that is published, or waits
\* for the executor, has the id of another one there, or of a plan that the
\* executor has or had, also when a task is sent again, provided that a task
\* is for one robot and the transport delivers a plan once
\* (_get_or_create_plan_id, plan_server.py).
THEOREM PlansComeWithNewIds ==
  ASSUME SolverReturnsPaths, TasksOfOneRobot, ~Ros
  PROVE  Spec => []PlanIdsAreFresh
<1>1. FreshInv => PlanIdsAreFresh
  <2> SUFFICES ASSUME FreshInv PROVE PlanIdsAreFresh
    OBVIOUS
  <2> DEFINE leaving == IF server.at = "publishing" THEN {server.plan_ids[r] : r \in server.left} ELSE {}
  <2>1. \A id \in leaving : id \notin Held
    BY DEF FreshInv, IdsInv, DueIsNew, Due
  <2>2. ComingIds = {message_queue[n].plan.plan_id : n \in Coming}
    BY DEF ComingIds
  <2>3. ComingIds \cap leaving = {} /\ (ComingIds \cup leaving) \cap Executed = {}
    BY <2>1 DEF Held, FreshInv, ComeOnce
  <2>4. \A n, m \in Coming : message_queue[n].plan.plan_id = message_queue[m].plan.plan_id => n = m
    BY DEF FreshInv, ComeOnce
  <2> QED BY <2>2, <2>3, <2>4 DEF PlanIdsAreFresh, Coming, Executed
<1> QED BY <1>1, FreshInvHolds, PTL

-----------------------------------------------------------------------------
(* Plans that are joined where the old one was cut.                        *)

\* The solver's paths start where the agents do.
PathsStartAtStarts ==
  \A starts, goals, obstacles : \A paths \in Solver(starts, goals, obstacles) :
    \A r \in DOMAIN starts : paths[r][1] = starts[r]

\* A plan that can be joined on to the one robot r has.
Continues(d, r, p) ==
  /\ ProgressIncreases(p)
  /\ r \in Known(d) =>
       /\ r \in DOMAIN d.cut_indices /\ d.cut_indices[r] \in Indices(d.plan[r])
       /\ SameStop(p.waypoints[1], WaypointAt(d.plan[r], d.cut_indices[r]))

\* The server expects plan p of robot r to end at waypoint n or before.
EndsBy(d, r, p, n) ==
  /\ n \in Nat /\ LastIndex(p) <= n
  /\ r \in Known(d) => d.cut_indices[r] + LastIndex(p) <= n

\* For robot s the managers d and e are the same but for blockers and progress.
SameFor(d, e, s) ==
  /\ s \in Known(d) <=> s \in Known(e)
  /\ s \in DOMAIN d.cut_indices <=> s \in DOMAIN e.cut_indices
  /\ s \in DOMAIN d.cut_indices => e.cut_indices[s] = d.cut_indices[s]
  /\ s \in Known(d) =>
       /\ e.plan[s].plan_id = d.plan[s].plan_id
       /\ Len(e.plan[s].waypoints) = Len(d.plan[s].waypoints)
       /\ \A n \in DOMAIN d.plan[s].waypoints :
            SameStop(e.plan[s].waypoints[n], d.plan[s].waypoints[n])

LEMMA SameLength ==
  ASSUME NEW d, Sound(d), NEW e, NEW s \in Known(d), SameFor(d, e, s)
  PROVE  /\ LastIndex(e.plan[s]) = LastIndex(d.plan[s]) /\ Indices(e.plan[s]) = Indices(d.plan[s])
         /\ \A k \in Indices(d.plan[s]) : SameStop(WaypointAt(e.plan[s], k), WaypointAt(d.plan[s], k))
<1>1. LastIndex(e.plan[s]) = LastIndex(d.plan[s])
  BY DEF SameFor, LastIndex
<1>2. /\ Indices(d.plan[s]) = 0 .. LastIndex(d.plan[s])
      /\ \A k \in 0 .. LastIndex(d.plan[s]) : k + 1 \in DOMAIN d.plan[s].waypoints
  BY SoundPlans, WaypointsAre
<1> QED BY <1>1, <1>2 DEF SameFor, Indices, WaypointAt

LEMMA SameContinues ==
  ASSUME NEW d, Sound(d), NEW e, NEW s, SameFor(d, e, s), NEW p
  PROVE  /\ Continues(d, s, p) => Continues(e, s, p)
         /\ \A n : EndsBy(d, s, p, n) /\ Continues(d, s, p) => EndsBy(e, s, p, n)
<1>1. CASE s \notin Known(d)
  BY <1>1 DEF SameFor, Continues, EndsBy
<1>2. CASE s \in Known(d)
  <2>1. /\ Indices(e.plan[s]) = Indices(d.plan[s])
        /\ \A k \in Indices(d.plan[s]) : SameStop(WaypointAt(e.plan[s], k), WaypointAt(d.plan[s], k))
    BY <1>2, SameLength
  <2> QED BY <1>2, <2>1 DEF SameFor, Continues, EndsBy, SameStop
<1> QED BY <1>1, <1>2

LEMMA SameIncreases ==
  ASSUME NEW d, Sound(d), NEW e, NEW s \in Known(d), SameFor(d, e, s),
         ProgressIncreases(d.plan[s])
  PROVE  ProgressIncreases(e.plan[s])
<1>1. /\ Indices(e.plan[s]) = Indices(d.plan[s])
      /\ \A k \in Indices(d.plan[s]) : SameStop(WaypointAt(e.plan[s], k), WaypointAt(d.plan[s], k))
  BY SameLength
<1> QED BY <1>1 DEF ProgressIncreases, SameStop

\* Joined at its first waypoint, a plan begins where the cut was and ends where
\* it should.
LEMMA JoinIncreases ==
  ASSUME NEW old, WellFormed(old), ProgressIncreases(old),
         NEW p, WellFormed(p), ProgressIncreases(p),
         NEW cut \in Indices(old), SameStop(p.waypoints[1], WaypointAt(old, cut)),
         NEW q, q = Spliced(old, cut, p)
  PROVE  ProgressIncreases(q) /\ LastIndex(q) = cut + LastIndex(p)
<1>1. /\ Len(old.waypoints) \in Nat \ {0} /\ LastIndex(old) = Len(old.waypoints) - 1
      /\ Indices(old) = 0 .. LastIndex(old) /\ LastIndex(old) \in Nat
      /\ \A k \in 0 .. LastIndex(old) : k + 1 \in DOMAIN old.waypoints
      /\ Len(p.waypoints) \in Nat \ {0} /\ LastIndex(p) = Len(p.waypoints) - 1
      /\ Indices(p) = 0 .. LastIndex(p) /\ LastIndex(p) \in Nat
      /\ DOMAIN p.waypoints = 1 .. Len(p.waypoints)
  BY WaypointsAre
<1>2. cut \in Nat /\ Retained(old, cut) = cut + 1 /\ WaypointAt(old, cut) = old.waypoints[cut + 1]
  BY <1>1 DEF Retained, WaypointAt
<1>3. p.waypoints[1].name = old.waypoints[cut + 1].name
      /\ p.waypoints[1].progress = old.waypoints[cut + 1].progress
  BY <1>2 DEF SameStop
<1>4. /\ Len(q.waypoints) = cut + Len(p.waypoints) /\ cut + 1 <= Len(q.waypoints)
      /\ \A k \in 1 .. cut + 1 : SameStop(q.waypoints[k], old.waypoints[k])
      /\ \A k \in cut + 2 .. Len(q.waypoints) : SameStop(q.waypoints[k], p.waypoints[k - cut])
  <2> DEFINE n == Retained(old, cut)
             merged == p.waypoints[1].name = old.waypoints[n].name
             from == IF merged THEN n - 1 ELSE n
  <2>1. /\ Len(q.waypoints) = from + Len(p.waypoints) /\ n <= Len(q.waypoints)
        /\ \A k \in 1 .. n : SameStop(q.waypoints[k], old.waypoints[k])
        /\ \A k \in n + 1 .. Len(q.waypoints) : SameStop(q.waypoints[k], p.waypoints[k - from])
    BY <1>2, SplicedIs
  <2>2. n = cut + 1 /\ from = cut
    BY <1>2, <1>3
  <2> HIDE DEF n, from
  <2> QED BY <1>2, <2>1, <2>2
<1>5. LastIndex(q) = cut + LastIndex(p) /\ Indices(q) = 0 .. cut + LastIndex(p)
  BY <1>1, <1>2, <1>4 DEF LastIndex, Indices
<1>6. \A k \in 0 .. cut : k \in Indices(old) /\ WaypointAt(q, k).progress = WaypointAt(old, k).progress
  <2> TAKE k \in 0 .. cut
  <2>1. k + 1 \in 1 .. cut + 1 /\ k \in 0 .. LastIndex(old)
    BY <1>1, <1>2
  <2> QED BY <1>1, <1>4, <2>1 DEF WaypointAt, SameStop
<1>7. \A k \in cut .. cut + LastIndex(p) :
        k - cut \in Indices(p) /\ WaypointAt(q, k).progress = WaypointAt(p, k - cut).progress
  <2> TAKE k \in cut .. cut + LastIndex(p)
  <2>1. k - cut \in Indices(p)
    BY <1>1, <1>2
  <2>2. CASE k = cut
    <3>1. WaypointAt(q, k).progress = WaypointAt(old, cut).progress
      BY <1>2, <1>6, <2>2
    <3>2. WaypointAt(p, k - cut) = p.waypoints[1]
      BY <1>2, <2>2 DEF WaypointAt
    <3> QED BY <1>2, <1>3, <2>1, <3>1, <3>2
  <2>3. CASE k # cut
    <3>1. k + 1 \in cut + 2 .. Len(q.waypoints) /\ (k + 1) - cut = (k - cut) + 1
      BY <1>1, <1>2, <1>4, <2>3
    <3> QED BY <1>4, <2>1, <3>1 DEF WaypointAt, SameStop
  <2> QED BY <2>2, <2>3
<1>8. ASSUME NEW k \in Indices(q), NEW m \in Indices(q), k < m
      PROVE  WaypointAt(q, k).progress < WaypointAt(q, m).progress
  <2>0. k \in 0 .. cut + LastIndex(p) /\ m \in 0 .. cut + LastIndex(p) /\ cut \in Nat /\ LastIndex(p) \in Nat
    BY <1>1, <1>2, <1>5
  <2>1. CASE m <= cut
    <3>1. k \in 0 .. cut /\ m \in 0 .. cut
      BY <1>8, <2>0, <2>1
    <3> QED BY <1>6, <1>8, <3>1 DEF ProgressIncreases
  <2>2. CASE cut <= k
    <3>1. k \in cut .. cut + LastIndex(p) /\ m \in cut .. cut + LastIndex(p) /\ k - cut < m - cut
      BY <1>8, <2>0, <2>2
    <3> QED BY <1>7, <3>1 DEF ProgressIncreases
  <2>3. CASE k < cut /\ cut < m
    <3>1. k \in 0 .. cut /\ cut \in 0 .. cut /\ cut \in cut .. cut + LastIndex(p)
          /\ m \in cut .. cut + LastIndex(p) /\ cut - cut < m - cut
      BY <2>0, <2>3
    <3>2. WaypointAt(q, k).progress < WaypointAt(q, cut).progress
      BY <1>6, <2>3, <3>1 DEF ProgressIncreases
    <3>3. WaypointAt(q, cut).progress < WaypointAt(q, m).progress
      BY <1>7, <3>1 DEF ProgressIncreases
    <3>4. /\ WaypointAt(q, k).progress \in Int /\ WaypointAt(q, cut).progress \in Int
          /\ WaypointAt(q, m).progress \in Int
      <4>1. \A i \in Indices(q) : WaypointAt(q, i).progress \in Int
        <5>1. WellFormed(q)
          BY <1>2, SplicedIs
        <5> QED BY <5>1, WaypointsAre DEF WellFormed
      <4>2. cut \in Indices(q)
        BY <1>5, <2>0
      <4> QED BY <4>1, <4>2
    <3> QED BY <3>2, <3>3, <3>4
  <2> QED BY <2>0, <2>1, <2>2, <2>3
<1> QED BY <1>5, <1>8 DEF ProgressIncreases

LEMMA SameStops ==
  ASSUME NEW p, WellFormed(p), NEW q, Len(q.waypoints) = Len(p.waypoints),
         \A n \in DOMAIN p.waypoints : SameStop(q.waypoints[n], p.waypoints[n])
  PROVE  LastIndex(q) = LastIndex(p) /\ (ProgressIncreases(p) => ProgressIncreases(q))
<1>1. /\ Indices(p) = 0 .. LastIndex(p)
      /\ \A k \in 0 .. LastIndex(p) : k + 1 \in DOMAIN p.waypoints
  BY WaypointsAre
<1>2. LastIndex(q) = LastIndex(p) /\ Indices(q) = Indices(p)
  BY DEF LastIndex, Indices
<1>3. \A k \in Indices(p) : WaypointAt(q, k).progress = WaypointAt(p, k).progress
  BY <1>1 DEF WaypointAt, SameStop
<1> QED BY <1>2, <1>3 DEF ProgressIncreases

\* What the handlers do with plans and cuts.
LEMMA PlanJoins ==
  ASSUME PlansInv, HandlePlan
  PROVE  /\ First.robot \in Robots /\ First.robot \in Known(dm')
         /\ \A s \in Robots : s # First.robot => SameFor(dm, dm', s)
         /\ Continues(dm, First.robot, First.plan)
              /\ (First.robot \in Known(dm) => ProgressIncreases(dm.plan[First.robot]))
            => ProgressIncreases(dm'.plan[First.robot])
         /\ \A n : Continues(dm, First.robot, First.plan)
                     /\ (First.robot \in Known(dm) => ProgressIncreases(dm.plan[First.robot]))
                     /\ EndsBy(dm, First.robot, First.plan, n)
                   => LastIndex(dm'.plan[First.robot]) <= n
<1> DEFINE r == First.robot
           p == First.plan
<1>1. r \in Robots /\ WellFormed(p) /\ Sound(dm) /\ Head(message_queue) = First
  BY FirstIs DEF HandlePlan, PlansInv
<1>2. CASE r \notin Known(dm) \/ IsComplete(dm, r)
  <2> DEFINE d == SetPlan(dm, r, p)
  <2>1. DispatchUnblocked(d)
    BY <1>1, <1>2 DEF HandlePlan
  <2>2. IsSet(dm, r, p, d)
    <3> HIDE DEF r, p
    <3> QED BY <1>1, SetPlanIsSound
  <2> HIDE DEF d
  <2>3. /\ Known(dm') = Known(dm) \cup {r} /\ dm'.cut_indices = dm.cut_indices
        /\ \A s \in Robots : dm'.plan[s] = IF s = r THEN p ELSE dm.plan[s]
    <3>1. Known(dm') = Known(d) /\ dm'.plan = d.plan /\ dm'.cut_indices = d.cut_indices
      BY <2>1, <2>2, DispatchIsSound DEF IsSet
    <3> QED BY <2>2, <3>1 DEF IsSet
  <2>4. ASSUME NEW s \in Robots, s # r PROVE SameFor(dm, dm', s)
    BY <2>3, <2>4 DEF SameFor, SameStop
  <2>5. dm'.plan[r] = p /\ r \in Known(dm')
    BY <1>1, <2>3
  <2> HIDE DEF r, p
  <2>6. \A n : EndsBy(dm, r, p, n) => LastIndex(p) <= n
    BY DEF EndsBy
  <2> QED BY <1>1, <2>4, <2>5, <2>6 DEF Continues, r, p
<1>3. CASE ~(r \notin Known(dm) \/ IsComplete(dm, r))
  <2> DEFINE d == UpdatePlanAfterCut(dm, r, p)
             q == Joined(dm, r, p)
  <2>1. DispatchUnblocked(d)
    BY <1>1, <1>3 DEF HandlePlan
  <2>2. r \in Known(dm) /\ WellFormed(dm.plan[r])
    BY <1>1, <1>3 DEF Sound
  <2>3. IsUpdated(dm, r, p, d)
    <3> HIDE DEF r, p
    <3> QED BY <1>1, <2>2, UpdateIsSound
  <2> HIDE DEF d
  <2>4. /\ Known(dm') = Known(dm)
        /\ dm'.cut_indices = [s \in DOMAIN dm.cut_indices \ {r} |-> dm.cut_indices[s]]
        /\ \A s \in Known(dm) :
             /\ dm'.plan[s].plan_id = Updated(dm, r, p, s).plan_id
             /\ Len(dm'.plan[s].waypoints) = Len(Updated(dm, r, p, s).waypoints)
             /\ \A n \in DOMAIN Updated(dm, r, p, s).waypoints :
                  SameStop(dm'.plan[s].waypoints[n], Updated(dm, r, p, s).waypoints[n])
        /\ WellFormed(q)
    <3>1. Known(dm') = Known(d) /\ dm'.plan = d.plan /\ dm'.cut_indices = d.cut_indices
      BY <2>1, <2>3, DispatchIsSound DEF IsUpdated
    <3> QED BY <2>3, <3>1 DEF IsUpdated
  <2>5. ASSUME NEW s \in Robots, s # r PROVE SameFor(dm, dm', s)
    <3>1. Updated(dm, r, p, s) = dm.plan[s]
      BY <2>5 DEF Updated
    <3>2. s \in DOMAIN dm.cut_indices <=> s \in DOMAIN dm'.cut_indices
      BY <2>4, <2>5
    <3>3. s \in DOMAIN dm.cut_indices => dm'.cut_indices[s] = dm.cut_indices[s]
      BY <2>4, <2>5
    <3> QED BY <2>4, <3>1, <3>2, <3>3 DEF SameFor
  <2>6. /\ Len(dm'.plan[r].waypoints) = Len(q.waypoints)
        /\ \A n \in DOMAIN q.waypoints : SameStop(dm'.plan[r].waypoints[n], q.waypoints[n])
    <3>1. Updated(dm, r, p, r) = q
      BY DEF Updated
    <3> HIDE DEF r, p, q
    <3> QED BY <2>2, <2>4, <3>1
  <2> HIDE DEF r, p
  <2>7. ASSUME Continues(dm, r, p), ProgressIncreases(dm.plan[r])
        PROVE  /\ ProgressIncreases(dm'.plan[r])
               /\ LastIndex(dm'.plan[r]) = dm.cut_indices[r] + LastIndex(p)
    <3>1. q = Spliced(dm.plan[r], dm.cut_indices[r], p)
      BY <2>2, <2>7 DEF Joined, CutOf, Continues
    <3> HIDE DEF q
    <3>2. ProgressIncreases(q) /\ LastIndex(q) = dm.cut_indices[r] + LastIndex(p)
      BY <1>1, <2>2, <2>7, <3>1, JoinIncreases DEF Continues
    <3>3. WellFormed(q)
      BY <2>4 DEF q
    <3> QED BY <2>6, <3>2, <3>3, SameStops DEF q
  <2>8. ASSUME NEW n, EndsBy(dm, r, p, n) PROVE dm.cut_indices[r] + LastIndex(p) <= n
    BY <2>2, <2>8 DEF EndsBy
  <2>9. r \in Known(dm')
    BY <2>2, <2>4
  <2> QED BY <1>1, <2>2, <2>5, <2>7, <2>8, <2>9 DEF r, p
<1> QED BY <1>2, <1>3

LEMMA ReachedJoinsNothing ==
  ASSUME PlansInv, HandleWaypointReached
  PROVE  \A s : SameFor(dm, dm', s)
<1>1. Known(dm') = Known(dm) /\ dm'.plan = dm.plan /\ dm'.cut_indices = dm.cut_indices
  BY ReachedIsSound DEF PlansInv
<1> QED BY <1>1 DEF SameFor, SameStop

-----------------------------------------------------------------------------
(* The order in which plans and requests come.                             *)

\* What the queue holds after a step, and where.
Stays(n) == n \in DOMAIN message_queue /\ message_queue'[n] = message_queue[n]

LEMMA PublishedIs ==
  ASSUME PlansInv, DeliveredOnce, NEW r \in Robots, ServerPublish(r)
  PROVE  /\ server.at = "publishing" /\ r \in server.left
         /\ \A n \in DOMAIN message_queue' :
              Stays(n) \/ (/\ n = Len(message_queue) + 1
                           /\ message_queue'[n] = PlanMessage(r, Carried(server.plans[r])))
<1> DEFINE q == message_queue
           message == PlanMessage(r, Carried(server.plans[r]))
           k == subscriptions["executor"][r]
           copies == [n \in 1 .. k |-> message]
<1>1. /\ IsSequence(q) /\ Len(q) \in Nat /\ DOMAIN q = 1 .. Len(q)
      /\ subscriptions \in [{"server", "executor"} -> [Robots -> Nat]]
  BY LenProperties DEF PlansInv, AnswersInv, QueuesTyped, IsSequence
<1>2. q' = q \o copies /\ k \in 0 .. 1
  BY <1>1 DEF ServerPublish, Delivered, DeliveredOnce
<1>3. server.at = "publishing" /\ r \in server.left
  BY DEF ServerPublish, PublishPlan
<1>4. k \in Nat /\ IsSequence(copies) /\ Len(copies) = k /\ \A n \in DOMAIN copies : copies[n] = message
  <2>1. k \in Nat
    BY <1>2
  <2> HIDE DEF k, message
  <2>2. IsSequence(copies) /\ Len(copies) = k /\ \A n \in DOMAIN copies : copies[n] = message
    BY <2>1, CopiesAre
  <2> QED BY <2>1, <2>2
<1> HIDE DEF message, k, copies
<1>5. /\ DOMAIN q' = 1 .. Len(q) + k
      /\ \A n \in 1 .. Len(q) + k : q'[n] = IF n <= Len(q) THEN q[n] ELSE copies[n - Len(q)]
  BY <1>1, <1>2, <1>4, JoinedIs
<1>6. ASSUME NEW n \in DOMAIN q' PROVE Stays(n) \/ (n = Len(q) + 1 /\ q'[n] = message)
  <2>1. CASE n <= Len(q)
    BY <1>1, <1>5, <2>1 DEF Stays
  <2>2. CASE ~(n <= Len(q))
    <3>1. k = 1 /\ n = Len(q) + 1 /\ n - Len(q) = 1
      BY <1>1, <1>2, <1>5, <2>2
    <3>2. 1 \in DOMAIN copies
      BY <1>4, <3>1, LenProperties DEF IsSequence
    <3> QED BY <1>4, <1>5, <2>2, <3>1, <3>2
  <2> QED BY <2>1, <2>2
<1> QED BY <1>3, <1>6 DEF message

LEMMA AppendedTo ==
  ASSUME PlansInv, NEW message, message_queue' = Append(message_queue, message)
  PROVE  \A n \in DOMAIN message_queue' :
           Stays(n) \/ (n = Len(message_queue) + 1 /\ message_queue'[n] = message)
<1>1. /\ Len(message_queue) \in Nat /\ DOMAIN message_queue = 1 .. Len(message_queue)
      /\ DOMAIN message_queue' = 1 .. Len(message_queue) + 1
      /\ \A n \in 1 .. Len(message_queue) + 1 :
           message_queue'[n] = IF n <= Len(message_queue) THEN message_queue[n] ELSE message
  BY AppendedIs DEF PlansInv, AnswersInv, QueuesTyped
<1>2. ASSUME NEW n \in DOMAIN message_queue', n <= Len(message_queue) PROVE Stays(n)
  BY <1>1, <1>2 DEF Stays
<1>3. ASSUME NEW n \in DOMAIN message_queue', ~(n <= Len(message_queue))
      PROVE  n = Len(message_queue) + 1 /\ message_queue'[n] = message
  BY <1>1, <1>3
<1> QED BY <1>2, <1>3

LEMMA TakenFrom ==
  ASSUME PlansInv, message_queue # <<>>, message_queue' = Tail(message_queue)
  PROVE  \A n \in DOMAIN message_queue' :
           /\ n \in Int /\ n + 1 \in DOMAIN message_queue /\ n + 1 # 1
           /\ message_queue'[n] = message_queue[n + 1]
<1>1. /\ Len(message_queue) \in Nat \ {0} /\ DOMAIN message_queue = 1 .. Len(message_queue)
      /\ DOMAIN message_queue' = 1 .. Len(message_queue) - 1
      /\ \A n \in 1 .. Len(message_queue) - 1 : message_queue'[n] = message_queue[n + 1]
  BY TailIs DEF PlansInv, AnswersInv, QueuesTyped
<1> TAKE n \in DOMAIN message_queue'
<1>2. n \in Int /\ n + 1 \in 1 .. Len(message_queue) /\ n + 1 # 1
  BY <1>1
<1> QED BY <1>1, <1>2

\* The plans of a batch are published as they were made.
LEMMA PublishingIs ==
  ASSUME PlansInv, [Next]_vars, server'.at = "publishing"
  PROVE  \/ /\ server.at = "publishing" /\ server'.left \subseteq server.left
            /\ server'.plans = server.plans /\ server'.plan_ids = server.plan_ids
         \/ Solve /\ Settled(message_queue)
<1>1. CASE UNCHANGED server \/ server' \in {Idle, Dead}
  BY <1>1 DEF Idle, Dead
<1>2. CASE ProcessBatch \/ TakeResponse \/ AssignPlanIds
  BY <1>2 DEF ProcessBatch, TakeResponse, AssignPlanIds, Idle
<1>3. CASE Solve
  BY <1>3 DEF Solve, PlansInv, AnswersInv, AnswerIsTaken
<1>4. CASE SupersedeTasks
  BY <1>4 DEF SupersedeTasks, PlansInv, ServerFields, PublishingFields
<1>5. CASE \E r \in Robots : ServerPublish(r)
  BY <1>5 DEF ServerPublish, PublishPlan, PlansInv, ServerFields, PublishingFields
<1> QED BY <1>1, <1>2, <1>3, <1>4, <1>5, ServerSteps

\* While plans are published no request is on its way, and behind a request
\* there is no plan; a robot gets one plan of a batch.
PlansBeforeRequests ==
  /\ \A n, m \in DOMAIN message_queue :
       message_queue[n].type = Request /\ message_queue[m].type = "plan" => m < n
  /\ server.at = "publishing" => \A n \in DOMAIN message_queue : message_queue[n].type # Request
OnePlanEach ==
  /\ \A n, m \in Coming : message_queue[n].robot = message_queue[m].robot => n = m
  /\ server.at = "publishing" => \A n \in Coming : message_queue[n].robot \notin server.left
OrderInv == PlansBeforeRequests /\ OnePlanEach

LEMMA OrderKept ==
  ASSUME PlansInv, DeliveredOnce, OrderInv, [Next]_vars
  PROVE  OrderInv'
<1>1. Len(message_queue) \in Nat /\ DOMAIN message_queue = 1 .. Len(message_queue)
  BY LenProperties DEF PlansInv, AnswersInv, QueuesTyped, IsSequence
<1>2. ASSUME UNCHANGED message_queue PROVE OrderInv'
  <2>1. CASE server'.at # "publishing"
    BY <1>2, <2>1 DEF OrderInv, PlansBeforeRequests, OnePlanEach, Coming
  <2>2. CASE server'.at = "publishing"
    <3>1. CASE server.at = "publishing" /\ server'.left \subseteq server.left
      BY <1>2, <3>1 DEF OrderInv, PlansBeforeRequests, OnePlanEach, Coming
    <3>2. CASE Settled(message_queue)
      BY <1>2, <3>2 DEF OrderInv, PlansBeforeRequests, OnePlanEach, Coming, Settled, Request, Reached
    <3> QED BY <2>2, <3>1, <3>2, PublishingIs
  <2> QED BY <2>1, <2>2
<1>3. ASSUME NEW r \in Robots, ServerPublish(r) PROVE OrderInv'
  <2> DEFINE message == PlanMessage(r, Carried(server.plans[r]))
  <2>1. /\ server.at = "publishing" /\ r \in server.left
        /\ \A n \in DOMAIN message_queue' :
             Stays(n) \/ (n = Len(message_queue) + 1 /\ message_queue'[n] = message)
    BY <1>3, PublishedIs
  <2>2. message.type = "plan" /\ message.robot = r
    BY DEF PlanMessage
  <2>3. server'.left = server.left \ {r}
    BY <1>3 DEF ServerPublish, PublishPlan, PlansInv, ServerFields, PublishingFields
  <2> HIDE DEF message
  <2>4. \A n \in DOMAIN message_queue' : message_queue'[n].type # Request
    BY <2>1, <2>2 DEF Stays, OrderInv, PlansBeforeRequests, Request
  <2>5. \A n \in Coming : message_queue[n].robot # r
    BY <2>1 DEF OrderInv, OnePlanEach
  <2>6. ASSUME NEW n \in Coming', NEW m \in Coming', message_queue'[n].robot = message_queue'[m].robot
        PROVE  n = m
    BY <2>1, <2>2, <2>5, <2>6 DEF Stays, Coming, OrderInv, OnePlanEach
  <2>7. \A n \in Coming' : message_queue'[n].robot \notin server'.left
    BY <2>1, <2>2, <2>3 DEF Stays, Coming, OrderInv, OnePlanEach
  <2> QED BY <2>4, <2>6, <2>7 DEF OrderInv, PlansBeforeRequests, OnePlanEach
<1>4. ASSUME NEW message, message_queue' = Append(message_queue, message), message.type # "plan",
             \/ message.type = Reached /\ UNCHANGED server
             \/ server'.at # "publishing"
      PROVE  OrderInv'
  <2>1. \A n \in DOMAIN message_queue' :
          Stays(n) \/ (n = Len(message_queue) + 1 /\ message_queue'[n] = message)
    BY <1>4, AppendedTo
  <2>2. \A n \in Coming' : Stays(n) /\ n \in Coming
    BY <1>4, <2>1 DEF Stays, Coming
  <2>3. ASSUME NEW n \in DOMAIN message_queue', NEW m \in DOMAIN message_queue',
               message_queue'[n].type = Request, message_queue'[m].type = "plan"
        PROVE  m < n
    <3>1. Stays(m)
      BY <1>4, <2>1, <2>3
    <3>2. CASE Stays(n)
      BY <2>3, <3>1, <3>2 DEF Stays, OrderInv, PlansBeforeRequests
    <3>3. CASE n = Len(message_queue) + 1
      <4>1. m \in 1 .. Len(message_queue)
        BY <1>1, <3>1 DEF Stays
      <4> QED BY <1>1, <3>3, <4>1
    <3> QED BY <2>1, <3>2, <3>3
  <2>4. server'.at = "publishing" => \A n \in DOMAIN message_queue' : message_queue'[n].type # Request
    BY <1>4, <2>1 DEF Stays, OrderInv, PlansBeforeRequests, Request, Reached
  <2>5. PlansBeforeRequests'
    BY <2>3, <2>4 DEF PlansBeforeRequests
  <2>6. OnePlanEach'
    BY <1>4, <2>2 DEF Stays, OrderInv, OnePlanEach
  <2> QED BY <2>5, <2>6 DEF OrderInv
<1>5. CASE message_queue # <<>> /\ message_queue' = Tail(message_queue) /\ UNCHANGED server
  <2>1. \A n \in DOMAIN message_queue' :
          /\ n \in Int /\ n + 1 \in DOMAIN message_queue
          /\ message_queue'[n] = message_queue[n + 1]
    BY <1>5, TakenFrom
  <2>2. PlansBeforeRequests'
    <3>1. ASSUME NEW n \in DOMAIN message_queue', NEW m \in DOMAIN message_queue',
                 message_queue'[n].type = Request, message_queue'[m].type = "plan"
          PROVE  m < n
      <4>1. m + 1 < n + 1 /\ m \in Int /\ n \in Int
        BY <2>1, <3>1 DEF OrderInv, PlansBeforeRequests
      <4> QED BY <4>1
    <3>2. server.at = "publishing" => \A n \in DOMAIN message_queue' : message_queue'[n].type # Request
      BY <2>1 DEF OrderInv, PlansBeforeRequests
    <3> QED BY <1>5, <3>1, <3>2 DEF PlansBeforeRequests
  <2>3. \A n \in Coming' : n + 1 \in Coming
    BY <2>1 DEF Coming
  <2>4. OnePlanEach'
    <3>1. ASSUME NEW n \in Coming', NEW m \in Coming', message_queue'[n].robot = message_queue'[m].robot
          PROVE  n = m
      <4>1. n + 1 = m + 1 /\ n \in Int /\ m \in Int
        <5>1. n \in DOMAIN message_queue' /\ m \in DOMAIN message_queue'
          BY DEF Coming
        <5> QED BY <2>1, <2>3, <3>1, <5>1 DEF OrderInv, OnePlanEach
      <4> QED BY <4>1
    <3>2. \A n \in Coming' : n \in DOMAIN message_queue'
      BY DEF Coming
    <3> QED BY <1>5, <2>1, <2>3, <3>1, <3>2 DEF OrderInv, OnePlanEach
  <2> QED BY <2>2, <2>4 DEF OrderInv
<1>6. CASE ServerBatch
  <2>1. UNCHANGED message_queue \/ message_queue' = Append(message_queue, RequestMessage(server'.request_id))
    BY <1>6 DEF ServerBatch, OnCommittedLocationsRequest, executorVars
  <2>2. server'.at # "publishing"
    BY <1>6 DEF ServerBatch, ProcessBatch, Idle
  <2>3. RequestMessage(server'.request_id).type # "plan"
    BY DEF RequestMessage
  <2> QED BY <1>2, <1>4, <2>1, <2>2, <2>3
<1>7. CASE ExecutorWorker
  BY <1>5, <1>7 DEF ExecutorWorker, ExecutorPlan, ExecutorReached, ExecutorRequest, HandlePlan,
              HandleWaypointReached, HandleCommittedLocationsRequest, NextMessage, serverVars
<1>8. CASE \E r \in Robots : RobotArrives(r)
  <2>1. PICK r \in Robots : RobotArrives(r)
    BY <1>8
  <2>2. message_queue' = Append(message_queue, ReachedMessage(r, Head(pending[r]).index)) /\ UNCHANGED server
    BY <2>1 DEF RobotArrives, Arrive, serverVars
  <2>3. ReachedMessage(r, Head(pending[r]).index).type = Reached /\ Reached # "plan"
    BY DEF ReachedMessage, Reached
  <2> QED BY <1>4, <2>2, <2>3
<1>9. CASE ServerProgress \/ ServerRecordsEnd
  BY <1>2, <1>9 DEF ServerProgress, ServerRecordsEnd, executorVars
<1> QED BY <1>2, <1>3, <1>6, <1>7, <1>8, <1>9, OtherSteps DEF ExecutorWorker

-----------------------------------------------------------------------------
(* What the server plans from is where the plans are cut.                  *)

\* The locations are those of the cuts of d, which lie within its plans.
Measured(d, committed) ==
  /\ DOMAIN committed = Known(d)
  /\ \A r \in Known(d) :
       /\ r \in DOMAIN d.cut_indices /\ d.cut_indices[r] \in Indices(d.plan[r])
       /\ committed[r].location = WaypointAt(d.plan[r], d.cut_indices[r]).name
       /\ committed[r].waypoint_index = d.cut_indices[r]
       /\ committed[r].progress = WaypointAt(d.plan[r], d.cut_indices[r]).progress
AnswersMeasured ==
  /\ \A n \in DOMAIN responses :
       responses[n].request_id = request_counter => Measured(dm, responses[n].committed_locations)
  /\ server.at \in {"solving", "identified"} => Measured(dm, server.committed)

\* Of the answer to the last request, and of what was taken from it, plans and
\* cuts stay as they were.
LEMMA MeasuredStays ==
  ASSUME PlansInv, [Next]_vars, ~ExecutorRequest,
         NEW committed, Measured(dm, committed), Settled(message_queue)
  PROVE  Measured(dm', committed)
<1>1. CASE UNCHANGED dm
  BY <1>1
<1>2. CASE HandlePlan
  <2>1. First.type = "plan" /\ 1 \in DOMAIN message_queue
    BY <1>2, FirstIs DEF HandlePlan
  <2> QED BY <2>1 DEF Settled, Reached, First
<1>3. CASE HandleWaypointReached
  BY <1>3, ReachedIsSound DEF PlansInv, Measured
<1>4. CASE HandleCommittedLocationsRequest
  <2>1. First.type = "committed_locations_request" /\ 1 \in DOMAIN message_queue
    BY <1>4, FirstIs DEF HandleCommittedLocationsRequest
  <2> QED BY <2>1 DEF Settled, Reached, First
<1> QED BY <1>1, <1>2, <1>3, <1>4, ChangedByHandlers

\* The executor answers with the cut that it stores.
LEMMA AnswerIsMeasured ==
  ASSUME ~Ros, Sound(dm), ~CommitCutFails(dm), HandleCommittedLocationsRequest
  PROVE  Measured(dm', CarriedLocations(CommittedLocations(ComputeCommitCut(dm))))
<1> DEFINE d == ComputeCommitCut(dm)
           locations == CommittedLocations(d)
<1>1. dm' = d
  BY DEF HandleCommittedLocationsRequest
<1>2. /\ Known(d) = Known(dm) /\ d.plan = dm.plan /\ DOMAIN d.cut_indices = Known(dm)
      /\ \A r \in Known(dm) : d.cut_indices[r] \in Indices(dm.plan[r])
  BY CutIsSound
<1> HIDE DEF d
<1>3. CarriedLocations(locations) = locations
  BY DEF CarriedLocations
<1>4. locations = [r \in Known(d) |->
         [location |-> WaypointAt(d.plan[r], d.cut_indices[r]).name,
          waypoint_index |-> d.cut_indices[r],
          progress |-> WaypointAt(d.plan[r], d.cut_indices[r]).progress]]
  BY DEF CommittedLocations
<1>5. Measured(d, locations)
  BY <1>2, <1>4 DEF Measured
<1> QED BY <1>1, <1>3, <1>5 DEF d, locations

LEMMA MeasuredKept ==
  ASSUME ~Ros, PlansInv, AnswersMeasured, [Next]_vars
  PROVE  AnswersMeasured'
<1>1. IsSequence(responses) /\ request_counter \in Nat
  BY DEF PlansInv, AnswersInv, QueuesTyped, IdsAreCounted
<1>2. \A n \in DOMAIN responses :
        responses[n].request_id = request_counter =>
          Settled(message_queue) /\ Measured(dm, responses[n].committed_locations)
  BY DEF PlansInv, AnswersInv, AnswerIsLast, AnswersMeasured
<1>3. server.at \in {"solving", "identified"} =>
        Settled(message_queue) /\ Measured(dm, server.committed)
  BY DEF PlansInv, AnswersInv, AnswerIsTaken, AnswersMeasured
<1>4. CASE ExecutorRequest
  <2>1. HandleCommittedLocationsRequest /\ UNCHANGED <<server, request_counter>>
    BY <1>4 DEF ExecutorRequest
  <2>2. ~Settled(message_queue)
    <3>1. First.type = "committed_locations_request" /\ 1 \in DOMAIN message_queue
      BY <2>1, FirstIs DEF HandleCommittedLocationsRequest
    <3> QED BY <3>1 DEF Settled, Reached, First
  <2>3. CASE CommitCutFails(dm)
    <3>1. UNCHANGED responses
      BY <1>4, <2>3 DEF ExecutorRequest
    <3> QED BY <1>2, <1>3, <2>1, <2>2, <3>1 DEF AnswersMeasured
  <2>4. CASE ~CommitCutFails(dm)
    <3> DEFINE committed == CarriedLocations(CommittedLocations(ComputeCommitCut(dm)))
               answer == [ CommittedLocationsResponse(Head(message_queue).request_id)
                           EXCEPT !.committed_locations = CarriedLocations(@) ]
    <3>1. responses' = Append(responses, answer)
      BY <1>4, <2>4 DEF ExecutorRequest
    <3>2. answer.committed_locations = committed
      BY DEF CommittedLocationsResponse
    <3>3. Measured(dm', committed)
      BY <2>1, <2>4, AnswerIsMeasured DEF PlansInv
    <3> HIDE DEF committed, answer
    <3>4. \A n \in DOMAIN responses' : \/ \E m \in DOMAIN responses : responses'[n] = responses[m]
                                       \/ responses'[n] = answer
      BY <1>1, <3>1, PutOne
    <3> QED BY <1>2, <1>3, <2>1, <2>2, <3>2, <3>3, <3>4 DEF AnswersMeasured
  <2> QED BY <2>3, <2>4
<1>5. CASE TakeResponse /\ ~ExecutorRequest
  <2>1. /\ responses # <<>> /\ responses' = Tail(responses) /\ server.at = "waiting"
        /\ UNCHANGED request_counter
        /\ \/ UNCHANGED server
           \/ /\ server'.committed = Head(responses).committed_locations
              /\ Head(responses).request_id = server.request_id
    BY <1>5 DEF TakeResponse, Answers
  <2>2. /\ 1 \in DOMAIN responses /\ Head(responses) = responses[1]
        /\ \A n \in DOMAIN responses' : \E m \in DOMAIN responses : responses'[n] = responses[m]
    BY <1>1, <2>1, TakenOut
  <2>3. \A n \in DOMAIN responses :
          responses[n].request_id = request_counter => Measured(dm', responses[n].committed_locations)
    BY <1>2, <1>5, MeasuredStays
  <2>4. \A n \in DOMAIN responses' :
          responses'[n].request_id = request_counter' => Measured(dm', responses'[n].committed_locations)
    BY <2>1, <2>2, <2>3
  <2>5. server'.at \in {"solving", "identified"} => Measured(dm', server'.committed)
    <3>1. server.request_id = request_counter
      BY <2>1 DEF PlansInv, AnswersInv, IdsAreCounted
    <3> QED BY <2>1, <2>2, <2>3, <3>1
  <2> QED BY <2>4, <2>5 DEF AnswersMeasured
<1>6. CASE ~ExecutorRequest /\ ~TakeResponse
  <2>1. UNCHANGED responses
    BY <1>6, AnswerSteps DEF AssignPlanIds
  <2>2. \A n \in DOMAIN responses : responses[n].request_id \in 1 .. request_counter
    BY DEF PlansInv, AnswersInv, IdsAreCounted
  <2>3. request_counter' = request_counter \/ request_counter' = request_counter + 1
    <3>1. UNCHANGED request_counter \/ ProcessBatch
      BY ServerSteps DEF TakeResponse, AssignPlanIds, Solve, SupersedeTasks, ServerPublish, PublishPlan
    <3> QED BY <3>1 DEF ProcessBatch
  <2>4. ASSUME NEW n \in DOMAIN responses', responses'[n].request_id = request_counter'
        PROVE  Measured(dm', responses'[n].committed_locations)
    <3>1. n \in DOMAIN responses /\ responses'[n] = responses[n]
      BY <2>1
    <3>2. responses[n].request_id = request_counter
      BY <1>1, <2>2, <2>3, <2>4, <3>1
    <3> QED BY <1>2, <1>6, <3>1, <3>2, MeasuredStays
  <2>5. ASSUME server'.at \in {"solving", "identified"} PROVE Measured(dm', server'.committed)
    <3>1. server.at \in {"solving", "identified"} /\ server'.committed = server.committed
      BY <1>6, <2>5, AnswerSteps DEF AssignPlanIds
    <3> QED BY <1>3, <1>6, <3>1, MeasuredStays
  <2> QED BY <2>4, <2>5 DEF AnswersMeasured
<1> QED BY <1>4, <1>5, <1>6

\* Plan p of robot r, with an id, can be joined where the plan of r in d is cut,
\* and ends where it is expected to.
Fits(d, finals, r, id, p) ==
  /\ Continues(d, r, p)
  /\ id \in DOMAIN finals => EndsBy(d, r, p, finals[id])

\* What is expected of a plan's end stays, or is forgotten.
FinalStays(id) ==
  id \in DOMAIN final_waypoints' =>
    id \in DOMAIN final_waypoints /\ final_waypoints'[id] = final_waypoints[id]

LEMMA FinalSteps ==
  ASSUME [Next]_vars
  PROVE  Solve \/ \A id : FinalStays(id)
<1>1. CASE Client
  BY <1>1 DEF Client, SendTasks, OnboardAtServer, OnboardAtExecutor, Discovery,
              OnTaskRequests, AddRobot, serverVars, FinalStays
<1>2. CASE ServerBatch \/ ServerInternal \/ ServerTimeout \/ \E r \in Robots : ServerPublish(r)
  BY <1>2 DEF ServerBatch, ServerInternal, ServerTimeout, WaitTimesOut, RecordBatch, ProcessBatch,
              TakeResponse, AssignPlanIds, SupersedeTasks, ServerPublish, PublishPlan, FinalStays
<1>3. CASE ServerProgress \/ ServerScanFails \/ Complete
  BY <1>3 DEF ServerProgress, ServerScanFails, OnProgress, Complete, ScanFails, FinalStays
<1>4. CASE ScanEnds
  BY <1>4 DEF ScanEnds, Without, FinalStays
<1>5. CASE ExecutorWorker
  BY <1>5 DEF ExecutorWorker, ExecutorPlan, ExecutorReached, ExecutorRequest, serverVars, FinalStays
<1>6. CASE \E r \in Robots : RobotArrives(r)
  BY <1>6 DEF RobotArrives, serverVars, FinalStays
<1>7. CASE UNCHANGED vars
  BY <1>7 DEF vars, serverVars, FinalStays
<1> QED BY <1>1, <1>2, <1>3, <1>4, <1>5, <1>6, <1>7 DEF Next, ServerWorker, ServerCallback,
                                                       ServerRecordsEnd

\* The plan of a path continues where the path starts.
LEMMA PathContinues ==
  ASSUME NEW committed, Measured(dm, committed), Sound(dm), NEW r,
         NEW path, IsSequence(path), Len(path) > 1, path[1] = StartOf(committed, r),
         NEW p, NEW id, PlanOf(p, id, path, OffsetOf(committed, r))
  PROVE  /\ Continues(dm, r, p)
         /\ EndsBy(dm, r, p, RetainedOf(committed, r) + LastIndex(p))
<1> DEFINE offset == OffsetOf(committed, r)
<1>1. WellFormed(p) /\ Len(p.waypoints) = Len(path) /\ Len(path) \in Nat
      /\ \A k \in 1 .. Len(path) : p.waypoints[k].name = path[k] /\ p.waypoints[k].progress = k - 1 + offset
  BY LenProperties DEF PlanOf, IsSequence
<1>2. LastIndex(p) \in Nat /\ Indices(p) = 0 .. Len(path) - 1
      /\ \A k \in 0 .. Len(path) - 1 : WaypointAt(p, k) = p.waypoints[k + 1]
  BY <1>1, WaypointsAre
<1>3. ASSUME r \in Known(dm)
      PROVE  /\ offset = WaypointAt(dm.plan[r], dm.cut_indices[r]).progress
             /\ RetainedOf(committed, r) = dm.cut_indices[r]
             /\ path[1] = WaypointAt(dm.plan[r], dm.cut_indices[r]).name
  BY <1>3 DEF Measured, OffsetOf, RetainedOf, StartOf
<1>4. offset \in Int /\ RetainedOf(committed, r) \in Nat
  <2>1. CASE r \notin Known(dm)
    BY <2>1 DEF Measured, OffsetOf, RetainedOf
  <2>2. CASE r \in Known(dm)
    <3>1. dm.cut_indices[r] \in 0 .. LastIndex(dm.plan[r]) /\ WellFormed(dm.plan[r])
          /\ LastIndex(dm.plan[r]) \in Nat
      BY <2>2, SoundPlans DEF Measured
    <3>2. WaypointAt(dm.plan[r], dm.cut_indices[r]).progress \in Int
      BY <3>1, WaypointsAre DEF WellFormed
    <3> QED BY <1>3, <2>2, <3>1, <3>2
  <2> QED BY <2>1, <2>2
<1> HIDE DEF offset
<1>5. ProgressIncreases(p)
  <2> SUFFICES ASSUME NEW k \in 0 .. Len(path) - 1, NEW m \in 0 .. Len(path) - 1, k < m
               PROVE  p.waypoints[k + 1].progress < p.waypoints[m + 1].progress
    BY <1>2 DEF ProgressIncreases
  <2>1. k + 1 \in 1 .. Len(path) /\ m + 1 \in 1 .. Len(path)
    BY <1>1
  <2>2. p.waypoints[k + 1].progress = (k + 1) - 1 + offset
        /\ p.waypoints[m + 1].progress = (m + 1) - 1 + offset
    BY <1>1, <2>1
  <2> QED BY <1>4, <2>2
<1>6. p.waypoints[1].name = path[1] /\ p.waypoints[1].progress = offset
  <2>1. 1 \in 1 .. Len(path)
    BY <1>1
  <2>2. p.waypoints[1].progress = 1 - 1 + offset
    BY <1>1, <2>1
  <2> QED BY <1>1, <1>4, <2>1, <2>2
<1>7. Continues(dm, r, p)
  BY <1>3, <1>5, <1>6 DEF Continues, SameStop, Measured
<1>8. EndsBy(dm, r, p, RetainedOf(committed, r) + LastIndex(p))
  BY <1>2, <1>3, <1>4 DEF EndsBy
<1> QED BY <1>7, <1>8

\* A plan for robot r that a path from its start was made into.
FromStart(r, p) ==
  \E path : /\ IsSequence(path) /\ Len(path) > 1 /\ path[1] = StartOf(server.committed, r)
            /\ PlanOf(p, server.plan_ids[r], path, OffsetOf(server.committed, r))

LEMMA SolutionStarts ==
  ASSUME SolverReturnsPaths, PathsStartAtStarts, PlansInv, Solve, server'.at = "publishing"
  PROVE  /\ server'.left = DOMAIN server'.plans
         /\ \A r \in server'.left : FromStart(r, server'.plans[r])
         /\ LET plans == server'.plans
                plan_ids == server.plan_ids
                final == [r \in DOMAIN plans |-> RetainedOf(server.committed, r) + LastIndex(plans[r])]
                ids == {plan_ids[r] : r \in DOMAIN plans}
            IN final_waypoints' = [id \in DOMAIN final_waypoints \cup ids |->
                                     IF id \in ids
                                     THEN final[CHOOSE r \in DOMAIN plans : plan_ids[r] = id]
                                     ELSE final_waypoints[id]]
<1> DEFINE Offsets(paths) == [r \in DOMAIN paths |-> OffsetOf(server.committed, r)]
           Plans(paths) == Generate(paths, server.plan_ids, Offsets(paths))
           Finals(plans) == [r \in DOMAIN plans |-> RetainedOf(server.committed, r) + LastIndex(plans[r])]
           Ids(plans) == {server.plan_ids[r] : r \in DOMAIN plans}
           After(plans) == [id \in DOMAIN final_waypoints \cup Ids(plans) |->
                              IF id \in Ids(plans)
                              THEN Finals(plans)[CHOOSE r \in DOMAIN plans : server.plan_ids[r] = id]
                              ELSE final_waypoints[id]]
<1>1. PICK paths \in Solutions(server.tasks, server.committed, server.stationary) :
        /\ server'.plans = Plans(paths) /\ server'.left = DOMAIN Plans(paths)
        /\ final_waypoints' = After(Plans(paths))
  <2>1. Idle.at # "publishing" /\ Dead.at # "publishing"
    BY DEF Idle, Dead
  <2>2. PICK paths \in Solutions(server.tasks, server.committed, server.stationary) :
          /\ server' = [ at |-> "publishing", tasks |-> server.tasks,
                         committed |-> server.committed, plan_ids |-> server.plan_ids,
                         plans |-> Plans(paths), left |-> DOMAIN Plans(paths) ]
          /\ final_waypoints' = After(Plans(paths))
    BY <2>1 DEF Solve, BatchFails
  <2> HIDE DEF Plans, After
  <2> QED BY <2>2
<1>2. \A r \in DOMAIN paths : IsSequence(paths[r]) /\ paths[r] # <<>>
  BY DEF Solutions, SolverReturnsPaths
<1>3. \A r \in DOMAIN paths : paths[r][1] = StartOf(server.committed, r)
  <2> DEFINE agents == Agents(server.stationary)
             starts == [r \in agents |-> StartOf(server.committed, r)]
             goals == [r \in agents |-> GoalOf(server.tasks, r)]
  <2>1. paths \in Solver(starts, goals, Obstacles(server.stationary))
    BY DEF Solutions
  <2>2. DOMAIN paths = agents
    <3>1. DOMAIN paths = DOMAIN starts
      <4> HIDE DEF starts, goals
      <4> QED BY <2>1 DEF SolverReturnsPaths
    <3> QED BY <3>1
  <2>3. \A r \in DOMAIN starts : paths[r][1] = starts[r]
    <3> HIDE DEF starts, goals
    <3> QED BY <2>1 DEF PathsStartAtStarts
  <2> QED BY <2>2, <2>3
<1> DEFINE offset == Offsets(paths)
           ids == server.plan_ids
           plans == Generate(paths, ids, offset)
<1>4. \A r \in DOMAIN paths : offset[r] = OffsetOf(server.committed, r) /\ offset[r] \in Int
  <2>1. Located(server.committed)
    BY DEF Solve, PlansInv, AnswersLocated
  <2> QED BY <2>1 DEF Located, OffsetOf
<1>5. server'.plans = plans /\ server'.left = DOMAIN plans /\ final_waypoints' = After(plans)
  BY <1>1 DEF offset, ids
<1> HIDE DEF Offsets, offset, ids, Plans, After
<1>6. /\ DOMAIN plans = {r \in DOMAIN paths : Len(paths[r]) > 1}
      /\ \A r \in DOMAIN plans : PlanOf(plans[r], ids[r], paths[r], offset[r])
  <2>1. \A r \in DOMAIN paths : IsSequence(paths[r]) /\ paths[r] # <<>> /\ offset[r] \in Int
    BY <1>2, <1>4
  <2> HIDE DEF plans
  <2>2. plans = Generate(paths, ids, offset)
    BY DEF plans
  <2> QED BY <2>1, <2>2, PlansOfPaths
<1> HIDE DEF plans
<1>7. ASSUME NEW r \in DOMAIN plans PROVE FromStart(r, plans[r])
  <2>1. /\ IsSequence(paths[r]) /\ Len(paths[r]) > 1 /\ paths[r][1] = StartOf(server.committed, r)
        /\ PlanOf(plans[r], ids[r], paths[r], OffsetOf(server.committed, r))
    BY <1>2, <1>3, <1>4, <1>6
  <2> QED BY <2>1 DEF FromStart, ids
<1> QED BY <1>5, <1>7 DEF After

\* The plans that are made of a solution fit, and are the only ones whose ends
\* are expected anew.
LEMMA SolutionFits ==
  ASSUME SolverReturnsPaths, PathsStartAtStarts, PlansInv, AnswersMeasured, IdsInv,
         Solve, server'.at = "publishing"
  PROVE  /\ \A r \in server'.left :
              Fits(dm, final_waypoints', r, server'.plan_ids[r], server'.plans[r])
         /\ \A id \in Held : FinalStays(id)
<1> DEFINE plans == server'.plans
           plan_ids == server.plan_ids
           final == [r \in DOMAIN plans |-> RetainedOf(server.committed, r) + LastIndex(plans[r])]
           ids == {plan_ids[r] : r \in DOMAIN plans}
<1>1. /\ server'.left = DOMAIN plans
      /\ \A r \in DOMAIN plans : FromStart(r, plans[r])
      /\ final_waypoints' = [id \in DOMAIN final_waypoints \cup ids |->
                               IF id \in ids
                               THEN final[CHOOSE r \in DOMAIN plans : plan_ids[r] = id]
                               ELSE final_waypoints[id]]
  BY SolutionStarts
<1>2. /\ server'.plan_ids = plan_ids /\ server'.left \subseteq DOMAIN server.tasks
      /\ server.at = "identified"
  BY SolutionIsNamed
<1>3. /\ \A r \in DOMAIN plans : plan_ids[r] \notin Held
      /\ \A r, s \in DOMAIN plans : plan_ids[r] = plan_ids[s] => r = s
  <2>1. DOMAIN plans \subseteq Due
    BY <1>1, <1>2 DEF Due
  <2> QED BY <2>1 DEF IdsInv, DueIsNew
<1> HIDE DEF plans, plan_ids
<1>4. ASSUME NEW id \in Held PROVE FinalStays(id)
  <2>1. id \notin ids
    BY <1>3
  <2> QED BY <1>1, <2>1 DEF FinalStays
<1>5. ASSUME NEW r \in DOMAIN plans PROVE Fits(dm, final_waypoints', r, plan_ids[r], plans[r])
  <2>1. final_waypoints'[plan_ids[r]] = RetainedOf(server.committed, r) + LastIndex(plans[r])
    <3> DEFINE s == CHOOSE s \in DOMAIN plans : plan_ids[s] = plan_ids[r]
    <3>1. s = r
      BY <1>3
    <3>2. final_waypoints'[plan_ids[r]] = final[s]
      BY <1>1
    <3> QED BY <3>1, <3>2
  <2>2. Measured(dm, server.committed) /\ Sound(dm)
    BY <1>2 DEF AnswersMeasured, PlansInv
  <2>3. PICK path : /\ IsSequence(path) /\ Len(path) > 1 /\ path[1] = StartOf(server.committed, r)
                    /\ PlanOf(plans[r], plan_ids[r], path, OffsetOf(server.committed, r))
    BY <1>1 DEF FromStart, plan_ids
  <2>4. /\ Continues(dm, r, plans[r])
        /\ EndsBy(dm, r, plans[r], RetainedOf(server.committed, r) + LastIndex(plans[r]))
    BY <2>2, <2>3, PathContinues
  <2> QED BY <2>1, <2>4 DEF Fits
<1> QED BY <1>1, <1>2, <1>4, <1>5 DEF plans, plan_ids

-----------------------------------------------------------------------------
(* Plans fit, from the solution until they are joined.                     *)

ComingFit ==
  \A n \in Coming :
    LET m == message_queue[n] IN Fits(dm, final_waypoints, m.robot, m.plan.plan_id, m.plan)
LeavingFit ==
  server.at = "publishing" =>
    \A r \in Robots \cap server.left :
      Fits(dm, final_waypoints, r, server.plan_ids[r], server.plans[r])
\* A plan that a robot has ends where it is expected to, or before.
EndsInTime(d, finals, r) ==
  /\ ProgressIncreases(d.plan[r])
  /\ d.plan[r].plan_id \in DOMAIN finals => LastIndex(d.plan[r]) <= finals[d.plan[r].plan_id]
KnownFit == \A r \in Known(dm) : EndsInTime(dm, final_waypoints, r)

FitInv ==
  /\ FreshInv
  /\ OrderInv
  /\ AnswersMeasured
  /\ ComingFit
  /\ LeavingFit
  /\ KnownFit

LEMMA FitsOn ==
  ASSUME Sound(dm), NEW e, NEW r, SameFor(dm, e, r), NEW id, FinalStays(id),
         NEW p, Fits(dm, final_waypoints, r, id, p)
  PROVE  Fits(e, final_waypoints', r, id, p)
<1>1. Continues(dm, r, p) /\ Continues(e, r, p)
  BY SameContinues DEF Fits
<1>2. ASSUME id \in DOMAIN final_waypoints' PROVE EndsBy(e, r, p, final_waypoints'[id])
  <2>1. EndsBy(dm, r, p, final_waypoints[id]) /\ final_waypoints'[id] = final_waypoints[id]
    BY <1>2 DEF Fits, FinalStays
  <2> QED BY <1>1, <2>1, SameContinues
<1> QED BY <1>1, <1>2 DEF Fits

\* For whom a step leaves plans and cuts as they are.
LEMMA StepsAreSame ==
  ASSUME PlansInv, [Next]_vars
  PROVE  \/ \A r : SameFor(dm, dm', r)
         \/ ExecutorPlan /\ \A r \in Robots : r # First.robot => SameFor(dm, dm', r)
         \/ ExecutorRequest
<1>1. CASE UNCHANGED dm
  BY <1>1 DEF SameFor, SameStop
<1>2. CASE ExecutorPlan
  BY <1>2, PlanJoins DEF ExecutorPlan
<1>3. CASE ExecutorReached
  BY <1>3, ReachedJoinsNothing DEF ExecutorReached
<1>4. UNCHANGED dm \/ ExecutorPlan \/ ExecutorReached \/ ExecutorRequest
  BY OtherSteps DEF ServerBatch, ServerPublish, ServerProgress, ServerRecordsEnd, RobotArrives, Arrive,
                    OnCommittedLocationsRequest, executorVars
<1> QED BY <1>1, <1>2, <1>3, <1>4

\* Of the steps of server and executor, those of Solve expect new ends, of
\* plans that nobody has.
LEMMA HeldFinalsStay ==
  ASSUME SolverReturnsPaths, PathsStartAtStarts, FitInv, [Next]_vars
  PROVE  /\ \A id \in Held : FinalStays(id)
         /\ Solve \/ \A id : FinalStays(id)
<1>1. CASE Solve /\ server'.at = "publishing"
  BY <1>1, SolutionFits DEF FitInv, FreshInv
<1>2. CASE Solve /\ server'.at # "publishing"
  <2>1. \/ UNCHANGED final_waypoints
        \/ \E a, b, c, d, e :
             server' = [ at |-> "publishing", tasks |-> a, committed |-> b, plan_ids |-> c,
                         plans |-> d, left |-> e ]
    BY <1>2 DEF Solve
  <2> QED BY <1>2, <2>1 DEF FinalStays
<1> QED BY <1>1, <1>2, FinalSteps

\* The robots whose plans are on their way have no other one to wait for.
LEMMA ComingIsSame ==
  ASSUME FitInv, [Next]_vars, NEW n \in Coming, ExecutorPlan => n # 1
  PROVE  SameFor(dm, dm', message_queue[n].robot)
<1>1. PlansInv /\ OrderInv
  BY DEF FitInv, FreshInv
<1>2. CASE ExecutorPlan /\ \A r \in Robots : r # First.robot => SameFor(dm, dm', r)
  <2>1. 1 \in Coming
    BY <1>1, <1>2, FirstIs DEF ExecutorPlan, HandlePlan, First, Coming
  <2>2. message_queue[n].robot # First.robot
    BY <1>1, <1>2, <2>1 DEF OrderInv, OnePlanEach, First
  <2>3. message_queue[n].robot \in Robots
    BY <1>1 DEF PlansInv, PlansComing, Proper, Coming
  <2> QED BY <1>2, <2>2, <2>3
<1>3. CASE ExecutorRequest
  <2>1. 1 \in DOMAIN message_queue /\ message_queue[1].type = Request
    BY <1>1, <1>3, FirstIs DEF ExecutorRequest, HandleCommittedLocationsRequest, First, Request
  <2>2. n < 1 /\ n \in 1 .. Len(message_queue) /\ Len(message_queue) \in Nat
    BY <1>1, <2>1, LenProperties DEF OrderInv, PlansBeforeRequests, Coming, PlansInv, AnswersInv,
                                     QueuesTyped, IsSequence
  <2> QED BY <2>2
<1> QED BY <1>1, <1>2, <1>3, StepsAreSame

LEMMA LeavingIsSame ==
  ASSUME FitInv, [Next]_vars, server.at = "publishing", NEW r \in Robots \cap server.left
  PROVE  SameFor(dm, dm', r)
<1>1. PlansInv /\ OrderInv
  BY DEF FitInv, FreshInv
<1>2. CASE ExecutorPlan /\ \A s \in Robots : s # First.robot => SameFor(dm, dm', s)
  <2>1. 1 \in Coming
    BY <1>1, <1>2, FirstIs DEF ExecutorPlan, HandlePlan, First, Coming
  <2>2. r # First.robot
    BY <1>1, <2>1 DEF OrderInv, OnePlanEach, First
  <2> QED BY <1>2, <2>2
<1>3. CASE ExecutorRequest
  <2>1. 1 \in DOMAIN message_queue /\ message_queue[1].type = Request
    BY <1>1, <1>3, FirstIs DEF ExecutorRequest, HandleCommittedLocationsRequest, First, Request
  <2> QED BY <1>1, <2>1 DEF OrderInv, PlansBeforeRequests
<1> QED BY <1>1, <1>2, <1>3, StepsAreSame

LEMMA ComingFitKept ==
  ASSUME SolverReturnsPaths, PathsStartAtStarts, ~Ros, FitInv, [Next]_vars
  PROVE  ComingFit'
<1> SUFFICES ASSUME NEW n \in Coming'
             PROVE  LET m == message_queue'[n]
                    IN Fits(dm', final_waypoints', m.robot, m.plan.plan_id, m.plan)
  BY DEF ComingFit
<1>1. PlansInv /\ DeliveredOnce /\ PlansNamed
  BY DEF FitInv, FreshInv
<1>2. ASSUME NEW k \in Coming, message_queue'[n] = message_queue[k], ExecutorPlan => k # 1
      PROVE  LET m == message_queue'[n]
             IN Fits(dm', final_waypoints', m.robot, m.plan.plan_id, m.plan)
  <2> DEFINE m == message_queue[k]
  <2>1. SameFor(dm, dm', m.robot)
    BY <1>2, ComingIsSame
  <2>2. m.plan.plan_id \in Held
    BY DEF Held, ComingIds
  <2>3. FinalStays(m.plan.plan_id)
    BY <2>2, HeldFinalsStay
  <2>4. Sound(dm) /\ Fits(dm, final_waypoints, m.robot, m.plan.plan_id, m.plan)
    BY <1>1 DEF PlansInv, FitInv, ComingFit
  <2> QED BY <1>2, <2>1, <2>3, <2>4, FitsOn
<1>3. ASSUME NEW r \in Robots, ServerPublish(r), ~ExecutorPlan
      PROVE  LET m == message_queue'[n]
             IN Fits(dm', final_waypoints', m.robot, m.plan.plan_id, m.plan)
  <2> DEFINE p == server.plans[r]
             message == PlanMessage(r, Carried(p))
  <2>1. /\ server.at = "publishing" /\ r \in server.left
        /\ Stays(n) \/ (n = Len(message_queue) + 1 /\ message_queue'[n] = message)
    BY <1>1, <1>3, PublishedIs DEF Coming
  <2>2. CASE Stays(n)
    <3>1. n \in Coming
      BY <2>2 DEF Stays, Coming
    <3> QED BY <1>2, <1>3, <2>2, <3>1 DEF Stays
  <2>3. CASE message_queue'[n] = message
    <3>1. message.robot = r /\ message.plan = p
      BY DEF PlanMessage, Carried
    <3>2. Fits(dm, final_waypoints, r, server.plan_ids[r], p) /\ server.plan_ids[r] = p.plan_id
      BY <1>1, <2>1 DEF FitInv, LeavingFit, PlansNamed
    <3>3. UNCHANGED <<dm, final_waypoints>>
      BY <1>3 DEF ServerPublish, PublishPlan
    <3> HIDE DEF message
    <3> QED BY <2>3, <3>1, <3>2, <3>3
  <2> QED BY <2>1, <2>2, <2>3
<1>4. CASE message_queue # <<>> /\ message_queue' = Tail(message_queue)
  <2>1. n + 1 \in DOMAIN message_queue /\ n + 1 # 1 /\ message_queue'[n] = message_queue[n + 1]
    BY <1>1, <1>4, TakenFrom DEF Coming
  <2>2. n + 1 \in Coming
    BY <2>1 DEF Coming
  <2> QED BY <1>2, <2>1, <2>2
<1>5. CASE UNCHANGED message_queue /\ ~ExecutorPlan
  BY <1>2, <1>5 DEF Coming
<1>6. ASSUME NEW message, message.type # "plan", message_queue' = Append(message_queue, message),
             ~ExecutorPlan
      PROVE  LET m == message_queue'[n]
             IN Fits(dm', final_waypoints', m.robot, m.plan.plan_id, m.plan)
  <2>1. Stays(n) \/ message_queue'[n] = message
    BY <1>1, <1>6, AppendedTo DEF Coming
  <2>2. Stays(n) /\ n \in Coming
    BY <1>6, <2>1 DEF Stays, Coming
  <2> QED BY <1>2, <1>6, <2>2 DEF Stays
<1>7. ExecutorPlan => message_queue # <<>> /\ message_queue' = Tail(message_queue)
  BY DEF ExecutorPlan, HandlePlan, NextMessage
<1> QED BY <1>3, <1>4, <1>5, <1>6, <1>7, QueueSteps

LEMMA LeavingFitKept ==
  ASSUME SolverReturnsPaths, PathsStartAtStarts, FitInv, [Next]_vars
  PROVE  LeavingFit'
<1>1. PlansInv
  BY DEF FitInv, FreshInv
<1> SUFFICES ASSUME server'.at = "publishing", NEW r \in Robots \cap server'.left
             PROVE  Fits(dm', final_waypoints', r, server'.plan_ids[r], server'.plans[r])
  BY DEF LeavingFit
<1>2. CASE Solve
  <2>1. Fits(dm, final_waypoints', r, server'.plan_ids[r], server'.plans[r])
    BY <1>1, <1>2, SolutionFits DEF FitInv, FreshInv
  <2>2. server.at = "identified"
    BY <1>2 DEF Solve
  <2>3. ~ExecutorPlan /\ ~ExecutorReached /\ ~ExecutorRequest
    BY <2>2 DEF ExecutorPlan, ExecutorReached, ExecutorRequest, serverVars
  <2>4. UNCHANGED dm
    BY <2>3, OtherSteps DEF ServerBatch, ServerPublish, ServerProgress, ServerRecordsEnd,
                            RobotArrives, Arrive, OnCommittedLocationsRequest, executorVars
  <2> QED BY <2>1, <2>4
<1>3. CASE ~Solve
  <2>1. /\ server.at = "publishing" /\ server'.left \subseteq server.left
        /\ server'.plans = server.plans /\ server'.plan_ids = server.plan_ids
    BY <1>1, <1>3, PublishingIs
  <2>2. SameFor(dm, dm', r)
    BY <2>1, LeavingIsSame
  <2>3. FinalStays(server.plan_ids[r])
    BY <1>3, HeldFinalsStay
  <2>4. Sound(dm) /\ Fits(dm, final_waypoints, r, server.plan_ids[r], server.plans[r])
    BY <1>1, <2>1 DEF PlansInv, FitInv, LeavingFit
  <2> QED BY <2>1, <2>2, <2>3, <2>4, FitsOn
<1> QED BY <1>2, <1>3

LEMMA EndsStay ==
  ASSUME NEW d, Sound(d), NEW e, NEW r \in Known(d), SameFor(d, e, r), EndsInTime(d, final_waypoints, r),
         FinalStays(d.plan[r].plan_id)
  PROVE  EndsInTime(e, final_waypoints', r)
<1>1. LastIndex(e.plan[r]) = LastIndex(d.plan[r]) /\ e.plan[r].plan_id = d.plan[r].plan_id
  BY SameLength DEF SameFor
<1>2. ProgressIncreases(e.plan[r])
  BY SameIncreases DEF EndsInTime
<1> QED BY <1>1, <1>2 DEF EndsInTime, FinalStays

LEMMA KnownFitKept ==
  ASSUME SolverReturnsPaths, PathsStartAtStarts, FitInv, [Next]_vars
  PROVE  KnownFit'
<1>1. PlansInv /\ Sound(dm)
  BY DEF FitInv, FreshInv, PlansInv
<1>2. ASSUME NEW r \in Known(dm), SameFor(dm, dm', r) PROVE EndsInTime(dm', final_waypoints', r)
  <2>1. dm.plan[r].plan_id \in Held
    BY DEF Held, Executed
  <2>2. FinalStays(dm.plan[r].plan_id)
    BY <2>1, HeldFinalsStay
  <2> QED BY <1>1, <1>2, <2>2, EndsStay DEF FitInv, KnownFit
<1>3. CASE \A r : SameFor(dm, dm', r)
  BY <1>2, <1>3 DEF KnownFit, SameFor
<1>4. CASE ExecutorPlan
  <2> DEFINE r == First.robot
             p == First.plan
             id == p.plan_id
  <2>1. HandlePlan /\ UNCHANGED final_waypoints
    BY <1>4 DEF ExecutorPlan, serverVars
  <2>2. 1 \in Coming /\ First = message_queue[1]
    BY <1>1, <2>1, FirstIs DEF HandlePlan, First, Coming
  <2>3. Fits(dm, final_waypoints, r, id, p)
    BY <2>2 DEF FitInv, ComingFit
  <2>4. Known(dm') = Known(dm) \cup {r} /\ (\A s \in Known(dm') : s = r => dm'.plan[s].plan_id = id)
    BY <1>1, <2>1, PlanHandled
  <2>5. r \in Known(dm) => ProgressIncreases(dm.plan[r])
    BY DEF FitInv, KnownFit, EndsInTime
  <2>6. ProgressIncreases(dm'.plan[r])
    BY <1>1, <2>1, <2>3, <2>5, PlanJoins DEF Fits
  <2>7. ASSUME id \in DOMAIN final_waypoints PROVE LastIndex(dm'.plan[r]) <= final_waypoints[id]
    <3>1. Continues(dm, r, p) /\ EndsBy(dm, r, p, final_waypoints[id])
      BY <2>3, <2>7 DEF Fits
    <3> QED BY <1>1, <2>1, <2>5, <3>1, PlanJoins
  <2>8. EndsInTime(dm', final_waypoints', r)
    BY <2>1, <2>4, <2>6, <2>7 DEF EndsInTime
  <2>9. ASSUME NEW s \in Known(dm'), s # r PROVE EndsInTime(dm', final_waypoints', s)
    <3>1. s \in Known(dm) /\ s \in Robots
      BY <1>1, <2>4, <2>9 DEF Sound
    <3>2. SameFor(dm, dm', s)
      BY <1>1, <2>1, <2>9, <3>1, PlanJoins
    <3> QED BY <1>2, <3>1, <3>2
  <2> QED BY <2>8, <2>9 DEF KnownFit
<1>5. CASE ExecutorRequest
  <2>1. UNCHANGED final_waypoints /\ Known(dm') = Known(dm) /\ dm'.plan = dm.plan
    BY <1>1, <1>5, CutIsSound DEF ExecutorRequest, HandleCommittedLocationsRequest
  <2> QED BY <2>1 DEF FitInv, KnownFit, EndsInTime
<1> QED BY <1>1, <1>3, <1>4, <1>5, StepsAreSame

LEMMA FitNext ==
  ASSUME SolverReturnsPaths, PathsStartAtStarts, ~Ros, FitInv, [Next]_vars, FreshInv'
  PROVE  FitInv'
<1>1. OrderInv'
  BY OrderKept DEF FitInv, FreshInv
<1>2. AnswersMeasured'
  BY MeasuredKept DEF FitInv, FreshInv
<1> QED BY <1>1, <1>2, ComingFitKept, LeavingFitKept, KnownFitKept DEF FitInv

LEMMA FitInvHolds ==
  ASSUME SolverReturnsPaths, PathsStartAtStarts, TasksOfOneRobot, ~Ros
  PROVE  Spec => []FitInv
<1>1. Init => OrderInv /\ AnswersMeasured /\ ComingFit /\ LeavingFit /\ KnownFit
  <2> SUFFICES ASSUME Init PROVE OrderInv /\ AnswersMeasured /\ ComingFit /\ LeavingFit /\ KnownFit
    OBVIOUS
  <2>1. message_queue = <<>> /\ responses = <<>> /\ server = Idle /\ dm = EmptyManager
    BY DEF Init, ServerInit, ExecutorInit
  <2>2. DOMAIN <<>> = {} /\ Idle.at = "idle"
    BY DEF Idle
  <2>3. Known(dm) = {} /\ Coming = {}
    BY <2>1, <2>2 DEF Known, EmptyManager, Coming
  <2>4. OrderInv
    BY <2>1, <2>2, <2>3 DEF OrderInv, PlansBeforeRequests, OnePlanEach
  <2>5. AnswersMeasured
    BY <2>1, <2>2 DEF AnswersMeasured
  <2> QED BY <2>1, <2>2, <2>3, <2>4, <2>5 DEF ComingFit, LeavingFit, KnownFit
<1>2. FitInv /\ [Next]_vars /\ FreshInv' => FitInv'
  BY FitNext
<1> QED BY <1>1, <1>2, FreshInvHolds, PTL DEF Spec, FitInv

\* Wherever plans are cut and joined, the progress of a plan increases from
\* waypoint to waypoint: a plan is joined where the old one was cut, with the
\* progress that the executor told of the cut (update_plan_after_cut,
\* dependency_manager.py, and the offsets of plan_server.py).
THEOREM JoinedProgressIncreases ==
  ASSUME SolverReturnsPaths, PathsStartAtStarts, TasksOfOneRobot, ~Ros
  PROVE  Spec => []ProgressKeepsIncreasing
<1>1. FitInv => ProgressKeepsIncreasing
  BY DEF FitInv, KnownFit, EndsInTime, ProgressKeepsIncreasing
<1> QED BY <1>1, FitInvHolds, PTL

-----------------------------------------------------------------------------
(* What the server takes for the end of a plan is one.                     *)

StatusesTyped ==
  DOMAIN statuses = TaskIds /\ \A t \in TaskIds : IsSequence(statuses[t])
ReportsDone ==
  \A n \in DOMAIN reports :
    LET report == reports[n].report
    IN report.plan_id \in DOMAIN final_waypoints
         /\ report.reached_waypoint = final_waypoints[report.plan_id]
       => report.plan_id \in dm.completed_plan_ids
RecordingDone == Recording => callback.plan_id \in dm.completed_plan_ids

\* What is published is put behind what there is, with one of those given.
OnlyAdds(history, later, given) ==
  /\ DOMAIN later = TaskIds
  /\ \A t \in TaskIds :
       /\ IsSequence(later[t])
       /\ later[t] # history[t] => later[t][Len(later[t])] \in given

LEMMA PublishedAdds ==
  ASSUME NEW history, NEW given, NEW earlier, OnlyAdds(history, earlier, given),
         NEW ids, NEW status \in given
  PROVE  OnlyAdds(history, Published(earlier, ids, status), given)
<1> DEFINE later == Published(earlier, ids, status)
<1>1. DOMAIN later = TaskIds /\ \A t \in TaskIds : later[t] = earlier[t] \/ later[t] = Append(earlier[t], status)
  BY DEF Published
<1> HIDE DEF later
<1>2. ASSUME NEW t \in TaskIds
      PROVE  IsSequence(later[t]) /\ (later[t] # history[t] => later[t][Len(later[t])] \in given)
  <2>1. IsSequence(earlier[t]) /\ (earlier[t] # history[t] => earlier[t][Len(earlier[t])] \in given)
    BY DEF OnlyAdds
  <2>2. CASE later[t] = earlier[t]
    BY <2>1, <2>2
  <2>3. CASE later[t] = Append(earlier[t], status)
    <3> DEFINE s == earlier[t]
               u == later[t]
    <3>1. /\ Len(s) \in Nat /\ IsSequence(u) /\ Len(u) = Len(s) + 1
          /\ \A n \in 1 .. Len(s) + 1 : u[n] = IF n <= Len(s) THEN s[n] ELSE status
      <4> HIDE DEF s
      <4>1. IsSequence(s) /\ u = Append(s, status)
        BY <2>1, <2>3 DEF s
      <4> HIDE DEF u
      <4> QED BY <4>1, AppendedIs
    <3> HIDE DEF s, u
    <3>2. u[Len(u)] = status
      BY <3>1
    <3> QED BY <3>1, <3>2 DEF u
  <2> QED BY <1>1, <2>2, <2>3
<1> QED BY <1>1, <1>2 DEF OnlyAdds, later

\* Only the callback publishes that a task is completed.
LEMMA StatusSteps ==
  ASSUME StatusesTyped, [Next]_vars
  PROVE  /\ StatusesTyped'
         /\ Recording \/ \A t \in TaskIds :
              statuses'[t] # statuses[t] => statuses'[t][Len(statuses'[t])] # "COMPLETED"
<1> DEFINE Given == {"SUPERSEDED", "FAILED", "PLANNING", "PLANNED"}
<1>1. \A given : OnlyAdds(statuses, statuses, given)
  BY DEF StatusesTyped, OnlyAdds
<1>2. ASSUME OnlyAdds(statuses, statuses', Given)
      PROVE  /\ StatusesTyped'
             /\ Recording \/ \A t \in TaskIds :
                  statuses'[t] # statuses[t] => statuses'[t][Len(statuses'[t])] # "COMPLETED"
  BY <1>2 DEF StatusesTyped, OnlyAdds
<1>3. CASE ProcessBatch
  <2>1. PICK a, b, c :
          statuses' = Published(Published(Published(statuses, a, "SUPERSEDED"), b, "FAILED"), c, "PLANNING")
    BY <1>3 DEF ProcessBatch
  <2> DEFINE s1 == Published(statuses, a, "SUPERSEDED")
             s2 == Published(s1, b, "FAILED")
  <2>2. OnlyAdds(statuses, s1, Given)
    BY <1>1, PublishedAdds
  <2> HIDE DEF s1
  <2>3. OnlyAdds(statuses, s2, Given)
    BY <2>2, PublishedAdds
  <2> HIDE DEF s2
  <2>4. OnlyAdds(statuses, Published(s2, c, "PLANNING"), Given)
    BY <2>3, PublishedAdds
  <2> QED BY <1>2, <2>1, <2>4 DEF s1, s2
<1>4. ASSUME NEW ids, NEW status \in Given, statuses' = Published(statuses, ids, status)
      PROVE  OnlyAdds(statuses, statuses', Given)
  BY <1>1, <1>4, PublishedAdds
<1>5. CASE Solve \/ SupersedeTasks \/ RecordBatch \/ WaitTimesOut
  <2>1. UNCHANGED statuses \/ \E ids : \E status \in Given : statuses' = Published(statuses, ids, status)
    <3>1. CASE Solve
      BY <3>1 DEF Solve, BatchFails
    <3>2. CASE SupersedeTasks \/ RecordBatch \/ WaitTimesOut
      BY <3>2 DEF SupersedeTasks, RecordBatch, WaitTimesOut, BatchFails
    <3> QED BY <1>5, <3>1, <3>2
  <2> QED BY <1>1, <1>2, <1>4, <2>1
<1>6. CASE ServerRecordsEnd
  <2>1. Recording
    BY <1>6 DEF ServerRecordsEnd, ScanEnds, Complete, Recording
  <2>2. UNCHANGED statuses \/ \E ids : statuses' = Published(statuses, ids, "COMPLETED")
    BY <1>6 DEF ServerRecordsEnd, ScanEnds, Complete
  <2>3. OnlyAdds(statuses, statuses', {"COMPLETED"})
    BY <1>1, <2>2, PublishedAdds
  <2> QED BY <2>1, <2>3 DEF OnlyAdds, StatusesTyped
<1>7. UNCHANGED statuses \/ ProcessBatch \/ Solve \/ SupersedeTasks \/ RecordBatch \/ WaitTimesOut
      \/ ServerRecordsEnd
  <2>1. CASE Client
    BY <2>1 DEF Client, SendTasks, OnboardAtServer, OnboardAtExecutor, Discovery,
                OnTaskRequests, AddRobot, serverVars
  <2>2. CASE ServerBatch \/ ServerInternal \/ ServerTimeout \/ \E r \in Robots : ServerPublish(r)
    BY <2>2 DEF ServerBatch, ServerInternal, ServerTimeout, ServerPublish, PublishPlan,
                TakeResponse, AssignPlanIds
  <2>3. CASE ServerCallback
    BY <2>3 DEF ServerCallback, ServerProgress, ServerScanFails, OnProgress, ScanFails
  <2>4. CASE ExecutorWorker \/ \E r \in Robots : RobotArrives(r)
    BY <2>4 DEF ExecutorWorker, ExecutorPlan, ExecutorReached, ExecutorRequest, RobotArrives, serverVars
  <2>5. CASE UNCHANGED vars
    BY <2>5 DEF vars, serverVars
  <2> QED BY <2>1, <2>2, <2>3, <2>4, <2>5 DEF Next, ServerWorker
<1> QED BY <1>1, <1>2, <1>3, <1>5, <1>6, <1>7

LEMMA CompletedStays ==
  ASSUME PlansInv, [Next]_vars
  PROVE  dm.completed_plan_ids \subseteq dm'.completed_plan_ids
<1>1. CASE HandlePlan
  BY <1>1, PlanHandled
<1>2. CASE HandleWaypointReached
  BY <1>2, ReachedHandled
<1>3. CASE HandleCommittedLocationsRequest
  BY <1>3, CutIsSound DEF HandleCommittedLocationsRequest, PlansInv
<1> QED BY <1>1, <1>2, <1>3, ChangedByHandlers

\* The report that a robot has reached the waypoint where its plan is expected
\* to end, or a later one, goes out when the plan is completed.
LEMMA ReportIsDone ==
  ASSUME FitInv, ExecutorReached, NEW n \in DOMAIN reports',
         ~\E m \in DOMAIN reports : reports'[n] = reports[m],
         reports'[n].report.plan_id \in DOMAIN final_waypoints',
         reports'[n].report.reached_waypoint = final_waypoints'[reports'[n].report.plan_id]
  PROVE  reports'[n].report.plan_id \in dm'.completed_plan_ids
<1> DEFINE r == First.robot
           report == [robot |-> r, report |-> ProgressMessage(r, First.index)]
           k == subscriptions["server"][r]
<1>1. /\ HandleWaypointReached /\ UNCHANGED final_waypoints /\ NextMessage(Reached)
  BY DEF ExecutorReached, HandleWaypointReached, serverVars, Reached
<1>2. PlansInv /\ KnownReports /\ IsSequence(reports)
  BY DEF FitInv, FreshInv, KnownReports
<1>3. /\ 1 \in DOMAIN message_queue /\ First = message_queue[1] /\ First.type = Reached
      /\ Head(message_queue) = First
  BY <1>1, <1>2, FirstIs
<1>4. reports' = reports \o [m \in 1 .. k |-> report]
  BY <1>3 DEF ExecutorReached, Delivered
<1>5. r \in Known(dm) /\ k \in Nat
  <2>1. r \in Known(dm) /\ r \in Robots
    BY <1>2, <1>3 DEF KnownReports, PlansInv, Sound
  <2> QED BY <1>2, <2>1 DEF PlansInv, AnswersInv, QueuesTyped
<1>6. /\ report.report.plan_id = dm.plan[r].plan_id
      /\ report.report.reached_waypoint = First.index
  BY DEF ProgressMessage
<1> HIDE DEF report, k, r
<1>7. reports'[n] = report
  BY <1>2, <1>4, <1>5, CopiesPutIn
<1>8. /\ dm.plan[r].plan_id \in DOMAIN final_waypoints
      /\ First.index = final_waypoints[dm.plan[r].plan_id]
  BY <1>1, <1>6, <1>7
<1>9. LastIndex(dm.plan[r]) <= First.index
  BY <1>5, <1>8 DEF FitInv, KnownFit, EndsInTime
<1>10. dm'.completed_plan_ids =
         IF r \in Known(dm) /\ First.index >= LastIndex(dm.plan[r])
         THEN dm.completed_plan_ids \cup {dm.plan[r].plan_id}
         ELSE dm.completed_plan_ids
  BY <1>1, <1>2, ReachedHandled DEF r
<1> QED BY <1>5, <1>6, <1>7, <1>9, <1>10

LEMMA DoneKept ==
  ASSUME SolverReturnsPaths, PathsStartAtStarts, FitInv, ReportsDone, RecordingDone, [Next]_vars
  PROVE  ReportsDone' /\ RecordingDone'
<1>1. PlansInv /\ KnownReports /\ dm.completed_plan_ids \subseteq dm'.completed_plan_ids
  BY CompletedStays DEF FitInv, FreshInv
<1>2. ASSUME NEW n \in DOMAIN reports', NEW m \in DOMAIN reports, reports'[n] = reports[m],
             reports'[n].report.plan_id \in DOMAIN final_waypoints',
             reports'[n].report.reached_waypoint = final_waypoints'[reports'[n].report.plan_id]
      PROVE  reports'[n].report.plan_id \in dm'.completed_plan_ids
  <2>1. reports[m].report.plan_id \in Held
    BY DEF Held, ReportedIds
  <2>2. FinalStays(reports[m].report.plan_id)
    BY <2>1, HeldFinalsStay
  <2> QED BY <1>1, <1>2, <2>2 DEF FinalStays, ReportsDone
<1>3. CASE ServerProgress
  <2>1. /\ reports # <<>> /\ reports' = Tail(reports) /\ UNCHANGED <<dm, final_waypoints>>
        /\ \/ callback' = Idle
           \/ /\ IsFinal(Head(reports).report)
              /\ callback'.plan_id = Head(reports).report.plan_id
    BY <1>3 DEF ServerProgress, OnProgress, executorVars
  <2>2. /\ 1 \in DOMAIN reports /\ Head(reports) = reports[1]
        /\ \A n \in DOMAIN reports' : \E m \in DOMAIN reports : reports'[n] = reports[m]
    BY <1>1, <2>1, TakenOut DEF KnownReports
  <2>3. ReportsDone'
    BY <1>2, <2>2 DEF ReportsDone
  <2>4. RecordingDone'
    BY <2>1, <2>2 DEF RecordingDone, ReportsDone, IsFinal, Recording, Idle
  <2> QED BY <2>3, <2>4
<1>4. CASE ServerRecordsEnd
  <2>1. UNCHANGED <<dm, reports>> /\ (callback' = Idle \/ (callback'.plan_id = callback.plan_id /\ Recording))
    BY <1>4 DEF ServerRecordsEnd, ScanEnds, Complete, Recording, executorVars
  <2>2. ReportsDone'
    BY <1>2, <2>1 DEF ReportsDone
  <2>3. RecordingDone'
    BY <2>1 DEF RecordingDone, Recording, Idle
  <2> QED BY <2>2, <2>3
<1>5. CASE ExecutorReached
  <2>1. UNCHANGED callback
    BY <1>5 DEF ExecutorReached, serverVars
  <2>2. ReportsDone'
    BY <1>2, <1>5, ReportIsDone DEF ReportsDone
  <2> QED BY <1>1, <2>1, <2>2 DEF RecordingDone, Recording
<1>6. CASE UNCHANGED reports /\ (UNCHANGED callback \/ callback' = Dead)
  <2>1. ReportsDone'
    BY <1>2, <1>6 DEF ReportsDone
  <2> QED BY <1>1, <1>6, <2>1 DEF RecordingDone, Recording, Dead
<1>7. \/ UNCHANGED reports /\ (UNCHANGED callback \/ callback' = Dead)
      \/ ServerProgress \/ ServerRecordsEnd \/ ExecutorReached
  BY OtherSteps DEF ServerBatch, ProcessBatch, ServerPublish, PublishPlan, systemVars, ExecutorPlan,
                    ExecutorRequest, serverVars, RobotArrives
<1> QED BY <1>3, <1>4, <1>5, <1>6, <1>7

DoneInv == FitInv /\ StatusesTyped /\ ReportsDone /\ RecordingDone

LEMMA DoneInvHolds ==
  ASSUME SolverReturnsPaths, PathsStartAtStarts, TasksOfOneRobot, ~Ros
  PROVE  Spec => []DoneInv
<1>1. Init => StatusesTyped /\ ReportsDone /\ RecordingDone
  <2> SUFFICES ASSUME Init PROVE StatusesTyped /\ ReportsDone /\ RecordingDone
    OBVIOUS
  <2>1. reports = <<>> /\ callback = Idle /\ statuses = [t \in TaskIds |-> <<>>]
    BY DEF Init, ServerInit
  <2>2. IsSequence(<<>>) /\ DOMAIN <<>> = {} /\ Idle.at = "idle"
    BY DEF IsSequence, Idle
  <2> QED BY <2>1, <2>2 DEF StatusesTyped, ReportsDone, RecordingDone, Recording
<1>2. DoneInv /\ [Next]_vars /\ FitInv' => DoneInv'
  <2> SUFFICES ASSUME DoneInv, [Next]_vars, FitInv' PROVE DoneInv'
    OBVIOUS
  <2>1. StatusesTyped'
    BY StatusSteps DEF DoneInv
  <2> QED BY <2>1, DoneKept DEF DoneInv
<1> QED BY <1>1, <1>2, FitInvHolds, PTL DEF Spec, DoneInv

\* A task is published as completed only when the executor has executed the
\* plan that the task is looked up for to its end: the waypoint that the server
\* expects a plan to end at is where it ends when it has been joined, or
\* further on, and the id of a plan is never that of another one
\* (_on_progress and _plan_final_waypoints, plan_server.py).
THEOREM CompletedPlansAreExecuted ==
  ASSUME SolverReturnsPaths, PathsStartAtStarts, TasksOfOneRobot, ~Ros
  PROVE  Spec => CompletedIsExecuted
<1> DEFINE Executed1 == \A t \in TaskIds :
                          statuses'[t] # statuses[t] /\ statuses'[t][Len(statuses'[t])] = "COMPLETED"
                            => callback.plan_id \in dm.completed_plan_ids
<1>1. DoneInv /\ [Next]_vars => Executed1
  <2> SUFFICES ASSUME DoneInv, [Next]_vars PROVE Executed1
    OBVIOUS
  <2> QED BY StatusSteps DEF DoneInv, RecordingDone
<1> QED BY <1>1, DoneInvHolds, PTL DEF Spec, CompletedIsExecuted

-----------------------------------------------------------------------------
(* Where robots are and where they are sent: routes along the map.         *)

\* The solver's paths follow the map.
PathsFollowMap ==
  \A starts, goals, obstacles : \A paths \in Solver(starts, goals, obstacles) :
    \A r \in DOMAIN paths : FollowsMap(paths[r], Edges)

\* A robot that the executor has no plan of is announced where it stands.
AnnouncedInPlace ==
  OnboardAtServer /\ Item.robot \notin Known(dm) => Item.location = at[Item.robot]

Along(a, b) == a = b \/ <<a, b>> \in Edges

\* The waypoints of a plan lead along the map.
Route(p) ==
  \A n \in 1 .. Len(p.waypoints) - 1 : Along(p.waypoints[n].name, p.waypoints[n + 1].name)

\* A robot at waypoint k of plan p has pending what follows, as far as it has
\* been enqueued.  A dispatch that overruns a plan counts more as enqueued.
OnWay(p, enqueued, place, todo, k, live) ==
  /\ IsSequence(todo)
  /\ place = WaypointAt(p, k).name
  /\ k + Len(todo) <= enqueued
  /\ live => k + Len(todo) = enqueued
  /\ \A n \in DOMAIN todo :
       todo[n].index = k + n /\ todo[n].name = WaypointAt(p, k + n).name

\* What the queue q tells of robot r lies between its current waypoint and k.
ReportsUpTo(q, r, current, k) ==
  /\ current \in Int /\ current <= k
  /\ \A n \in DOMAIN q :
       q[n].type = Reached /\ q[n].robot = r => q[n].index \in current + 1 .. k

InOrder(q) ==
  \A n, m \in DOMAIN q :
    /\ n < m /\ q[n].robot = q[m].robot
    /\ q[n].type = Reached /\ q[m].type = Reached
    => q[n].index < q[m].index

InStep(r) ==
  \E k \in Nat :
    /\ OnWay(dm.plan[r], dm.latest_enqueued[r], at[r], pending[r], k, alive)
    /\ ReportsUpTo(message_queue, r, dm.current_waypoint[r], k)

\* A plan for robot r leads along the map, from where the robot stands if it
\* has no other plan.
Leads(r, p) ==
  /\ Route(p)
  /\ r \notin Known(dm) => p.waypoints[1].name = at[r]

EntryFields == {"status", "task_id", "plan_id", "start_location", "goal_location"}

RouteInv ==
  /\ FitInv
  /\ DOMAIN at = Robots
  /\ \A r \in Known(dm) : InStep(r) /\ Route(dm.plan[r])
  /\ InOrder(message_queue)
  /\ \A n \in Coming : Leads(message_queue[n].robot, message_queue[n].plan)
  /\ server.at = "publishing" => \A r \in Robots \cap server.left : Leads(r, server.plans[r])
  /\ server.at \in {"publishing", "recording"} => DOMAIN server.committed \subseteq Known(dm)
  /\ \A r \in DOMAIN context :
       /\ DOMAIN context[r] = EntryFields
       /\ r \in Robots \ Known(dm) => context[r].start_location = at[r]

\* Where all of this holds, a robot is sent along the map.
LEMMA InStepFollows ==
  ASSUME Sound(dm), NEW r \in Known(dm), InStep(r), Route(dm.plan[r])
  PROVE  FollowsMap(<<at[r]>> \o [n \in DOMAIN pending[r] |-> pending[r][n].name], Edges)
<1> DEFINE p == dm.plan[r]
           todo == pending[r]
           names == [n \in DOMAIN todo |-> todo[n].name]
           path == <<at[r]>> \o names
<1>1. PICK k \in Nat : OnWay(p, dm.latest_enqueued[r], at[r], todo, k, alive)
  BY DEF InStep
<1>2. /\ Len(todo) \in Nat /\ DOMAIN todo = 1 .. Len(todo)
      /\ dm.latest_enqueued[r] \in Nat /\ LastIndex(p) \in Nat
      /\ k + Len(todo) <= LastIndex(p) /\ LastIndex(p) = Len(p.waypoints) - 1
  <2>1. dm.latest_enqueued[r] \in Nat /\ dm.latest_enqueued[r] <= LastIndex(p) /\ LastIndex(p) \in Nat
    BY SoundPlans
  <2>2. Len(todo) \in Nat /\ DOMAIN todo = 1 .. Len(todo) /\ k + Len(todo) <= dm.latest_enqueued[r]
    BY <1>1, LenProperties DEF OnWay, IsSequence
  <2>3. LastIndex(p) = Len(p.waypoints) - 1
    BY DEF LastIndex
  <2> HIDE DEF todo, p
  <2> QED BY <2>1, <2>2, <2>3
<1>3. IsSequence(names) /\ Len(names) = Len(todo) /\ DOMAIN names = 1 .. Len(todo)
  <2>1. names = [n \in 1 .. Len(todo) |-> names[n]]
    BY <1>2
  <2> HIDE DEF names
  <2> QED BY <1>2, <2>1, SequenceOf
<1>4. \A n \in 1 .. Len(todo) : names[n] = p.waypoints[k + n + 1].name
  BY <1>1, <1>2 DEF OnWay, WaypointAt
<1>5. /\ Len(path) = Len(todo) + 1
      /\ \A n \in 1 .. Len(todo) + 1 : path[n] = p.waypoints[k + n].name
  <2> HIDE DEF names
  <2> DEFINE first == <<at[r]>>
  <2>1. IsSequence(first) /\ Len(first) = 1 /\ first[1] = at[r]
    <3>1. first \in Seq({at[r]})
      OBVIOUS
    <3> QED BY <3>1, SequenceIs
  <2>5. path = first \o names
    OBVIOUS
  <2> HIDE DEF path, first
  <2>2. /\ Len(path) = 1 + Len(todo)
        /\ \A n \in 1 .. 1 + Len(todo) : path[n] = IF n <= 1 THEN first[n] ELSE names[n - 1]
    <3>1. IsSequence(names)
      BY <1>3
    <3>2. /\ Len(first \o names) = Len(first) + Len(names)
          /\ \A n \in 1 .. Len(first) + Len(names) :
               (first \o names)[n] = IF n <= Len(first) THEN first[n] ELSE names[n - Len(first)]
      BY <2>1, <3>1, JoinedIs
    <3> QED BY <1>3, <2>1, <2>5, <3>2
  <2>3. at[r] = p.waypoints[k + 1].name
    BY <1>1 DEF OnWay, WaypointAt
  <2>4. ASSUME NEW n \in 1 .. Len(todo) + 1 PROVE path[n] = p.waypoints[k + n].name
    <3>1. CASE n = 1
      BY <1>2, <2>1, <2>2, <2>3, <3>1
    <3>2. CASE n # 1
      <4>1. n - 1 \in 1 .. Len(todo) /\ n \in 1 .. 1 + Len(todo) /\ ~(n <= 1) /\ k + (n - 1) + 1 = k + n
        BY <1>2, <3>2
      <4> QED BY <1>4, <2>2, <4>1
    <3> QED BY <3>1, <3>2
  <2> QED BY <1>2, <2>2, <2>4
<1> HIDE DEF path, names, todo, p
<1>6. ASSUME NEW n \in 1 .. Len(path) - 1 PROVE Along(path[n], path[n + 1])
  <2>1. /\ n \in 1 .. Len(todo) + 1 /\ n + 1 \in 1 .. Len(todo) + 1
        /\ k + n \in 1 .. Len(p.waypoints) - 1 /\ k + (n + 1) = (k + n) + 1
    BY <1>2, <1>5
  <2>2. Along(p.waypoints[k + n].name, p.waypoints[(k + n) + 1].name)
    BY <2>1 DEF Route, p
  <2> QED BY <1>5, <2>1, <2>2
<1> QED BY <1>6 DEF FollowsMap, Along, path, names, todo

\* A dispatch puts what it enqueues behind what is pending.
LEMMA DispatchGoesOn ==
  ASSUME NEW d, Sound(d), DispatchUnblocked(d), DOMAIN pending = Robots,
         NEW r \in Known(d), NEW place, NEW k \in Nat,
         OnWay(d.plan[r], d.latest_enqueued[r], place, pending[r], k, TRUE)
  PROVE  OnWay(dm'.plan[r], dm'.latest_enqueued[r], place, pending'[r], k, alive')
<1> DEFINE advancing == {d.robots[n] : n \in Turns(d)}
           served == {d.robots[n] : n \in Turns(d) \ OverrunAt(d)}
           e == d.latest_enqueued[r]
           f == Advanced(d, r)
           todo == pending[r]
           more == Released(d, r)
<1>1. /\ dm'.latest_enqueued =
           [s \in Robots |-> IF s \in advancing THEN Advanced(d, s) ELSE d.latest_enqueued[s]]
      /\ pending' = [s \in Robots |-> IF s \in served THEN pending[s] \o Released(d, s)
                                                      ELSE pending[s]]
      /\ alive' = (OverrunAt(d) = {})
  <2>1. DOMAIN d = ManagerFields
    BY DEF Sound
  <2> QED BY <2>1 DEF DispatchUnblocked, ManagerFields
<1>2. dm'.plan = d.plan /\ r \in Robots
  BY DispatchIsSound DEF Sound
<1>3. /\ f \in Nat /\ e \in Nat /\ e <= f
  BY AdvancedIs, SoundPlans
<1>4. /\ served \subseteq advancing
      /\ alive' => served = advancing
  BY <1>1
<1>5. /\ IsSequence(todo) /\ Len(todo) \in Nat /\ DOMAIN todo = 1 .. Len(todo) /\ k + Len(todo) = e
      /\ place = WaypointAt(d.plan[r], k).name
      /\ \A n \in 1 .. Len(todo) : todo[n].index = k + n /\ todo[n].name = WaypointAt(d.plan[r], k + n).name
  BY LenProperties DEF OnWay, IsSequence
<1> HIDE DEF advancing, served
<1>6. CASE r \notin served
  <2>1. pending'[r] = todo /\ dm'.latest_enqueued[r] \in {e, f} /\ (alive' => dm'.latest_enqueued[r] = e)
    BY <1>1, <1>2, <1>4, <1>6
  <2> HIDE DEF todo, e, f
  <2> QED BY <1>2, <1>3, <1>5, <2>1 DEF OnWay
<1>7. CASE r \in served
  <2>1. pending'[r] = todo \o more /\ dm'.latest_enqueued[r] = f
    BY <1>1, <1>2, <1>4, <1>7
  <2>2. more = [n \in 1 .. f - e |-> [index |-> e + n, name |-> WaypointAt(d.plan[r], e + n).name]]
    BY DEF Released
  <2> HIDE DEF todo, e, f, more
  <2>3. IsSequence(more) /\ Len(more) = f - e /\ DOMAIN more = 1 .. f - e
    <3>1. more = [n \in 1 .. f - e |-> more[n]] /\ f - e \in Nat
      BY <1>3, <2>2
    <3> QED BY <3>1, SequenceOf
  <2>4. /\ IsSequence(todo \o more) /\ Len(todo \o more) = Len(todo) + (f - e)
        /\ DOMAIN (todo \o more) = 1 .. Len(todo) + (f - e)
        /\ \A n \in 1 .. Len(todo) + (f - e) :
             (todo \o more)[n] = IF n <= Len(todo) THEN todo[n] ELSE more[n - Len(todo)]
    <3>1. IsSequence(todo)
      BY <1>5
    <3>2. IsSequence(more)
      BY <2>3
    <3>3. /\ IsSequence(todo \o more) /\ Len(todo \o more) = Len(todo) + Len(more)
          /\ DOMAIN (todo \o more) = 1 .. Len(todo) + Len(more)
          /\ \A n \in 1 .. Len(todo) + Len(more) :
               (todo \o more)[n] = IF n <= Len(todo) THEN todo[n] ELSE more[n - Len(todo)]
      BY <3>1, <3>2, JoinedIs
    <3> QED BY <2>3, <3>3
  <2>5. ASSUME NEW n \in 1 .. Len(todo) + (f - e)
        PROVE  /\ (todo \o more)[n].index = k + n
               /\ (todo \o more)[n].name = WaypointAt(d.plan[r], k + n).name
    <3>1. CASE n <= Len(todo)
      <4>1. n \in 1 .. Len(todo)
        BY <1>3, <1>5, <3>1
      <4> QED BY <1>5, <2>4, <3>1, <4>1
    <3>2. CASE ~(n <= Len(todo))
      <4>1. n - Len(todo) \in 1 .. f - e /\ e + (n - Len(todo)) = k + n
        <5>1. Len(todo) \in Nat /\ e = k + Len(todo) /\ f \in Nat /\ e \in Nat /\ n \in Int /\ n <= Len(todo) + (f - e)
          BY <1>3, <1>5
        <5> QED BY <3>2, <5>1
      <4>2. more[n - Len(todo)].index = k + n /\ more[n - Len(todo)].name = WaypointAt(d.plan[r], k + n).name
        BY <2>2, <4>1
      <4> QED BY <2>4, <3>2, <4>2
    <3> QED BY <3>1, <3>2
  <2>6. k + (Len(todo) + (f - e)) = f
    BY <1>3, <1>5
  <2> QED BY <1>2, <1>3, <1>5, <2>1, <2>4, <2>5, <2>6 DEF OnWay
<1> QED BY <1>6, <1>7


\* Reports in the queue when a message is taken out, and when one is put in
\* that is no report.
LEMMA ReportsTaken ==
  ASSUME PlansInv, message_queue # <<>>, message_queue' = Tail(message_queue), InOrder(message_queue)
  PROVE  /\ InOrder(message_queue')
         /\ \A r, current, k : ReportsUpTo(message_queue, r, current, k) =>
                               ReportsUpTo(message_queue', r, current, k)
         /\ \A current : \A k \in Int :
              First.type = Reached /\ ReportsUpTo(message_queue, First.robot, current, k) =>
                ReportsUpTo(message_queue', First.robot, First.index, k)
<1>1. \A n \in DOMAIN message_queue' :
        /\ n \in Int /\ n + 1 \in DOMAIN message_queue /\ n + 1 # 1
        /\ message_queue'[n] = message_queue[n + 1]
  BY TakenFrom
<1>2. 1 \in DOMAIN message_queue /\ DOMAIN message_queue = 1 .. Len(message_queue)
      /\ Len(message_queue) \in Nat
  BY TakenOut, LenProperties DEF PlansInv, AnswersInv, QueuesTyped, IsSequence
<1>3. InOrder(message_queue')
  <2> SUFFICES ASSUME NEW n \in DOMAIN message_queue', NEW m \in DOMAIN message_queue', n < m,
                      message_queue'[n].robot = message_queue'[m].robot,
                      message_queue'[n].type = Reached, message_queue'[m].type = Reached
               PROVE  message_queue'[n].index < message_queue'[m].index
    BY DEF InOrder
  <2>1. n + 1 < m + 1
    BY <1>1
  <2> QED BY <1>1, <2>1 DEF InOrder
<1>4. ASSUME NEW r, NEW current, NEW k, ReportsUpTo(message_queue, r, current, k)
      PROVE  ReportsUpTo(message_queue', r, current, k)
  BY <1>1, <1>4 DEF ReportsUpTo
<1>5. ASSUME NEW current, NEW k \in Int, ReportsUpTo(message_queue, First.robot, current, k),
             First.type = Reached
      PROVE  ReportsUpTo(message_queue', First.robot, First.index, k)
  <2> DEFINE r == First.robot
  <2>1. First.index \in Int /\ First.index <= k
    BY <1>2, <1>5 DEF ReportsUpTo, First
  <2>2. ASSUME NEW n \in DOMAIN message_queue',
               message_queue'[n].type = Reached, message_queue'[n].robot = r
        PROVE  message_queue'[n].index \in First.index + 1 .. k
    <3>1. 1 < n + 1
      BY <1>1, <1>2
    <3>2. First.index < message_queue[n + 1].index
      BY <1>1, <1>2, <1>5, <2>2, <3>1 DEF InOrder, First
    <3>3. message_queue[n + 1].index \in current + 1 .. k /\ current \in Int
      BY <1>1, <1>5, <2>2 DEF ReportsUpTo
    <3> QED BY <1>1, <1>5, <2>1, <3>2, <3>3
  <2> QED BY <2>1, <2>2 DEF ReportsUpTo
<1> QED BY <1>3, <1>4, <1>5

LEMMA ReportsStay ==
  ASSUME \A n \in DOMAIN message_queue' : Stays(n) \/ message_queue'[n].type # Reached,
         InOrder(message_queue)
  PROVE  /\ InOrder(message_queue')
         /\ \A r, current, k : ReportsUpTo(message_queue, r, current, k) =>
                               ReportsUpTo(message_queue', r, current, k)
BY DEF Stays, InOrder, ReportsUpTo

\* A robot that arrives at waypoint k is reported last.
LEMMA ReportPut ==
  ASSUME PlansInv, InOrder(message_queue), NEW s, NEW k \in Nat, NEW current,
         message_queue' = Append(message_queue, ReachedMessage(s, k + 1)),
         ReportsUpTo(message_queue, s, current, k)
  PROVE  /\ InOrder(message_queue')
         /\ ReportsUpTo(message_queue', s, current, k + 1)
         /\ \A r, c, j : r # s /\ ReportsUpTo(message_queue, r, c, j) =>
                         ReportsUpTo(message_queue', r, c, j)
<1> DEFINE message == ReachedMessage(s, k + 1)
<1>1. message.robot = s /\ message.index = k + 1
  BY DEF ReachedMessage
<1> HIDE DEF message
<1>2. /\ Len(message_queue) \in Nat /\ DOMAIN message_queue = 1 .. Len(message_queue)
      /\ \A n \in DOMAIN message_queue' :
           Stays(n) \/ (n = Len(message_queue) + 1 /\ message_queue'[n] = message)
  BY LenProperties, AppendedTo DEF PlansInv, AnswersInv, QueuesTyped, IsSequence, message
<1>3. current \in Int /\ current <= k
      /\ \A n \in DOMAIN message_queue : message_queue[n].type = Reached /\ message_queue[n].robot = s =>
           message_queue[n].index \in current + 1 .. k
  BY DEF ReportsUpTo
<1>4. ASSUME NEW n \in DOMAIN message_queue', NEW m \in DOMAIN message_queue', n < m,
             message_queue'[n].robot = message_queue'[m].robot,
             message_queue'[n].type = Reached, message_queue'[m].type = Reached
      PROVE  message_queue'[n].index < message_queue'[m].index
  <2>1. CASE Stays(m)
    <3>1. Stays(n)
      <4>1. m \in 1 .. Len(message_queue)
        BY <1>2, <2>1 DEF Stays
      <4> QED BY <1>2, <1>4, <4>1
    <3> QED BY <1>4, <2>1, <3>1 DEF Stays, InOrder
  <2>2. CASE m = Len(message_queue) + 1 /\ message_queue'[m] = message
    <3>1. Stays(n)
      BY <1>2, <1>4, <2>2
    <3>2. message_queue'[n].index \in current + 1 .. k
      BY <1>1, <1>3, <1>4, <2>2, <3>1 DEF Stays
    <3> QED BY <1>1, <1>3, <2>2, <3>2
  <2> QED BY <1>2, <2>1, <2>2
<1>5. ReportsUpTo(message_queue', s, current, k + 1)
  <2>1. ASSUME NEW n \in DOMAIN message_queue',
               message_queue'[n].type = Reached, message_queue'[n].robot = s
        PROVE  message_queue'[n].index \in current + 1 .. k + 1
    <3>1. CASE Stays(n)
      <4>1. message_queue'[n].index \in current + 1 .. k
        BY <1>3, <2>1, <3>1 DEF Stays
      <4> QED BY <1>3, <4>1
    <3>2. CASE message_queue'[n] = message
      BY <1>1, <1>3, <3>2
    <3> QED BY <1>2, <3>1, <3>2
  <2>2. current <= k + 1
    BY <1>3
  <2> QED BY <1>3, <2>1, <2>2 DEF ReportsUpTo
<1>6. ASSUME NEW r, NEW c, NEW j, r # s, ReportsUpTo(message_queue, r, c, j)
      PROVE  ReportsUpTo(message_queue', r, c, j)
  BY <1>1, <1>2, <1>6 DEF Stays, ReportsUpTo
<1> QED BY <1>4, <1>5, <1>6 DEF InOrder

\* What the handlers dispatch from.
LEMMA ReachedDispatches ==
  ASSUME PlansInv, HandleWaypointReached, First.robot \in Known(dm)
  PROVE  \E e : /\ Sound(e) /\ DispatchUnblocked(e) /\ Known(e) = Known(dm)
                /\ e.plan = dm.plan /\ e.latest_enqueued = dm.latest_enqueued
                /\ e.current_waypoint = [dm.current_waypoint EXCEPT ![First.robot] = First.index]
<1> DEFINE r == First.robot
           k == First.index
           d == UpdateProgress(dm, r, k)
           e == IF IsComplete(d, r) THEN OnPlanComplete(d, r) ELSE d
<1>1. DispatchUnblocked(e)
  BY FirstIs DEF HandleWaypointReached
<1>2. DOMAIN dm = ManagerFields /\ Sound(dm)
  BY DEF PlansInv, Sound
<1>3. /\ DOMAIN d = ManagerFields /\ d.robots = dm.robots /\ d.plan = dm.plan
      /\ d.cut_indices = dm.cut_indices /\ d.latest_enqueued = dm.latest_enqueued
      /\ d.current_waypoint = [dm.current_waypoint EXCEPT ![r] = k]
  BY <1>2 DEF UpdateProgress, ManagerFields
<1> HIDE DEF d, r, k
<1>4. /\ DOMAIN e = ManagerFields /\ e.robots = dm.robots /\ e.plan = dm.plan
      /\ e.cut_indices = dm.cut_indices /\ e.latest_enqueued = dm.latest_enqueued
      /\ e.current_waypoint = [dm.current_waypoint EXCEPT ![r] = k]
  BY <1>3 DEF OnPlanComplete, ManagerFields
<1> HIDE DEF e
<1>5. Known(e) = Known(dm)
  BY <1>4 DEF Known
<1>6. Sound(e)
  BY <1>2, <1>4, <1>5 DEF Sound
<1> QED BY <1>1, <1>4, <1>5, <1>6 DEF r, k

LEMMA PlanDispatches ==
  ASSUME PlansInv, HandlePlan
  PROVE  \E e : /\ DispatchUnblocked(e)
                /\ \/ /\ First.robot \in Known(dm) => IsComplete(dm, First.robot)
                      /\ IsSet(dm, First.robot, First.plan, e)
                   \/ /\ First.robot \in Known(dm)
                      /\ IsUpdated(dm, First.robot, First.plan, e)
<1> DEFINE r == First.robot
           p == First.plan
<1>1. r \in Robots /\ WellFormed(p) /\ Sound(dm) /\ Head(message_queue) = First
  BY FirstIs DEF HandlePlan, PlansInv
<1>2. CASE r \notin Known(dm) \/ IsComplete(dm, r)
  <2> DEFINE e == SetPlan(dm, r, p)
  <2>1. DispatchUnblocked(e)
    BY <1>1, <1>2 DEF HandlePlan
  <2>2. IsSet(dm, r, p, e)
    <3> HIDE DEF r, p
    <3> QED BY <1>1, SetPlanIsSound
  <2> HIDE DEF e
  <2> QED BY <1>2, <2>1, <2>2
<1>3. CASE ~(r \notin Known(dm) \/ IsComplete(dm, r))
  <2> DEFINE e == UpdatePlanAfterCut(dm, r, p)
  <2>1. DispatchUnblocked(e)
    BY <1>1, <1>3 DEF HandlePlan
  <2>2. IsUpdated(dm, r, p, e)
    <3> HIDE DEF r, p
    <3> QED BY <1>1, <1>3, UpdateIsSound
  <2> HIDE DEF e
  <2> QED BY <1>3, <2>1, <2>2
<1> QED BY <1>2, <1>3


LEMMA SameRoute ==
  ASSUME NEW p, WellFormed(p), Route(p), NEW q, Len(q.waypoints) = Len(p.waypoints),
         \A n \in DOMAIN p.waypoints : SameStop(q.waypoints[n], p.waypoints[n])
  PROVE  Route(q)
<1>1. DOMAIN p.waypoints = 1 .. Len(p.waypoints) /\ Len(p.waypoints) \in Nat
  BY WaypointsAre
<1>2. \A n \in 1 .. Len(p.waypoints) - 1 : n \in DOMAIN p.waypoints /\ n + 1 \in DOMAIN p.waypoints
  BY <1>1
<1> QED BY <1>2 DEF Route, SameStop

\* A plan that is joined where the old one is cut goes on along the map.
LEMMA JoinLeads ==
  ASSUME NEW old, WellFormed(old), Route(old), NEW p, WellFormed(p), Route(p),
         NEW cut \in Indices(old), SameStop(p.waypoints[1], WaypointAt(old, cut)),
         NEW q, q = Spliced(old, cut, p)
  PROVE  Route(q)
<1>1. /\ Len(old.waypoints) \in Nat \ {0} /\ Indices(old) = 0 .. Len(old.waypoints) - 1
      /\ Len(p.waypoints) \in Nat \ {0}
  BY WaypointsAre
<1>2. cut \in Nat /\ Retained(old, cut) = cut + 1 /\ WaypointAt(old, cut) = old.waypoints[cut + 1]
      /\ cut + 1 <= Len(old.waypoints)
  BY <1>1 DEF Retained, WaypointAt
<1>3. p.waypoints[1].name = old.waypoints[cut + 1].name
  BY <1>2 DEF SameStop
<1>4. /\ Len(q.waypoints) = cut + Len(p.waypoints)
      /\ \A k \in 1 .. cut + 1 : q.waypoints[k].name = old.waypoints[k].name
      /\ \A k \in cut + 2 .. Len(q.waypoints) : q.waypoints[k].name = p.waypoints[k - cut].name
  <2> DEFINE n == Retained(old, cut)
             merged == p.waypoints[1].name = old.waypoints[n].name
             from == IF merged THEN n - 1 ELSE n
  <2>1. /\ Len(q.waypoints) = from + Len(p.waypoints)
        /\ \A k \in 1 .. n : SameStop(q.waypoints[k], old.waypoints[k])
        /\ \A k \in n + 1 .. Len(q.waypoints) : SameStop(q.waypoints[k], p.waypoints[k - from])
    BY <1>2, SplicedIs
  <2>2. n = cut + 1 /\ from = cut
    BY <1>2, <1>3
  <2> HIDE DEF n, from
  <2> QED BY <1>2, <2>1, <2>2 DEF SameStop
<1>5. \A k \in cut + 1 .. Len(q.waypoints) : q.waypoints[k].name = p.waypoints[k - cut].name
  <2> TAKE k \in cut + 1 .. Len(q.waypoints)
  <2>1. CASE k = cut + 1
    <3>1. k - cut = 1 /\ k \in 1 .. cut + 1
      BY <1>2, <2>1
    <3> QED BY <1>3, <1>4, <2>1, <3>1
  <2>2. CASE k # cut + 1
    BY <1>2, <1>4, <2>2
  <2> QED BY <2>1, <2>2
<1>6. ASSUME NEW n \in 1 .. Len(q.waypoints) - 1
      PROVE  Along(q.waypoints[n].name, q.waypoints[n + 1].name)
  <2>1. CASE n <= cut
    <3>1. n \in 1 .. cut + 1 /\ n + 1 \in 1 .. cut + 1 /\ n \in 1 .. Len(old.waypoints) - 1
      BY <1>1, <1>2, <2>1
    <3> QED BY <1>4, <3>1 DEF Route
  <2>2. CASE ~(n <= cut)
    <3>1. /\ n \in cut + 1 .. Len(q.waypoints) /\ n + 1 \in cut + 1 .. Len(q.waypoints)
          /\ n - cut \in 1 .. Len(p.waypoints) - 1 /\ (n + 1) - cut = (n - cut) + 1
      BY <1>1, <1>2, <1>4, <2>2
    <3> QED BY <1>5, <3>1 DEF Route
  <2> QED BY <2>1, <2>2
<1> QED BY <1>6 DEF Route

\* Where the plan stays as far as it has been enqueued, so does the way.
LEMMA OnWaySame ==
  ASSUME NEW p, NEW q, NEW e \in Nat, NEW place, NEW todo, NEW k \in Nat, NEW live,
         OnWay(p, e, place, todo, k, live),
         \A j \in 0 .. e : WaypointAt(q, j).name = WaypointAt(p, j).name
  PROVE  OnWay(q, e, place, todo, k, live)
<1>1. /\ IsSequence(todo) /\ Len(todo) \in Nat /\ DOMAIN todo = 1 .. Len(todo)
      /\ k + Len(todo) <= e
  BY LenProperties DEF OnWay, IsSequence
<1>2. k \in 0 .. e /\ \A n \in DOMAIN todo : k + n \in 0 .. e
  BY <1>1
<1> QED BY <1>2 DEF OnWay

\* The parts of the invariant that are about a robot on its way.
Moving ==
  /\ DOMAIN at = Robots
  /\ \A r \in Known(dm) : InStep(r) /\ Route(dm.plan[r])
  /\ InOrder(message_queue)

LEMMA ReachedKeepsWay ==
  ASSUME RouteInv, ExecutorReached
  PROVE  Moving'
<1>1. PlansInv /\ KnownReports /\ HandleWaypointReached /\ UNCHANGED at /\ Sound(dm)
  BY DEF RouteInv, FitInv, FreshInv, PlansInv, ExecutorReached, HandleWaypointReached
<1>2. /\ NextMessage(Reached) /\ message_queue # <<>> /\ message_queue' = Tail(message_queue) /\ alive
  BY <1>1 DEF HandleWaypointReached, NextMessage, Reached
<1>3. 1 \in DOMAIN message_queue /\ First = message_queue[1] /\ First.type = Reached
  BY <1>1, <1>2, FirstIs
<1>4. First.robot \in Known(dm) /\ DOMAIN pending = Robots /\ Known(dm) \subseteq Robots
      /\ DOMAIN dm.current_waypoint = Robots
  BY <1>1, <1>3 DEF KnownReports, Sound
<1>5. PICK e : /\ Sound(e) /\ DispatchUnblocked(e) /\ Known(e) = Known(dm)
               /\ e.plan = dm.plan /\ e.latest_enqueued = dm.latest_enqueued
               /\ e.current_waypoint = [dm.current_waypoint EXCEPT ![First.robot] = First.index]
  BY <1>1, <1>4, ReachedDispatches
<1>6. Known(dm') = Known(dm) /\ dm'.plan = dm.plan /\ dm'.current_waypoint = e.current_waypoint
  BY <1>5, DispatchIsSound
<1>7. /\ InOrder(message_queue')
      /\ \A r, current, k : ReportsUpTo(message_queue, r, current, k) =>
                            ReportsUpTo(message_queue', r, current, k)
      /\ \A current : \A k \in Int : ReportsUpTo(message_queue, First.robot, current, k) =>
           ReportsUpTo(message_queue', First.robot, First.index, k)
  BY <1>1, <1>2, <1>3, ReportsTaken DEF RouteInv
<1>8. ASSUME NEW r \in Known(dm) PROVE InStep(r)'
  <2>1. PICK k \in Nat :
          /\ OnWay(dm.plan[r], dm.latest_enqueued[r], at[r], pending[r], k, alive)
          /\ ReportsUpTo(message_queue, r, dm.current_waypoint[r], k)
    BY DEF RouteInv, InStep
  <2>2. OnWay(e.plan[r], e.latest_enqueued[r], at[r], pending[r], k, TRUE)
    BY <1>2, <1>5, <2>1 DEF OnWay
  <2>3. OnWay(dm'.plan[r], dm'.latest_enqueued[r], at[r], pending'[r], k, alive')
    BY <1>4, <1>5, <2>2, DispatchGoesOn
  <2>4. ReportsUpTo(message_queue', r, dm'.current_waypoint[r], k)
    <3>1. CASE r = First.robot
      <4>1. dm'.current_waypoint[r] = First.index
        BY <1>4, <1>5, <1>6, <3>1
      <4> QED BY <1>7, <2>1, <3>1, <4>1
    <3>2. CASE r # First.robot
      <4>1. dm'.current_waypoint[r] = dm.current_waypoint[r]
        BY <1>4, <1>5, <1>6, <3>2
      <4> QED BY <1>7, <2>1, <4>1
    <3> QED BY <3>1, <3>2
  <2> QED BY <1>1, <2>3, <2>4 DEF InStep
<1> QED BY <1>1, <1>6, <1>7, <1>8 DEF Moving, RouteInv


\* A plan that is set, not joined on, starts where its robot stands, with
\* nothing pending and nothing to report.
LEMMA SetPlanStartsHere ==
  ASSUME RouteInv, ExecutorPlan, First.robot \in Known(dm) => IsComplete(dm, First.robot)
  PROVE  /\ pending[First.robot] = <<>>
         /\ at[First.robot] = First.plan.waypoints[1].name
         /\ \A n \in DOMAIN message_queue :
              message_queue[n].type = Reached => message_queue[n].robot # First.robot
         /\ Route(First.plan)
<1> DEFINE r == First.robot
           p == First.plan
<1>1. PlansInv /\ KnownReports /\ HandlePlan /\ Sound(dm) /\ FitInv
  BY DEF RouteInv, FitInv, FreshInv, PlansInv, ExecutorPlan
<1>2. 1 \in Coming /\ First = message_queue[1] /\ r \in Robots
  BY <1>1, FirstIs DEF HandlePlan, First, Coming
<1>3. Leads(r, p) /\ Fits(dm, final_waypoints, r, p.plan_id, p)
  BY <1>1, <1>2 DEF RouteInv, FitInv, ComingFit
<1>4. CASE r \notin Known(dm)
  BY <1>1, <1>2, <1>3, <1>4 DEF Leads, KnownReports
<1>5. CASE r \in Known(dm)
  <2> DEFINE old == dm.plan[r]
             last == LastIndex(old)
             cut == dm.cut_indices[r]
             e == dm.latest_enqueued[r]
             todo == pending[r]
             c == dm.current_waypoint[r]
  <2>1. PICK k \in Nat : /\ OnWay(old, e, at[r], todo, k, alive)
                         /\ ReportsUpTo(message_queue, r, c, k)
    BY <1>5 DEF RouteInv, InStep
  <2>2. c >= last
    BY <1>5 DEF IsComplete
  <2>3. e \in Nat /\ e <= last /\ last \in Nat
    BY <1>1, <1>5, SoundPlans
  <2>4. c \in Int /\ c <= k
    BY <2>1 DEF ReportsUpTo
  <2>5. IsSequence(todo) /\ Len(todo) \in Nat /\ k + Len(todo) <= e
    BY <2>1, LenProperties DEF OnWay, IsSequence
  <2>9. /\ r \in DOMAIN dm.cut_indices /\ cut \in Indices(old)
        /\ p.waypoints[1].name = WaypointAt(old, cut).name
    BY <1>3, <1>5 DEF Fits, Continues, SameStop
  <2>10. Indices(old) = 0 .. last /\ e <= cut
    BY <1>1, <1>5, <2>9, SoundPlans DEF Sound
  <2>6. /\ at[r] = WaypointAt(old, k).name
        /\ \A n \in DOMAIN message_queue :
             message_queue[n].type = Reached /\ message_queue[n].robot = r =>
               message_queue[n].index \in c + 1 .. k
    BY <2>1 DEF OnWay, ReportsUpTo
  <2> HIDE DEF old, last, cut, e, todo, c
  <2>7. k = last /\ Len(todo) = 0 /\ c = k
    BY <2>2, <2>3, <2>4, <2>5
  <2>8. todo = <<>>
    BY <2>5, <2>7, EmptySeq DEF IsSequence
  <2>11. cut = k
    BY <2>3, <2>5, <2>7, <2>9, <2>10
  <2>12. at[r] = p.waypoints[1].name
    BY <2>6, <2>9, <2>11
  <2>13. \A n \in DOMAIN message_queue :
           message_queue[n].type = Reached => message_queue[n].robot # r
    BY <2>6, <2>7
  <2> QED BY <1>3, <2>8, <2>12, <2>13 DEF Leads, todo
<1> QED BY <1>4, <1>5

LEMMA PlanKeepsWay ==
  ASSUME RouteInv, ExecutorPlan
  PROVE  Moving'
<1> DEFINE r == First.robot
           p == First.plan
<1>1. PlansInv /\ KnownReports /\ HandlePlan /\ UNCHANGED at /\ Sound(dm) /\ FitInv
  BY DEF RouteInv, FitInv, FreshInv, PlansInv, ExecutorPlan, HandlePlan
<1>2. message_queue # <<>> /\ message_queue' = Tail(message_queue) /\ alive
  BY <1>1 DEF HandlePlan, NextMessage
<1>3. 1 \in Coming /\ First = message_queue[1] /\ r \in Robots /\ WellFormed(p)
  BY <1>1, FirstIs DEF HandlePlan, First, Coming
<1>4. DOMAIN pending = Robots /\ Known(dm) \subseteq Robots
  BY <1>1 DEF KnownReports, Sound
<1>5. /\ InOrder(message_queue')
      /\ \A s, current, k : ReportsUpTo(message_queue, s, current, k) =>
                            ReportsUpTo(message_queue', s, current, k)
  BY <1>1, <1>2, ReportsTaken DEF RouteInv
<1>6. Fits(dm, final_waypoints, r, p.plan_id, p) /\ Leads(r, p)
  BY <1>1, <1>3 DEF RouteInv, FitInv, ComingFit
<1>7. PICK e : /\ DispatchUnblocked(e)
               /\ \/ (r \in Known(dm) => IsComplete(dm, r)) /\ IsSet(dm, r, p, e)
                  \/ r \in Known(dm) /\ IsUpdated(dm, r, p, e)
  BY <1>1, PlanDispatches
<1>8. Sound(e)
  BY <1>7 DEF IsSet, IsUpdated
<1>9. Known(dm') = Known(e) /\ dm'.plan = e.plan /\ dm'.current_waypoint = e.current_waypoint
  BY <1>7, <1>8, DispatchIsSound
<1> HIDE DEF r, p
<1>10. SUFFICES \A s \in Known(e) :
         /\ Route(e.plan[s])
         /\ \E k \in Nat : /\ OnWay(e.plan[s], e.latest_enqueued[s], at[s], pending[s], k, TRUE)
                           /\ ReportsUpTo(message_queue, s, e.current_waypoint[s], k)
  <2>1. ASSUME NEW s \in Known(e), Route(e.plan[s]),
               NEW k \in Nat, OnWay(e.plan[s], e.latest_enqueued[s], at[s], pending[s], k, TRUE),
               ReportsUpTo(message_queue, s, e.current_waypoint[s], k)
        PROVE  InStep(s)' /\ Route(dm'.plan[s])
    <3>1. OnWay(dm'.plan[s], dm'.latest_enqueued[s], at[s], pending'[s], k, alive')
      BY <1>4, <1>7, <1>8, <2>1, DispatchGoesOn
    <3>2. ReportsUpTo(message_queue', s, dm'.current_waypoint[s], k)
      BY <1>5, <1>9, <2>1
    <3> QED BY <1>1, <1>9, <2>1, <3>1, <3>2 DEF InStep
  <2> QED BY <1>1, <1>5, <1>9, <2>1 DEF Moving, RouteInv
<1>11. CASE (r \in Known(dm) => IsComplete(dm, r)) /\ IsSet(dm, r, p, e)
  <2> TAKE s \in Known(e)
  <2>1. s \in Robots
    BY <1>8 DEF Sound
  <2>2. CASE s = r
    <3>1. /\ pending[r] = <<>> /\ at[r] = p.waypoints[1].name /\ Route(p)
          /\ \A n \in DOMAIN message_queue :
               message_queue[n].type = Reached => message_queue[n].robot # r
      BY <1>11, SetPlanStartsHere DEF r, p
    <3>2. e.plan[s] = p /\ e.latest_enqueued[s] = 0 /\ e.current_waypoint[s] = 0
      BY <1>11, <2>1, <2>2 DEF IsSet
    <3>3. OnWay(p, 0, at[r], <<>>, 0, TRUE)
      <4>1. IsSequence(<<>>) /\ Len(<<>>) = 0 /\ DOMAIN <<>> = {}
        BY DEF IsSequence
      <4>2. WaypointAt(p, 0) = p.waypoints[1]
        BY DEF WaypointAt
      <4> QED BY <3>1, <4>1, <4>2 DEF OnWay
    <3>4. ReportsUpTo(message_queue, r, 0, 0)
      BY <3>1 DEF ReportsUpTo
    <3> QED BY <2>2, <3>1, <3>2, <3>3, <3>4
  <2>3. CASE s # r
    <3>1. /\ s \in Known(dm) /\ e.plan[s] = dm.plan[s] /\ e.latest_enqueued[s] = dm.latest_enqueued[s]
          /\ e.current_waypoint[s] = dm.current_waypoint[s]
      BY <1>11, <2>1, <2>3 DEF IsSet
    <3>2. PICK k \in Nat :
            /\ OnWay(dm.plan[s], dm.latest_enqueued[s], at[s], pending[s], k, alive)
            /\ ReportsUpTo(message_queue, s, dm.current_waypoint[s], k)
      BY <3>1 DEF RouteInv, InStep
    <3>3. OnWay(dm.plan[s], dm.latest_enqueued[s], at[s], pending[s], k, TRUE)
      BY <1>2, <3>2 DEF OnWay
    <3> QED BY <3>1, <3>2, <3>3 DEF RouteInv
  <2> QED BY <2>2, <2>3
<1>12. CASE r \in Known(dm) /\ IsUpdated(dm, r, p, e)
  <2> TAKE s \in Known(e)
  <2>1. /\ s \in Known(dm) /\ e.latest_enqueued = dm.latest_enqueued
        /\ e.current_waypoint = dm.current_waypoint
        /\ \A k \in 0 .. dm.latest_enqueued[s] :
             WaypointAt(e.plan[s], k).name = WaypointAt(dm.plan[s], k).name
    BY <1>12 DEF IsUpdated, SameStop
  <2>2. PICK k \in Nat :
          /\ OnWay(dm.plan[s], dm.latest_enqueued[s], at[s], pending[s], k, alive)
          /\ ReportsUpTo(message_queue, s, dm.current_waypoint[s], k)
    BY <2>1 DEF RouteInv, InStep
  <2>3. OnWay(dm.plan[s], dm.latest_enqueued[s], at[s], pending[s], k, TRUE)
    BY <1>2, <2>2 DEF OnWay
  <2>4. dm.latest_enqueued[s] \in Nat
    BY <1>1, <2>1, SoundPlans
  <2>5. OnWay(e.plan[s], dm.latest_enqueued[s], at[s], pending[s], k, TRUE)
    BY <2>1, <2>3, <2>4, OnWaySame
  <2>6. Route(e.plan[s])
    <3> DEFINE q == Updated(dm, r, p, s)
    <3>1. WellFormed(q) /\ Route(q)
      <4>1. CASE s = r
        <5>1. /\ r \in DOMAIN dm.cut_indices /\ dm.cut_indices[r] \in Indices(dm.plan[r])
              /\ SameStop(p.waypoints[1], WaypointAt(dm.plan[r], dm.cut_indices[r]))
          BY <1>6, <1>12 DEF Fits, Continues
        <5>2. q = Spliced(dm.plan[r], dm.cut_indices[r], p)
          BY <4>1, <5>1 DEF Updated, Joined, CutOf
        <5>3. WellFormed(q) /\ WellFormed(dm.plan[r]) /\ Route(dm.plan[r]) /\ Route(p) /\ WellFormed(p)
          <6>1. WellFormed(q)
            BY <1>12, <4>1 DEF IsUpdated, Updated
          <6> QED BY <1>1, <1>3, <1>6, <1>12, <6>1, SoundPlans DEF RouteInv, Leads, p
        <5> HIDE DEF q
        <5> QED BY <5>1, <5>2, <5>3, JoinLeads
      <4>2. CASE s # r
        BY <1>1, <2>1, <4>2, SoundPlans DEF Updated, RouteInv
      <4> QED BY <4>1, <4>2
    <3>2. /\ Len(e.plan[s].waypoints) = Len(q.waypoints)
          /\ \A n \in DOMAIN q.waypoints : SameStop(e.plan[s].waypoints[n], q.waypoints[n])
      BY <1>12, <2>1 DEF IsUpdated
    <3> HIDE DEF q
    <3> QED BY <3>1, <3>2, SameRoute
  <2> QED BY <2>1, <2>2, <2>5, <2>6
<1> QED BY <1>7, <1>11, <1>12 DEF r, p


LEMMA ArriveKeepsWay ==
  ASSUME RouteInv, NEW s \in Robots, RobotArrives(s)
  PROVE  Moving' /\ s \in Known(dm) /\ \A r \in Robots \ {s} : at'[r] = at[r]
<1> DEFINE todo == pending[s]
           p == dm.plan[s]
           e == dm.latest_enqueued[s]
           c == dm.current_waypoint[s]
<1>1. PlansInv /\ KnownReports /\ Sound(dm) /\ DOMAIN at = Robots /\ InOrder(message_queue)
  BY DEF RouteInv, FitInv, FreshInv, PlansInv
<1>2. /\ todo # <<>>
      /\ at' = [at EXCEPT ![s] = Head(todo).name]
      /\ pending' = [pending EXCEPT ![s] = Tail(todo)]
      /\ message_queue' = Append(message_queue, ReachedMessage(s, Head(todo).index))
      /\ UNCHANGED <<dm, alive>>
  BY DEF RobotArrives, Arrive
<1>3. s \in Known(dm) /\ DOMAIN pending = Robots /\ Known(dm) \subseteq Robots
  BY <1>1, <1>2 DEF KnownReports, Sound
<1>4. PICK k \in Nat : OnWay(p, e, at[s], todo, k, alive) /\ ReportsUpTo(message_queue, s, c, k)
  BY <1>3 DEF RouteInv, InStep
<1>5. /\ IsSequence(todo) /\ k + Len(todo) <= e /\ (alive => k + Len(todo) = e)
      /\ \A n \in DOMAIN todo : todo[n].index = k + n /\ todo[n].name = WaypointAt(p, k + n).name
  BY <1>4 DEF OnWay
<1> HIDE DEF todo, p, e, c
<1>6. /\ IsSequence(Tail(todo)) /\ Len(todo) \in Nat \ {0} /\ Len(Tail(todo)) = Len(todo) - 1
      /\ DOMAIN todo = 1 .. Len(todo) /\ DOMAIN Tail(todo) = 1 .. Len(todo) - 1
      /\ Head(todo) = todo[1]
      /\ \A n \in 1 .. Len(todo) - 1 : Tail(todo)[n] = todo[n + 1]
  BY <1>2, <1>5, TailIs
<1>7. Head(todo).index = k + 1 /\ Head(todo).name = WaypointAt(p, k + 1).name
  <2>1. 1 \in DOMAIN todo
    BY <1>6
  <2> QED BY <1>5, <1>6, <2>1
<1>8. OnWay(p, e, Head(todo).name, Tail(todo), k + 1, alive)
  <2>1. ASSUME NEW n \in DOMAIN Tail(todo)
        PROVE  Tail(todo)[n].index = (k + 1) + n /\ Tail(todo)[n].name = WaypointAt(p, (k + 1) + n).name
    <3>1. n + 1 \in DOMAIN todo /\ k + (n + 1) = (k + 1) + n /\ Tail(todo)[n] = todo[n + 1]
      BY <1>6
    <3>2. todo[n + 1].index = k + (n + 1) /\ todo[n + 1].name = WaypointAt(p, k + (n + 1)).name
      BY <1>5, <3>1
    <3> QED BY <3>1, <3>2
  <2>2. (k + 1) + Len(Tail(todo)) = k + Len(todo)
    BY <1>6
  <2> QED BY <1>5, <1>6, <1>7, <2>1, <2>2 DEF OnWay
<1>9. /\ InOrder(message_queue') /\ ReportsUpTo(message_queue', s, c, k + 1)
      /\ \A r, d, j : r # s /\ ReportsUpTo(message_queue, r, d, j) => ReportsUpTo(message_queue', r, d, j)
  <2>1. message_queue' = Append(message_queue, ReachedMessage(s, k + 1))
    BY <1>2, <1>7
  <2>2. ReportsUpTo(message_queue, s, c, k)
    BY <1>4 DEF c
  <2> QED BY <1>1, <2>1, <2>2, ReportPut
<1>10. InStep(s)'
  <2>1. at'[s] = Head(todo).name /\ pending'[s] = Tail(todo)
    BY <1>1, <1>2, <1>3
  <2>2. OnWay(dm'.plan[s], dm'.latest_enqueued[s], at'[s], pending'[s], k + 1, alive')
    BY <1>2, <1>8, <2>1 DEF p, e
  <2>3. ReportsUpTo(message_queue', s, dm'.current_waypoint[s], k + 1)
    BY <1>2, <1>9 DEF c
  <2>4. k + 1 \in Nat
    OBVIOUS
  <2> QED BY <2>2, <2>3, <2>4 DEF InStep
<1>11. ASSUME NEW r \in Known(dm), r # s PROVE InStep(r)'
  <2>1. at'[r] = at[r] /\ pending'[r] = pending[r]
    BY <1>1, <1>2, <1>3, <1>11
  <2>2. PICK j \in Nat :
          /\ OnWay(dm.plan[r], dm.latest_enqueued[r], at[r], pending[r], j, alive)
          /\ ReportsUpTo(message_queue, r, dm.current_waypoint[r], j)
    BY DEF RouteInv, InStep
  <2>3. ReportsUpTo(message_queue', r, dm'.current_waypoint[r], j)
    BY <1>2, <1>9, <1>11, <2>2
  <2> QED BY <1>2, <2>1, <2>2, <2>3 DEF InStep
<1>12. DOMAIN at' = Robots /\ \A r \in Robots \ {s} : at'[r] = at[r]
  BY <1>1, <1>2
<1> QED BY <1>2, <1>3, <1>9, <1>10, <1>11, <1>12 DEF Moving, RouteInv

\* What the other steps do to what a robot's way depends on.
LEMMA WayStays ==
  ASSUME RouteInv, UNCHANGED <<at, pending>>, alive' => alive,
         dm'.robots = dm.robots, dm'.plan = dm.plan,
         dm'.latest_enqueued = dm.latest_enqueued, dm'.current_waypoint = dm.current_waypoint,
         InOrder(message_queue'),
         \A r, current, k : ReportsUpTo(message_queue, r, current, k) =>
                            ReportsUpTo(message_queue', r, current, k)
  PROVE  Moving'
<1>1. Known(dm') = Known(dm)
  BY DEF Known
<1>2. ASSUME NEW r \in Known(dm) PROVE InStep(r)'
  <2>1. PICK k \in Nat :
          /\ OnWay(dm.plan[r], dm.latest_enqueued[r], at[r], pending[r], k, alive)
          /\ ReportsUpTo(message_queue, r, dm.current_waypoint[r], k)
    BY DEF RouteInv, InStep
  <2>2. OnWay(dm'.plan[r], dm'.latest_enqueued[r], at'[r], pending'[r], k, alive')
    BY <2>1 DEF OnWay
  <2> QED BY <2>1, <2>2 DEF InStep
<1> QED BY <1>1, <1>2 DEF Moving, RouteInv

LEMMA WayKept ==
  ASSUME RouteInv, [Next]_vars
  PROVE  /\ Moving' /\ Known(dm) \subseteq Known(dm')
         /\ \A r \in Robots \ Known(dm) : at'[r] = at[r]
<1>1. PlansInv /\ DeliveredOnce /\ Sound(dm) /\ InOrder(message_queue)
  BY DEF RouteInv, FitInv, FreshInv, PlansInv
<1>2. CASE ExecutorPlan
  <2>1. UNCHANGED at /\ Known(dm) \subseteq Known(dm')
    BY <1>1, <1>2, PlanHandled DEF ExecutorPlan, HandlePlan
  <2> QED BY <1>2, <2>1, PlanKeepsWay
<1>3. CASE ExecutorReached
  <2>1. UNCHANGED at /\ Known(dm') = Known(dm)
    BY <1>1, <1>3, ReachedHandled DEF ExecutorReached, HandleWaypointReached
  <2> QED BY <1>3, <2>1, ReachedKeepsWay
<1>4. CASE ExecutorRequest
  <2>1. /\ HandleCommittedLocationsRequest /\ UNCHANGED <<at, pending>> /\ (alive' => alive)
        /\ message_queue # <<>> /\ message_queue' = Tail(message_queue)
    BY <1>4 DEF ExecutorRequest, HandleCommittedLocationsRequest, NextMessage
  <2>2. /\ Known(dm') = Known(dm) /\ dm'.robots = dm.robots /\ dm'.plan = dm.plan
        /\ dm'.latest_enqueued = dm.latest_enqueued /\ dm'.current_waypoint = dm.current_waypoint
    BY <1>1, <2>1, CutIsSound DEF HandleCommittedLocationsRequest
  <2>3. /\ InOrder(message_queue')
        /\ \A r, current, k : ReportsUpTo(message_queue, r, current, k) =>
                              ReportsUpTo(message_queue', r, current, k)
    BY <1>1, <2>1, ReportsTaken
  <2> QED BY <2>1, <2>2, <2>3, WayStays
<1>5. ASSUME NEW s \in Robots, RobotArrives(s)
      PROVE  /\ Moving' /\ Known(dm) \subseteq Known(dm')
             /\ \A r \in Robots \ Known(dm) : at'[r] = at[r]
  BY <1>5, ArriveKeepsWay DEF RobotArrives, Arrive
<1>6. ASSUME UNCHANGED <<dm, at, pending>>, alive' => alive,
             \A n \in DOMAIN message_queue' : Stays(n) \/ message_queue'[n].type # Reached
      PROVE  /\ Moving' /\ Known(dm) \subseteq Known(dm')
             /\ \A r \in Robots \ Known(dm) : at'[r] = at[r]
  <2>1. /\ InOrder(message_queue')
        /\ \A r, current, k : ReportsUpTo(message_queue, r, current, k) =>
                              ReportsUpTo(message_queue', r, current, k)
    BY <1>1, <1>6, ReportsStay
  <2>2. Moving'
    BY <1>6, <2>1, WayStays
  <2> QED BY <1>6, <2>2
<1>7. CASE UNCHANGED <<dm, at, pending, message_queue>> /\ (alive' => alive)
  BY <1>6, <1>7 DEF Stays
<1>8. CASE ServerBatch
  <2>1. UNCHANGED <<dm, at, pending, alive>>
    BY <1>8 DEF ServerBatch, OnCommittedLocationsRequest, executorVars
  <2>2. CASE message_queue' = Append(message_queue, RequestMessage(server'.request_id))
    <3>1. RequestMessage(server'.request_id).type # Reached
      BY DEF RequestMessage, Reached
    <3>2. \A n \in DOMAIN message_queue' : Stays(n) \/ message_queue'[n].type # Reached
      BY <1>1, <2>2, <3>1, AppendedTo
    <3> QED BY <1>6, <2>1, <3>2
  <2>3. UNCHANGED message_queue \/ message_queue' = Append(message_queue, RequestMessage(server'.request_id))
    BY <1>8 DEF ServerBatch, OnCommittedLocationsRequest, executorVars
  <2> QED BY <1>7, <2>1, <2>2, <2>3
<1>9. ASSUME NEW r \in Robots, ServerPublish(r)
      PROVE  /\ Moving' /\ Known(dm) \subseteq Known(dm')
             /\ \A s \in Robots \ Known(dm) : at'[s] = at[s]
  <2>1. UNCHANGED <<dm, at, pending, alive>>
    BY <1>9 DEF ServerPublish
  <2>2. PlanMessage(r, Carried(server.plans[r])).type # Reached
    BY DEF PlanMessage, Reached
  <2>3. \A n \in DOMAIN message_queue' : Stays(n) \/ message_queue'[n].type # Reached
    BY <1>1, <1>9, <2>2, PublishedIs
  <2> QED BY <1>6, <2>1, <2>3
<1>10. CASE Client \/ ServerInternal \/ ServerTimeout \/ ServerProgress \/ ServerRecordsEnd
            \/ ServerScanFails \/ UNCHANGED vars
  <2>1. CASE Client
    BY <1>7, <2>1 DEF Client, SendTasks, OnboardAtServer, OnboardAtExecutor, Discovery, executorVars
  <2>2. CASE ServerInternal \/ ServerTimeout \/ ServerProgress \/ ServerRecordsEnd \/ UNCHANGED vars
    BY <1>7, <2>2 DEF ServerInternal, ServerTimeout, ServerProgress, ServerRecordsEnd, vars, executorVars
  <2>3. CASE ServerScanFails
    <3>1. UNCHANGED <<dm, at, pending, message_queue>>
      BY <2>3 DEF ServerScanFails
    <3>2. alive' => alive
      BY <2>3, Zenon DEF ServerScanFails
    <3> QED BY <1>7, <3>1, <3>2
  <2> QED BY <1>7, <1>10, <2>1, <2>2, <2>3
<1> QED BY <1>2, <1>3, <1>4, <1>5, <1>8, <1>9, <1>10
        DEF Next, ServerWorker, ServerCallback, ExecutorWorker


\* Plan p of robot r was made of a path of the solver.
FromPath(r, p) ==
  \E path, id, offset : /\ FollowsMap(path, Edges) /\ path[1] = StartOf(server.committed, r)
                        /\ IsSequence(path) /\ Len(path) > 1
                        /\ PlanOf(p, id, path, offset)

LEMMA SolutionFollows ==
  ASSUME SolverReturnsPaths, PathsStartAtStarts, PathsFollowMap, PlansInv, Solve,
         server'.at = "publishing"
  PROVE  \A r \in server'.left : r \in DOMAIN context /\ FromPath(r, server'.plans[r])
<1> DEFINE Offsets(paths) == [r \in DOMAIN paths |-> OffsetOf(server.committed, r)]
           Plans(paths) == Generate(paths, server.plan_ids, Offsets(paths))
<1>1. PICK paths \in Solutions(server.tasks, server.committed, server.stationary) :
        server'.plans = Plans(paths) /\ server'.left = DOMAIN Plans(paths)
  <2>1. Idle.at # "publishing" /\ Dead.at # "publishing"
    BY DEF Idle, Dead
  <2>2. PICK paths \in Solutions(server.tasks, server.committed, server.stationary) :
          server' = [ at |-> "publishing", tasks |-> server.tasks,
                      committed |-> server.committed, plan_ids |-> server.plan_ids,
                      plans |-> Plans(paths), left |-> DOMAIN Plans(paths) ]
    BY <2>1 DEF Solve, BatchFails
  <2> HIDE DEF Plans
  <2> QED BY <2>2
<1>2. /\ \A r \in DOMAIN paths : IsSequence(paths[r]) /\ paths[r] # <<>> /\ FollowsMap(paths[r], Edges)
      /\ \A r \in DOMAIN paths : r \in DOMAIN context /\ paths[r][1] = StartOf(server.committed, r)
  <2> DEFINE agents == Agents(server.stationary)
             starts == [r \in agents |-> StartOf(server.committed, r)]
             goals == [r \in agents |-> GoalOf(server.tasks, r)]
  <2>1. paths \in Solver(starts, goals, Obstacles(server.stationary))
    BY DEF Solutions
  <2>2. DOMAIN starts = agents /\ \A r \in agents : starts[r] = StartOf(server.committed, r)
    OBVIOUS
  <2>3. agents \subseteq DOMAIN context
    BY DEF Agents
  <2> HIDE DEF starts, goals, agents
  <2>4. /\ DOMAIN paths = agents
        /\ \A r \in DOMAIN paths : IsSequence(paths[r]) /\ paths[r] # <<>>
    BY <2>1, <2>2 DEF SolverReturnsPaths
  <2>5. \A r \in DOMAIN paths : FollowsMap(paths[r], Edges)
    BY <2>1 DEF PathsFollowMap
  <2>6. \A r \in agents : paths[r][1] = starts[r]
    BY <2>1, <2>2 DEF PathsStartAtStarts
  <2> QED BY <2>2, <2>3, <2>4, <2>5, <2>6
<1> DEFINE offset == Offsets(paths)
           ids == server.plan_ids
           plans == Generate(paths, ids, offset)
<1>3. \A r \in DOMAIN paths : offset[r] \in Int
  <2>1. Located(server.committed)
    BY DEF Solve, PlansInv, AnswersLocated
  <2> QED BY <2>1 DEF Located, OffsetOf
<1>4. server'.plans = plans /\ server'.left = DOMAIN plans
  BY <1>1
<1> HIDE DEF Offsets, offset, ids, Plans
<1>5. /\ DOMAIN plans = {r \in DOMAIN paths : Len(paths[r]) > 1}
      /\ \A r \in DOMAIN plans : PlanOf(plans[r], ids[r], paths[r], offset[r])
  <2>1. \A r \in DOMAIN paths : IsSequence(paths[r]) /\ paths[r] # <<>> /\ offset[r] \in Int
    BY <1>2, <1>3
  <2> HIDE DEF plans
  <2>2. plans = Generate(paths, ids, offset)
    BY DEF plans
  <2> QED BY <2>1, <2>2, PlansOfPaths
<1> HIDE DEF plans
<1>6. ASSUME NEW r \in DOMAIN plans PROVE r \in DOMAIN context /\ FromPath(r, plans[r])
  <2>1. /\ r \in DOMAIN paths /\ Len(paths[r]) > 1
        /\ PlanOf(plans[r], ids[r], paths[r], offset[r])
    BY <1>5
  <2>2. /\ r \in DOMAIN context /\ IsSequence(paths[r]) /\ FollowsMap(paths[r], Edges)
        /\ paths[r][1] = StartOf(server.committed, r)
    BY <1>2, <2>1
  <2> QED BY <2>1, <2>2 DEF FromPath
<1> QED BY <1>4, <1>6

\* A plan that was made of a path leads where the path does.
LEMMA PathLeads ==
  ASSUME NEW r, NEW p, FromPath(r, p)
  PROVE  Route(p) /\ p.waypoints[1].name = StartOf(server.committed, r)
<1>1. PICK path, id, offset : /\ FollowsMap(path, Edges) /\ path[1] = StartOf(server.committed, r)
                              /\ IsSequence(path) /\ Len(path) > 1
                              /\ PlanOf(p, id, path, offset)
  BY Zenon DEF FromPath
<1>2. /\ Len(path) \in Nat /\ Len(p.waypoints) = Len(path)
      /\ \A k \in 1 .. Len(path) : p.waypoints[k].name = path[k]
  BY <1>1, LenProperties DEF PlanOf, IsSequence
<1>3. 1 \in 1 .. Len(path)
  BY <1>1, <1>2
<1>4. \A n \in 1 .. Len(path) - 1 : n \in 1 .. Len(path) /\ n + 1 \in 1 .. Len(path)
  BY <1>2
<1> QED BY <1>1, <1>2, <1>3, <1>4 DEF FollowsMap, Route, Along

\* Where a plan that leads somewhere still does after a step.
LEMMA LeadsOn ==
  ASSUME RouteInv, [Next]_vars, NEW r \in Robots, NEW p, Leads(r, p)
  PROVE  Route(p) /\ (r \notin Known(dm') => p.waypoints[1].name = at'[r])
BY WayKept DEF Leads

\* Which plans the queue holds after a step.
LEMMA ComingIs ==
  ASSUME ~Ros, PlansInv, DeliveredOnce, [Next]_vars, NEW n \in Coming'
  PROVE  \/ \E k \in Coming : message_queue'[n] = message_queue[k]
         \/ /\ server.at = "publishing"
            /\ \E r \in Robots \cap server.left :
                 message_queue'[n].robot = r /\ message_queue'[n].plan = server.plans[r]
<1>1. n \in DOMAIN message_queue' /\ message_queue'[n].type = "plan"
  BY DEF Coming
<1>2. CASE Stays(n)
  BY <1>1, <1>2 DEF Stays, Coming
<1>3. CASE UNCHANGED message_queue
  BY <1>1, <1>2, <1>3 DEF Stays
<1>4. ASSUME NEW message, message.type # "plan", message_queue' = Append(message_queue, message)
      PROVE  Stays(n)
  BY <1>1, <1>4, AppendedTo
<1>5. CASE message_queue # <<>> /\ message_queue' = Tail(message_queue)
  BY <1>1, <1>5, TakenFrom DEF Coming
<1>6. ASSUME NEW r \in Robots, ServerPublish(r), ~Stays(n)
      PROVE  /\ server.at = "publishing" /\ r \in server.left
             /\ message_queue'[n].robot = r /\ message_queue'[n].plan = server.plans[r]
  <2>1. /\ server.at = "publishing" /\ r \in server.left
        /\ message_queue'[n] = PlanMessage(r, Carried(server.plans[r]))
    BY <1>1, <1>6, PublishedIs
  <2> QED BY <2>1 DEF PlanMessage, Carried
<1> QED BY <1>2, <1>3, <1>4, <1>5, <1>6, QueueSteps

LEMMA ComingLead ==
  ASSUME ~Ros, RouteInv, [Next]_vars, NEW n \in Coming'
  PROVE  Leads(message_queue[n].robot, message_queue[n].plan)'
<1>1. PlansInv /\ DeliveredOnce
  BY DEF RouteInv, FitInv, FreshInv
<1>2. ASSUME NEW k \in Coming, message_queue'[n] = message_queue[k]
      PROVE  Leads(message_queue[n].robot, message_queue[n].plan)'
  <2>1. message_queue[k].robot \in Robots
    BY <1>1 DEF PlansInv, PlansComing, Proper, Coming
  <2>2. Leads(message_queue[k].robot, message_queue[k].plan)
    BY DEF RouteInv
  <2> QED BY <1>2, <2>1, <2>2, LeadsOn DEF Leads
<1>3. ASSUME server.at = "publishing", NEW r \in Robots \cap server.left,
             message_queue'[n].robot = r, message_queue'[n].plan = server.plans[r]
      PROVE  Leads(message_queue[n].robot, message_queue[n].plan)'
  <2>1. Leads(r, server.plans[r])
    BY <1>3 DEF RouteInv
  <2> QED BY <1>3, <2>1, LeadsOn DEF Leads
<1> QED BY <1>1, <1>2, <1>3, ComingIs

LEMMA LeavingLead ==
  ASSUME SolverReturnsPaths, PathsStartAtStarts, PathsFollowMap, RouteInv, [Next]_vars,
         server'.at = "publishing", NEW r \in Robots \cap server'.left
  PROVE  Leads(r, server.plans[r])'
<1>1. PlansInv /\ AnswersMeasured
  BY DEF RouteInv, FitInv, FreshInv
<1>2. CASE server.at = "publishing" /\ server'.left \subseteq server.left /\ server'.plans = server.plans
  <2>1. Leads(r, server.plans[r])
    BY <1>2 DEF RouteInv
  <2> QED BY <1>2, <2>1, LeadsOn DEF Leads
<1>3. CASE Solve
  <2>1. r \in DOMAIN context /\ FromPath(r, server'.plans[r])
    BY <1>1, <1>3, SolutionFollows
  <2>2. Route(server'.plans[r]) /\ server'.plans[r].waypoints[1].name = StartOf(server.committed, r)
    BY <2>1, PathLeads
  <2>3. DOMAIN server.committed = Known(dm)
    BY <1>1, <1>3 DEF Solve, AnswersMeasured, Measured
  <2>4. ASSUME r \notin Known(dm') PROVE server'.plans[r].waypoints[1].name = at'[r]
    <3>1. r \notin Known(dm) /\ at'[r] = at[r]
      BY <2>4, WayKept
    <3>2. StartOf(server.committed, r) = context[r].start_location
      BY <2>3, <3>1 DEF StartOf
    <3>3. context[r].start_location = at[r]
      BY <2>1, <3>1 DEF RouteInv
    <3> QED BY <2>2, <3>1, <3>2, <3>3
  <2> QED BY <2>2, <2>4 DEF Leads
<1> QED BY <1>1, <1>2, <1>3, PublishingIs

LEMMA CommittedKept ==
  ASSUME RouteInv, [Next]_vars, server'.at \in {"publishing", "recording"}
  PROVE  DOMAIN server'.committed \subseteq Known(dm')
<1>1. PlansInv /\ AnswersMeasured /\ Known(dm) \subseteq Known(dm')
  BY WayKept DEF RouteInv, FitInv, FreshInv
<1>2. CASE UNCHANGED server \/ server' \in {Idle, Dead}
  BY <1>1, <1>2 DEF Idle, Dead, RouteInv
<1>3. CASE ProcessBatch \/ TakeResponse \/ AssignPlanIds
  BY <1>2, <1>3 DEF ProcessBatch, TakeResponse, AssignPlanIds
<1>4. CASE Solve
  <2>1. Idle.at = "idle" /\ Dead.at = "dead"
    BY DEF Idle, Dead
  <2> DEFINE Offsets(paths) == [r \in DOMAIN paths |-> OffsetOf(server.committed, r)]
             Plans(paths) == Generate(paths, server.plan_ids, Offsets(paths))
  <2>2. PICK paths \in Solutions(server.tasks, server.committed, server.stationary) :
          server' = [ at |-> "publishing", tasks |-> server.tasks,
                      committed |-> server.committed, plan_ids |-> server.plan_ids,
                      plans |-> Plans(paths), left |-> DOMAIN Plans(paths) ]
    BY <1>4, <2>1 DEF Solve, BatchFails
  <2> HIDE DEF Plans
  <2>3. DOMAIN server.committed = Known(dm)
    BY <1>1, <1>4 DEF Solve, AnswersMeasured, Measured
  <2> QED BY <1>1, <2>2, <2>3
<1>5. CASE SupersedeTasks
  <2>1. server.at = "publishing" /\ server'.committed = server.committed
    BY <1>1, <1>5 DEF SupersedeTasks, PlansInv, ServerFields, PublishingFields
  <2> QED BY <1>1, <2>1 DEF RouteInv
<1>6. CASE \E r \in Robots : ServerPublish(r)
  <2>1. server.at = "publishing" /\ server'.committed = server.committed
    BY <1>1, <1>6 DEF ServerPublish, PublishPlan, PlansInv, ServerFields, PublishingFields
  <2> QED BY <1>1, <2>1 DEF RouteInv
<1> QED BY <1>2, <1>3, <1>4, <1>5, <1>6, ServerSteps


\* What the steps do to the context.
LEMMA ContextSteps ==
  ASSUME [Next]_vars
  PROVE  \/ UNCHANGED context
         \/ OnboardAtServer /\ context' = Initialised(Item.robot, Item.location)
         \/ RecordBatch
         \/ ServerRecordsEnd /\ Complete
<1>1. CASE SendTasks \/ OnboardAtExecutor \/ Discovery
  BY <1>1 DEF SendTasks, OnboardAtExecutor, Discovery, OnTaskRequests, serverVars
<1>2. CASE OnboardAtServer
  BY <1>2 DEF OnboardAtServer, AddRobot, serverVars
<1>3. CASE ServerBatch \/ ServerInternal \/ ServerTimeout \/ \E r \in Robots : ServerPublish(r)
  BY <1>3 DEF ServerBatch, ServerInternal, ServerTimeout, WaitTimesOut, ProcessBatch,
              TakeResponse, AssignPlanIds, Solve, SupersedeTasks, ServerPublish, PublishPlan
<1>4. CASE ServerProgress \/ ServerScanFails \/ ScanEnds
  BY <1>4 DEF ServerProgress, ServerScanFails, OnProgress, ScanEnds, ScanFails
<1>5. CASE ExecutorWorker
  BY <1>5 DEF ExecutorWorker, ExecutorPlan, ExecutorReached, ExecutorRequest, serverVars
<1>6. CASE \E r \in Robots : RobotArrives(r)
  BY <1>6 DEF RobotArrives, serverVars
<1>7. CASE UNCHANGED vars
  BY <1>7 DEF vars, serverVars
<1> QED BY <1>1, <1>2, <1>3, <1>4, <1>5, <1>6, <1>7 DEF Next, Client, ServerWorker, ServerCallback,
                                                       ServerRecordsEnd

\* An entry of the context, and where it says that its robot starts.
Placed(entry, place) == DOMAIN entry = EntryFields /\ entry.start_location = place

\* What the end of a plan leaves of an entry.
LEMMA CompletedEntryIs ==
  ASSUME NEW e, NEW entry \in CompletedEntries(e)
  PROVE  DOMAIN entry = DOMAIN e
<1>1. CASE ~Overlaps
  <2>1. entry = [e EXCEPT !.start_location = e.goal_location, !.plan_id = None,
                          !.goal_location = None, !.status = "IDLE"]
    BY <1>1 DEF CompletedEntries
  <2> QED BY <2>1
<1>2. CASE Overlaps
  <2> DEFINE E(start, id, goal, status) ==
               [e EXCEPT !.start_location = start, !.plan_id = id,
                         !.goal_location = goal, !.status = status]
             starts == {e.start_location, callback.entry.goal_location}
             ids == {e.plan_id, None}
             goals == {e.goal_location, None}
             states == {e.status, "IDLE"}
  <2>1. CASE entry \in {E(start, id, goal, status) :
                          start \in starts, id \in ids, goal \in goals, status \in states}
    <3> HIDE DEF E, starts, ids, goals, states
    <3>1. \E start \in starts, id \in ids, goal \in goals, status \in states :
            entry = E(start, id, goal, status)
      BY <2>1
    <3>2. \A start, id, goal, status : DOMAIN E(start, id, goal, status) = DOMAIN e
      BY DEF E
    <3> QED BY <3>1, <3>2
  <2>2. CASE entry \in {[e EXCEPT !.start_location = e.goal_location, !.plan_id = None,
                                  !.goal_location = None, !.status = status] :
                          status \in {e.status, "IDLE"}}
    BY <2>2
  <2> QED BY <1>2, <2>1, <2>2 DEF CompletedEntries
<1> QED BY <1>1, <1>2

LEMMA ContextKept ==
  ASSUME RouteInv, [Next]_vars, AnnouncedInPlace \/ UNCHANGED vars, NEW r \in DOMAIN context'
  PROVE  /\ DOMAIN context'[r] = EntryFields
         /\ r \in Robots \ Known(dm') => context'[r].start_location = at'[r]
<1>1. /\ Known(dm) \subseteq Known(dm')
      /\ \A s \in Robots \ Known(dm) : at'[s] = at[s]
  BY WayKept
<1>2. \A s \in DOMAIN context :
        /\ DOMAIN context[s] = EntryFields
        /\ s \in Robots \ Known(dm) => context[s].start_location = at[s]
  BY DEF RouteInv
<1>3. CASE UNCHANGED context
  BY <1>1, <1>2, <1>3
<1>4. CASE OnboardAtServer /\ context' = Initialised(Item.robot, Item.location) /\ ~UNCHANGED vars
  <2>1. Item.robot \notin Known(dm) => Item.location = at[Item.robot]
    BY <1>4 DEF AnnouncedInPlace
  <2>2. CASE r # Item.robot
    <3>1. r \in DOMAIN context /\ context'[r] = context[r]
      BY <1>4, <2>2 DEF Initialised
    <3> QED BY <1>1, <1>2, <3>1
  <2>3. CASE r = Item.robot
    <3> DEFINE blank == [ status |-> "IDLE", task_id |-> None, plan_id |-> None,
                          start_location |-> None, goal_location |-> None ]
    <3>1. PICK entry : /\ entry = blank \/ (r \in DOMAIN context /\ entry = context[r])
                       /\ context'[r] = [entry EXCEPT !.start_location = Item.location,
                                                      !.goal_location = Item.location]
      <4> DEFINE e == IF r \in DOMAIN context THEN context[r] ELSE blank
      <4>1. context'[r] = [e EXCEPT !.start_location = Item.location, !.goal_location = Item.location]
        BY <1>4, <2>3 DEF Initialised
      <4> QED BY <4>1
    <3>2. DOMAIN blank = EntryFields
      BY DEF EntryFields
    <3> HIDE DEF blank
    <3>3. DOMAIN entry = EntryFields
      BY <1>2, <3>1, <3>2
    <3>4. DOMAIN context'[r] = EntryFields /\ context'[r].start_location = Item.location
      BY <3>1, <3>3 DEF EntryFields
    <3> QED BY <1>1, <2>1, <2>3, <3>4
  <2> QED BY <2>2, <2>3
<1>5. CASE RecordBatch
  <2>1. DOMAIN server.committed \subseteq Known(dm)
    BY <1>5 DEF RecordBatch, RouteInv
  <2>2. r \in DOMAIN context
    BY <1>5 DEF RecordBatch
  <2> DEFINE entry == IF r \in DOMAIN server.committed
                      THEN [context[r] EXCEPT !.start_location = server.committed[r].location]
                      ELSE context[r]
  <2>3. context'[r] = IF r \in DOMAIN server.tasks
                      THEN [entry EXCEPT !.task_id = server.tasks[r].task_id,
                                         !.plan_id = server.plan_ids[r],
                                         !.goal_location = server.tasks[r].goal,
                                         !.status = "EXECUTING"]
                      ELSE entry
    BY <1>5, <2>2 DEF RecordBatch
  <2>4. DOMAIN entry = EntryFields /\ (r \notin Known(dm) => entry.start_location = context[r].start_location)
    BY <1>2, <2>1, <2>2 DEF EntryFields
  <2> HIDE DEF entry
  <2>5. DOMAIN context'[r] = EntryFields /\ context'[r].start_location = entry.start_location
    BY <2>3, <2>4 DEF EntryFields
  <2> QED BY <1>1, <1>2, <2>2, <2>4, <2>5
<1>6. CASE Complete
  <2>1. callback.robot \in Known(dm)
    BY <1>6 DEF Complete, RouteInv, FitInv, FreshInv, KnownReports, Recording
  <2>2. PICK entry \in CompletedEntries(context[callback.robot]) :
          context' = [context EXCEPT ![callback.robot] = entry]
    BY <1>6 DEF Complete
  <2>3. r \in DOMAIN context
    BY <2>2
  <2>4. CASE r # callback.robot
    <3>1. context'[r] = context[r]
      BY <2>2, <2>3, <2>4
    <3> QED BY <1>1, <1>2, <2>3, <3>1
  <2>5. CASE r = callback.robot
    <3>1. context'[r] = entry
      BY <2>2, <2>3, <2>5
    <3> DEFINE e == context[callback.robot]
    <3>2. DOMAIN entry = DOMAIN e
      BY <2>2, CompletedEntryIs
    <3>3. DOMAIN entry = EntryFields
      BY <1>2, <2>3, <2>5, <3>2
    <3> QED BY <1>1, <2>1, <2>5, <3>1, <3>3
  <2> QED BY <2>4, <2>5
<1>7. UNCHANGED vars => UNCHANGED context
  BY DEF vars, serverVars
<1> QED BY <1>3, <1>4, <1>5, <1>6, <1>7, ContextSteps

LEMMA RouteNext ==
  ASSUME SolverReturnsPaths, PathsStartAtStarts, PathsFollowMap, ~Ros,
         RouteInv, [Next]_vars, AnnouncedInPlace \/ UNCHANGED vars, FitInv'
  PROVE  RouteInv'
<1>1. Moving'
  BY WayKept
<1>2. \A n \in Coming' : Leads(message_queue[n].robot, message_queue[n].plan)'
  BY ComingLead
<1>3. server'.at = "publishing" => \A r \in Robots \cap server'.left : Leads(r, server.plans[r])'
  BY LeavingLead
<1>4. server'.at \in {"publishing", "recording"} => DOMAIN server'.committed \subseteq Known(dm')
  BY CommittedKept
<1>5. \A r \in DOMAIN context' :
        /\ DOMAIN context'[r] = EntryFields
        /\ r \in Robots \ Known(dm') => context'[r].start_location = at'[r]
  BY ContextKept
<1> QED BY <1>1, <1>2, <1>3, <1>4, <1>5 DEF RouteInv, Moving

\* Wherever plans are cut and joined, a robot is sent along the map from where
\* it is (update_plan_after_cut and _send_enqueued_waypoints,
\* dependency_manager.py and plan_executor.py), if the solver's paths follow
\* the map and robots are announced where they stand.
THEOREM RoutesFollowTheMap ==
  ASSUME SolverReturnsPaths, PathsStartAtStarts, PathsFollowMap, TasksOfOneRobot, ~Ros
  PROVE  Spec /\ [][AnnouncedInPlace]_vars => []RoutesFollowMap
<1>1. Init /\ FitInv => RouteInv
  <2> SUFFICES ASSUME Init, FitInv PROVE RouteInv
    OBVIOUS
  <2>1. message_queue = <<>> /\ server = Idle /\ dm = EmptyManager /\ context = <<>> /\ DOMAIN at = Robots
    BY DEF Init, ServerInit, ExecutorInit
  <2>2. DOMAIN <<>> = {} /\ Idle.at = "idle"
    BY DEF Idle
  <2>3. Known(dm) = {} /\ Coming = {}
    BY <2>1, <2>2 DEF Known, EmptyManager, Coming
  <2> QED BY <2>1, <2>2, <2>3 DEF RouteInv, InOrder
<1>2. RouteInv /\ [Next]_vars /\ [AnnouncedInPlace]_vars /\ FitInv' => RouteInv'
  BY RouteNext
<1>3. RouteInv => RoutesFollowMap
  <2> SUFFICES ASSUME RouteInv, NEW r \in Robots
               PROVE  FollowsMap(<<at[r]>> \o [n \in DOMAIN pending[r] |-> pending[r][n].name], Edges)
    BY DEF RoutesFollowMap
  <2>1. Sound(dm) /\ KnownReports
    BY DEF RouteInv, FitInv, FreshInv, PlansInv
  <2>2. CASE r \in Known(dm)
    BY <2>1, <2>2, InStepFollows DEF RouteInv
  <2>3. CASE r \notin Known(dm)
    <3>1. pending[r] = <<>>
      BY <2>1, <2>3 DEF KnownReports
    <3>2. [n \in DOMAIN pending[r] |-> pending[r][n].name] = <<>>
      BY <3>1
    <3> DEFINE names == [n \in DOMAIN pending[r] |-> pending[r][n].name]
               first == <<at[r]>>
    <3>3. IsSequence(names) /\ Len(names) = 0
      BY <3>2 DEF IsSequence
    <3>4. IsSequence(first) /\ Len(first) = 1
      <4>1. first \in Seq({at[r]})
        OBVIOUS
      <4> QED BY <4>1, SequenceIs
    <3> DEFINE path == first \o names
    <3> HIDE DEF names, first
    <3>5. Len(path) = 1
      BY <3>3, <3>4, JoinedIs
    <3> HIDE DEF path
    <3>6. \A k \in 1 .. Len(path) - 1 : FALSE
      BY <3>5
    <3>7. FollowsMap(path, Edges)
      BY <3>6 DEF FollowsMap
    <3> QED BY <3>7 DEF path, names, first
  <2> QED BY <2>2, <2>3
<1> QED BY <1>1, <1>2, <1>3, FitInvHolds, PTL DEF Spec

-----------------------------------------------------------------------------
(* What robots have pending and what the executor has still to hear of them, *)
(* wherever the plans lead.                                                  *)

\* As InStep, but for where the robot is.
GoesOn(r) ==
  \E place : \E k \in Nat :
    /\ OnWay(dm.plan[r], dm.latest_enqueued[r], place, pending[r], k, alive)
    /\ ReportsUpTo(message_queue, r, dm.current_waypoint[r], k)

AllGoOn == (\A r \in Known(dm) : GoesOn(r)) /\ InOrder(message_queue)
PaceInv == FitInv /\ AllGoOn

\* A robot with something pending, or to report, is not at the end of its plan.
LEMMA PendingIsAhead ==
  ASSUME PaceInv, NEW r \in Known(dm)
  PROVE  /\ dm.current_waypoint[r] \in Int /\ dm.current_waypoint[r] <= dm.latest_enqueued[r]
         /\ pending[r] # <<>> => ~IsComplete(dm, r)
         /\ \A n \in DOMAIN message_queue :
              message_queue[n].type = Reached /\ message_queue[n].robot = r =>
                /\ ~IsComplete(dm, r)
                /\ message_queue[n].index \in Int
                /\ message_queue[n].index <= dm.latest_enqueued[r]
                /\ message_queue[n].index > dm.current_waypoint[r]
<1> DEFINE e == dm.latest_enqueued[r]
           last == LastIndex(dm.plan[r])
           todo == pending[r]
           c == dm.current_waypoint[r]
<1>1. PICK place : \E k \in Nat :
        /\ OnWay(dm.plan[r], e, place, todo, k, alive)
        /\ ReportsUpTo(message_queue, r, c, k)
  BY DEF PaceInv, AllGoOn, GoesOn
<1>2. PICK k \in Nat : /\ OnWay(dm.plan[r], e, place, todo, k, alive)
                       /\ ReportsUpTo(message_queue, r, c, k)
  BY <1>1
<1>3. e \in Nat /\ e <= last /\ last \in Nat
  BY SoundPlans DEF PaceInv, FitInv, FreshInv, PlansInv
<1>4. IsSequence(todo) /\ k + Len(todo) <= e
  BY <1>2 DEF OnWay
<1>5. /\ c \in Int /\ c <= k
      /\ \A n \in DOMAIN message_queue :
           message_queue[n].type = Reached /\ message_queue[n].robot = r =>
             message_queue[n].index \in c + 1 .. k
  BY <1>2 DEF ReportsUpTo
<1>6. IsComplete(dm, r) <=> c >= last
  BY DEF IsComplete
<1> HIDE DEF e, last, todo, c
<1>7. Len(todo) \in Nat /\ (todo # <<>> => Len(todo) # 0)
  BY <1>4, LenProperties, EmptySeq DEF IsSequence
<1>8. todo # <<>> => ~(c >= last)
  BY <1>3, <1>4, <1>5, <1>7
<1>9. ASSUME NEW i \in c + 1 .. k PROVE ~(c >= last) /\ i \in Int /\ i <= e /\ i > c
  <2>1. k <= e
    BY <1>3, <1>4, <1>7
  <2> QED BY <1>3, <1>5, <1>9, <2>1
<1>10. c <= e
  BY <1>3, <1>4, <1>5, <1>7
<1> QED BY <1>5, <1>6, <1>8, <1>9, <1>10 DEF e, todo, c

LEMMA ReachedGoesOn ==
  ASSUME PaceInv, ExecutorReached
  PROVE  AllGoOn'
<1>1. PlansInv /\ KnownReports /\ HandleWaypointReached
  BY DEF PaceInv, FitInv, FreshInv, ExecutorReached
<1>2. /\ NextMessage(Reached) /\ message_queue # <<>> /\ message_queue' = Tail(message_queue) /\ alive
  BY <1>1 DEF HandleWaypointReached, NextMessage, Reached
<1>3. 1 \in DOMAIN message_queue /\ First = message_queue[1] /\ First.type = Reached
  BY <1>1, <1>2, FirstIs
<1>4. First.robot \in Known(dm) /\ DOMAIN pending = Robots /\ Known(dm) \subseteq Robots
      /\ DOMAIN dm.current_waypoint = Robots
  BY <1>1, <1>3 DEF KnownReports, PlansInv, Sound
<1>5. PICK e : /\ Sound(e) /\ DispatchUnblocked(e) /\ Known(e) = Known(dm)
               /\ e.plan = dm.plan /\ e.latest_enqueued = dm.latest_enqueued
               /\ e.current_waypoint = [dm.current_waypoint EXCEPT ![First.robot] = First.index]
  BY <1>1, <1>4, ReachedDispatches
<1>6. Known(dm') = Known(dm) /\ dm'.plan = dm.plan /\ dm'.current_waypoint = e.current_waypoint
  BY <1>5, DispatchIsSound
<1>7. /\ InOrder(message_queue')
      /\ \A r, current, k : ReportsUpTo(message_queue, r, current, k) =>
                            ReportsUpTo(message_queue', r, current, k)
      /\ \A current : \A k \in Int : ReportsUpTo(message_queue, First.robot, current, k) =>
           ReportsUpTo(message_queue', First.robot, First.index, k)
  BY <1>1, <1>2, <1>3, ReportsTaken DEF PaceInv, AllGoOn
<1>8. ASSUME NEW r \in Known(dm) PROVE GoesOn(r)'
  <2>1. PICK place : \E k \in Nat :
          /\ OnWay(dm.plan[r], dm.latest_enqueued[r], place, pending[r], k, alive)
          /\ ReportsUpTo(message_queue, r, dm.current_waypoint[r], k)
    BY DEF PaceInv, AllGoOn, GoesOn
  <2>2. PICK k \in Nat :
          /\ OnWay(dm.plan[r], dm.latest_enqueued[r], place, pending[r], k, alive)
          /\ ReportsUpTo(message_queue, r, dm.current_waypoint[r], k)
    BY <2>1
  <2>3. OnWay(e.plan[r], e.latest_enqueued[r], place, pending[r], k, TRUE)
    BY <1>2, <1>5, <2>2 DEF OnWay
  <2>4. OnWay(dm'.plan[r], dm'.latest_enqueued[r], place, pending'[r], k, alive')
    BY <1>4, <1>5, <2>3, DispatchGoesOn
  <2>5. ReportsUpTo(message_queue', r, dm'.current_waypoint[r], k)
    <3>1. CASE r = First.robot
      <4>1. dm'.current_waypoint[r] = First.index
        BY <1>4, <1>5, <1>6, <3>1
      <4> QED BY <1>7, <2>2, <3>1, <4>1
    <3>2. CASE r # First.robot
      <4>1. dm'.current_waypoint[r] = dm.current_waypoint[r]
        BY <1>4, <1>5, <1>6, <3>2
      <4> QED BY <1>7, <2>2, <4>1
    <3> QED BY <3>1, <3>2
  <2> QED BY <2>4, <2>5 DEF GoesOn
<1> QED BY <1>6, <1>7, <1>8 DEF AllGoOn

LEMMA PlanGoesOn ==
  ASSUME PaceInv, ExecutorPlan
  PROVE  AllGoOn'
<1> DEFINE r == First.robot
           p == First.plan
<1>1. PlansInv /\ KnownReports /\ HandlePlan /\ Sound(dm) /\ FitInv
  BY DEF PaceInv, FitInv, FreshInv, PlansInv, ExecutorPlan
<1>2. message_queue # <<>> /\ message_queue' = Tail(message_queue) /\ alive
  BY <1>1 DEF HandlePlan, NextMessage
<1>3. r \in Robots /\ WellFormed(p)
  BY <1>1, FirstIs DEF HandlePlan
<1>4. DOMAIN pending = Robots /\ Known(dm) \subseteq Robots
  BY <1>1 DEF KnownReports, Sound
<1>5. /\ InOrder(message_queue')
      /\ \A s, current, k : ReportsUpTo(message_queue, s, current, k) =>
                            ReportsUpTo(message_queue', s, current, k)
  BY <1>1, <1>2, ReportsTaken DEF PaceInv, AllGoOn
<1>6. (r \in Known(dm) => IsComplete(dm, r)) =>
        /\ pending[r] = <<>>
        /\ \A n \in DOMAIN message_queue :
             message_queue[n].type = Reached => message_queue[n].robot # r
  <2>1. CASE r \in Known(dm)
    BY <2>1, PendingIsAhead
  <2>2. CASE r \notin Known(dm)
    BY <1>1, <1>3, <2>2 DEF KnownReports
  <2> QED BY <2>1, <2>2
<1>7. PICK e : /\ DispatchUnblocked(e)
               /\ \/ (r \in Known(dm) => IsComplete(dm, r)) /\ IsSet(dm, r, p, e)
                  \/ r \in Known(dm) /\ IsUpdated(dm, r, p, e)
  BY <1>1, PlanDispatches
<1>8. Sound(e)
  BY <1>7 DEF IsSet, IsUpdated
<1>9. Known(dm') = Known(e) /\ dm'.plan = e.plan /\ dm'.current_waypoint = e.current_waypoint
  BY <1>7, <1>8, DispatchIsSound
<1> HIDE DEF r, p
<1>10. SUFFICES \A s \in Known(e) : \E place : \E k \in Nat :
         /\ OnWay(e.plan[s], e.latest_enqueued[s], place, pending[s], k, TRUE)
         /\ ReportsUpTo(message_queue, s, e.current_waypoint[s], k)
  <2>1. ASSUME NEW s \in Known(e), NEW place,
               NEW k \in Nat, OnWay(e.plan[s], e.latest_enqueued[s], place, pending[s], k, TRUE),
               ReportsUpTo(message_queue, s, e.current_waypoint[s], k)
        PROVE  GoesOn(s)'
    <3>1. OnWay(dm'.plan[s], dm'.latest_enqueued[s], place, pending'[s], k, alive')
      BY <1>4, <1>7, <1>8, <2>1, DispatchGoesOn
    <3>2. ReportsUpTo(message_queue', s, dm'.current_waypoint[s], k)
      BY <1>5, <1>9, <2>1
    <3> QED BY <3>1, <3>2 DEF GoesOn
  <2> QED BY <1>5, <1>9, <2>1 DEF AllGoOn
<1>11. CASE (r \in Known(dm) => IsComplete(dm, r)) /\ IsSet(dm, r, p, e)
  <2> TAKE s \in Known(e)
  <2>1. s \in Robots
    BY <1>8 DEF Sound
  <2>2. CASE s = r
    <3>1. e.plan[s] = p /\ e.latest_enqueued[s] = 0 /\ e.current_waypoint[s] = 0
      BY <1>11, <2>1, <2>2 DEF IsSet
    <3>2. OnWay(p, 0, WaypointAt(p, 0).name, <<>>, 0, TRUE)
      <4>1. IsSequence(<<>>) /\ Len(<<>>) = 0 /\ DOMAIN <<>> = {}
        BY DEF IsSequence
      <4> QED BY <4>1 DEF OnWay
    <3>3. ReportsUpTo(message_queue, r, 0, 0)
      BY <1>6, <1>11 DEF ReportsUpTo
    <3> QED BY <1>6, <1>11, <2>2, <3>1, <3>2, <3>3
  <2>3. CASE s # r
    <3>1. /\ s \in Known(dm) /\ e.plan[s] = dm.plan[s] /\ e.latest_enqueued[s] = dm.latest_enqueued[s]
          /\ e.current_waypoint[s] = dm.current_waypoint[s]
      BY <1>11, <2>1, <2>3 DEF IsSet
    <3> QED BY <1>2, <3>1 DEF OnWay, PaceInv, AllGoOn, GoesOn
  <2> QED BY <2>2, <2>3
<1>12. CASE r \in Known(dm) /\ IsUpdated(dm, r, p, e)
  <2> TAKE s \in Known(e)
  <2>1. /\ s \in Known(dm) /\ e.latest_enqueued = dm.latest_enqueued
        /\ e.current_waypoint = dm.current_waypoint
        /\ \A k \in 0 .. dm.latest_enqueued[s] :
             WaypointAt(e.plan[s], k).name = WaypointAt(dm.plan[s], k).name
    BY <1>12 DEF IsUpdated, SameStop
  <2>2. PICK place : \E k \in Nat :
          /\ OnWay(dm.plan[s], dm.latest_enqueued[s], place, pending[s], k, alive)
          /\ ReportsUpTo(message_queue, s, dm.current_waypoint[s], k)
    BY <2>1 DEF PaceInv, AllGoOn, GoesOn
  <2>3. PICK k \in Nat :
          /\ OnWay(dm.plan[s], dm.latest_enqueued[s], place, pending[s], k, alive)
          /\ ReportsUpTo(message_queue, s, dm.current_waypoint[s], k)
    BY <2>2
  <2>4. OnWay(dm.plan[s], dm.latest_enqueued[s], place, pending[s], k, TRUE)
    BY <1>2, <2>3 DEF OnWay
  <2>5. dm.latest_enqueued[s] \in Nat
    BY <1>1, <2>1, SoundPlans
  <2>6. OnWay(e.plan[s], dm.latest_enqueued[s], place, pending[s], k, TRUE)
    BY <2>1, <2>4, <2>5, OnWaySame
  <2> QED BY <2>1, <2>3, <2>6
<1> QED BY <1>7, <1>11, <1>12 DEF r, p

LEMMA ArriveGoesOn ==
  ASSUME PaceInv, NEW s \in Robots, RobotArrives(s)
  PROVE  AllGoOn' /\ s \in Known(dm)
<1> DEFINE todo == pending[s]
           p == dm.plan[s]
           e == dm.latest_enqueued[s]
           c == dm.current_waypoint[s]
<1>1. PlansInv /\ KnownReports /\ Sound(dm) /\ InOrder(message_queue)
  BY DEF PaceInv, AllGoOn, FitInv, FreshInv, PlansInv
<1>2. /\ todo # <<>>
      /\ pending' = [pending EXCEPT ![s] = Tail(todo)]
      /\ message_queue' = Append(message_queue, ReachedMessage(s, Head(todo).index))
      /\ UNCHANGED <<dm, alive>>
  BY DEF RobotArrives, Arrive
<1>3. s \in Known(dm) /\ DOMAIN pending = Robots /\ Known(dm) \subseteq Robots
  BY <1>1, <1>2 DEF KnownReports, Sound
<1>4. PICK place : \E k \in Nat :
        OnWay(p, e, place, todo, k, alive) /\ ReportsUpTo(message_queue, s, c, k)
  BY <1>3 DEF PaceInv, AllGoOn, GoesOn
<1>5. PICK k \in Nat : OnWay(p, e, place, todo, k, alive) /\ ReportsUpTo(message_queue, s, c, k)
  BY <1>4
<1>6. /\ IsSequence(todo) /\ k + Len(todo) <= e /\ (alive => k + Len(todo) = e)
      /\ \A n \in DOMAIN todo : todo[n].index = k + n /\ todo[n].name = WaypointAt(p, k + n).name
  BY <1>5 DEF OnWay
<1> HIDE DEF todo, p, e, c
<1>7. /\ IsSequence(Tail(todo)) /\ Len(todo) \in Nat \ {0} /\ Len(Tail(todo)) = Len(todo) - 1
      /\ DOMAIN todo = 1 .. Len(todo) /\ DOMAIN Tail(todo) = 1 .. Len(todo) - 1
      /\ Head(todo) = todo[1]
      /\ \A n \in 1 .. Len(todo) - 1 : Tail(todo)[n] = todo[n + 1]
  BY <1>2, <1>6, TailIs
<1>8. Head(todo).index = k + 1
  <2>1. 1 \in DOMAIN todo
    BY <1>7
  <2> QED BY <1>6, <1>7, <2>1
<1>9. OnWay(p, e, WaypointAt(p, k + 1).name, Tail(todo), k + 1, alive)
  <2>1. ASSUME NEW n \in DOMAIN Tail(todo)
        PROVE  Tail(todo)[n].index = (k + 1) + n /\ Tail(todo)[n].name = WaypointAt(p, (k + 1) + n).name
    <3>1. n + 1 \in DOMAIN todo /\ k + (n + 1) = (k + 1) + n /\ Tail(todo)[n] = todo[n + 1]
      BY <1>7
    <3>2. todo[n + 1].index = k + (n + 1) /\ todo[n + 1].name = WaypointAt(p, k + (n + 1)).name
      BY <1>6, <3>1
    <3> QED BY <3>1, <3>2
  <2>2. (k + 1) + Len(Tail(todo)) = k + Len(todo)
    BY <1>7
  <2> QED BY <1>6, <1>7, <2>1, <2>2 DEF OnWay
<1>10. /\ InOrder(message_queue') /\ ReportsUpTo(message_queue', s, c, k + 1)
       /\ \A r, d, j : r # s /\ ReportsUpTo(message_queue, r, d, j) => ReportsUpTo(message_queue', r, d, j)
  <2>1. message_queue' = Append(message_queue, ReachedMessage(s, k + 1))
    BY <1>2, <1>8
  <2>2. ReportsUpTo(message_queue, s, c, k)
    BY <1>5 DEF c
  <2> QED BY <1>1, <2>1, <2>2, ReportPut
<1>11. GoesOn(s)'
  <2>1. pending'[s] = Tail(todo)
    BY <1>2, <1>3
  <2>2. OnWay(dm'.plan[s], dm'.latest_enqueued[s], WaypointAt(p, k + 1).name, pending'[s], k + 1, alive')
    BY <1>2, <1>9, <2>1 DEF p, e
  <2>3. ReportsUpTo(message_queue', s, dm'.current_waypoint[s], k + 1)
    BY <1>2, <1>10 DEF c
  <2>4. k + 1 \in Nat
    OBVIOUS
  <2> QED BY <2>2, <2>3, <2>4 DEF GoesOn
<1>12. ASSUME NEW r \in Known(dm), r # s PROVE GoesOn(r)'
  <2>1. pending'[r] = pending[r]
    BY <1>2, <1>3, <1>12
  <2>2. PICK there : \E j \in Nat :
          /\ OnWay(dm.plan[r], dm.latest_enqueued[r], there, pending[r], j, alive)
          /\ ReportsUpTo(message_queue, r, dm.current_waypoint[r], j)
    BY DEF PaceInv, AllGoOn, GoesOn
  <2>3. PICK j \in Nat :
          /\ OnWay(dm.plan[r], dm.latest_enqueued[r], there, pending[r], j, alive)
          /\ ReportsUpTo(message_queue, r, dm.current_waypoint[r], j)
    BY <2>2
  <2>4. ReportsUpTo(message_queue', r, dm'.current_waypoint[r], j)
    BY <1>2, <1>10, <1>12, <2>3
  <2> QED BY <1>2, <2>1, <2>3, <2>4 DEF GoesOn
<1> QED BY <1>2, <1>3, <1>10, <1>11, <1>12 DEF AllGoOn

\* The other steps leave plans, what has been enqueued of them, and reports.
LEMMA OthersGoOn ==
  ASSUME PaceInv, UNCHANGED pending, alive' => alive,
         dm'.robots = dm.robots, dm'.plan = dm.plan,
         dm'.latest_enqueued = dm.latest_enqueued, dm'.current_waypoint = dm.current_waypoint,
         InOrder(message_queue'),
         \A r, current, k : ReportsUpTo(message_queue, r, current, k) =>
                            ReportsUpTo(message_queue', r, current, k)
  PROVE  AllGoOn'
<1>1. Known(dm') = Known(dm)
  BY DEF Known
<1>2. ASSUME NEW r \in Known(dm) PROVE GoesOn(r)'
  <2>1. PICK place : \E k \in Nat :
          /\ OnWay(dm.plan[r], dm.latest_enqueued[r], place, pending[r], k, alive)
          /\ ReportsUpTo(message_queue, r, dm.current_waypoint[r], k)
    BY DEF PaceInv, AllGoOn, GoesOn
  <2>2. PICK k \in Nat :
          /\ OnWay(dm.plan[r], dm.latest_enqueued[r], place, pending[r], k, alive)
          /\ ReportsUpTo(message_queue, r, dm.current_waypoint[r], k)
    BY <2>1
  <2>3. OnWay(dm'.plan[r], dm'.latest_enqueued[r], place, pending'[r], k, alive')
    BY <2>2 DEF OnWay
  <2> QED BY <2>2, <2>3 DEF GoesOn
<1> QED BY <1>1, <1>2 DEF AllGoOn

LEMMA PaceKept ==
  ASSUME PaceInv, [Next]_vars
  PROVE  AllGoOn'
<1>1. PlansInv /\ DeliveredOnce /\ Sound(dm) /\ InOrder(message_queue)
  BY DEF PaceInv, AllGoOn, FitInv, FreshInv, PlansInv
<1>2. CASE ExecutorPlan \/ ExecutorReached \/ \E s \in Robots : RobotArrives(s)
  BY <1>2, PlanGoesOn, ReachedGoesOn, ArriveGoesOn
<1>3. CASE ExecutorRequest
  <2>1. /\ HandleCommittedLocationsRequest /\ UNCHANGED pending /\ (alive' => alive)
        /\ message_queue # <<>> /\ message_queue' = Tail(message_queue)
    BY <1>3 DEF ExecutorRequest, HandleCommittedLocationsRequest, NextMessage
  <2>2. /\ dm'.robots = dm.robots /\ dm'.plan = dm.plan
        /\ dm'.latest_enqueued = dm.latest_enqueued /\ dm'.current_waypoint = dm.current_waypoint
    BY <1>1, <2>1, CutIsSound DEF HandleCommittedLocationsRequest
  <2>3. /\ InOrder(message_queue')
        /\ \A r, current, k : ReportsUpTo(message_queue, r, current, k) =>
                              ReportsUpTo(message_queue', r, current, k)
    BY <1>1, <2>1, ReportsTaken
  <2> QED BY <2>1, <2>2, <2>3, OthersGoOn
<1>4. ASSUME UNCHANGED <<dm, pending>>, alive' => alive,
             \A n \in DOMAIN message_queue' : Stays(n) \/ message_queue'[n].type # Reached
      PROVE  AllGoOn'
  <2>1. /\ InOrder(message_queue')
        /\ \A r, current, k : ReportsUpTo(message_queue, r, current, k) =>
                              ReportsUpTo(message_queue', r, current, k)
    BY <1>1, <1>4, ReportsStay
  <2> QED BY <1>4, <2>1, OthersGoOn
<1>5. CASE UNCHANGED <<dm, pending, message_queue>> /\ (alive' => alive)
  BY <1>4, <1>5 DEF Stays
<1>6. CASE ServerBatch
  <2>1. UNCHANGED <<dm, pending, alive>>
    BY <1>6 DEF ServerBatch, OnCommittedLocationsRequest, executorVars
  <2>2. CASE message_queue' = Append(message_queue, RequestMessage(server'.request_id))
    <3>1. RequestMessage(server'.request_id).type # Reached
      BY DEF RequestMessage, Reached
    <3>2. \A n \in DOMAIN message_queue' : Stays(n) \/ message_queue'[n].type # Reached
      BY <1>1, <2>2, <3>1, AppendedTo
    <3> QED BY <1>4, <2>1, <3>2
  <2>3. UNCHANGED message_queue \/ message_queue' = Append(message_queue, RequestMessage(server'.request_id))
    BY <1>6 DEF ServerBatch, OnCommittedLocationsRequest, executorVars
  <2> QED BY <1>5, <2>1, <2>2, <2>3
<1>7. ASSUME NEW r \in Robots, ServerPublish(r) PROVE AllGoOn'
  <2>1. UNCHANGED <<dm, pending, alive>>
    BY <1>7 DEF ServerPublish
  <2>2. PlanMessage(r, Carried(server.plans[r])).type # Reached
    BY DEF PlanMessage, Reached
  <2>3. \A n \in DOMAIN message_queue' : Stays(n) \/ message_queue'[n].type # Reached
    BY <1>1, <1>7, <2>2, PublishedIs
  <2> QED BY <1>4, <2>1, <2>3
<1>8. CASE Client \/ ServerInternal \/ ServerTimeout \/ ServerProgress \/ ServerRecordsEnd
           \/ UNCHANGED vars
  <2>1. CASE Client
    BY <1>5, <2>1 DEF Client, SendTasks, OnboardAtServer, OnboardAtExecutor, Discovery, executorVars
  <2>2. CASE ServerInternal \/ ServerTimeout \/ ServerProgress \/ ServerRecordsEnd \/ UNCHANGED vars
    BY <1>5, <2>2 DEF ServerInternal, ServerTimeout, ServerProgress, ServerRecordsEnd, vars, executorVars
  <2> QED BY <1>8, <2>1, <2>2
<1>9. CASE ServerScanFails
  <2>1. UNCHANGED <<dm, pending, message_queue>>
    BY <1>9 DEF ServerScanFails
  <2>2. alive' => alive
    BY <1>9, Zenon DEF ServerScanFails
  <2> QED BY <1>5, <2>1, <2>2
<1> QED BY <1>2, <1>3, <1>6, <1>7, <1>8, <1>9
        DEF Next, ServerWorker, ServerCallback, ExecutorWorker

LEMMA PaceInvHolds ==
  ASSUME SolverReturnsPaths, PathsStartAtStarts, TasksOfOneRobot, ~Ros
  PROVE  Spec => []PaceInv
<1>1. Init => AllGoOn
  <2> SUFFICES ASSUME Init PROVE AllGoOn
    OBVIOUS
  <2>1. message_queue = <<>> /\ dm = EmptyManager
    BY DEF Init, ExecutorInit
  <2>2. Known(dm) = {} /\ DOMAIN <<>> = {}
    BY <2>1 DEF Known, EmptyManager
  <2> QED BY <2>1, <2>2 DEF AllGoOn, InOrder
<1>2. PaceInv /\ [Next]_vars => AllGoOn'
  BY PaceKept
<1> QED BY <1>1, <1>2, FitInvHolds, PTL DEF Spec, PaceInv

-----------------------------------------------------------------------------
(* Whose a plan id is.                                                       *)

\* A session is one of the robot that it was begun for.
Owns(r, id) == id.destination_session[2] = r

TasksOwned ==
  \A q \in AskedIn(scenario) : q.task_id \in DOMAIN task_plan => Owns(q.robot_id, task_plan[q.task_id])
HasIds == server.at \in {"identified", "publishing", "recording"}
BatchOwned ==
  /\ HasIds => \A r \in DOMAIN server.tasks : Owns(r, server.plan_ids[r])
  /\ server.at = "publishing" => server.left \subseteq DOMAIN server.tasks
ComingOwned == \A n \in Coming : Owns(message_queue[n].robot, message_queue[n].plan.plan_id)
KnownOwned == \A r \in Known(dm) : Owns(r, dm.plan[r].plan_id)
OwnIds == TasksOwned /\ BatchOwned /\ ComingOwned /\ KnownOwned

\* A batch keeps the ids it was given.
LEMMA BatchKeepsIds ==
  ASSUME SolverReturnsPaths, PlansInv, [Next]_vars, HasIds'
  PROVE  \/ AssignPlanIds
         \/ /\ HasIds /\ server'.tasks = server.tasks /\ server'.plan_ids = server.plan_ids
            /\ server'.at = "publishing" =>
                 server'.left \subseteq (IF server.at = "publishing" THEN server.left ELSE DOMAIN server.tasks)
            /\ server'.at = "recording" => server.at \in {"publishing", "recording"}
<1>1. CASE UNCHANGED server
  BY <1>1 DEF HasIds
<1>2. CASE server' \in {Idle, Dead}
  BY <1>2 DEF HasIds, Idle, Dead
<1>3. CASE ProcessBatch
  BY <1>3 DEF ProcessBatch, HasIds, Idle
<1>4. CASE TakeResponse
  BY <1>4 DEF TakeResponse, HasIds
<1>5. CASE Solve
  <2>1. \/ server' = Idle
        \/ server' = Dead
        \/ \E b, c, d, e :
             server' = [ at |-> "publishing", tasks |-> server.tasks, committed |-> b,
                         plan_ids |-> c, plans |-> d, left |-> e ]
    BY <1>5 DEF Solve, BatchFails
  <2>2. CASE server'.at = "publishing"
    <3>1. /\ server'.plan_ids = server.plan_ids /\ server'.left \subseteq DOMAIN server.tasks
          /\ server.at = "identified"
      BY <1>5, <2>2, SolutionIsNamed
    <3> QED BY <2>1, <2>2, <3>1 DEF HasIds, Idle, Dead
  <2> QED BY <1>2, <2>1, <2>2
<1>6. CASE SupersedeTasks
  BY <1>6 DEF SupersedeTasks, PlansInv, ServerFields, PublishingFields, HasIds
<1>7. CASE \E r \in Robots : ServerPublish(r)
  BY <1>7 DEF ServerPublish, PublishPlan, PlansInv, ServerFields, PublishingFields, HasIds
<1> QED BY <1>1, <1>2, <1>3, <1>4, <1>5, <1>6, <1>7, ServerSteps

\* The ids that a batch is given are ids of its robots.
LEMMA IdsAssigned ==
  ASSUME TasksOfOneRobot, TasksAsked, IdsInv, TasksOwned, AssignPlanIds
  PROVE  /\ \A r \in DOMAIN server'.tasks : Owns(r, server'.plan_ids[r])
         /\ \A q \in AskedIn(scenario) :
              q.task_id \in DOMAIN task_plan' => Owns(q.robot_id, task_plan'[q.task_id])
<1> DEFINE tasks == server.tasks
           c == request_counter
           T(r) == tasks[r].task_id
           ids == [r \in DOMAIN tasks |-> PlanIdFor(tasks[r], c)]
           Of(t) == CHOOSE r \in DOMAIN tasks : T(r) = t
<1>1. /\ server.at = "solving" /\ server'.tasks = tasks /\ server'.plan_ids = ids
      /\ task_plan' = [t \in DOMAIN task_plan \cup TaskIdsOf(tasks) |->
                         IF t \in TaskIdsOf(tasks) THEN ids[Of(t)] ELSE task_plan[t]]
  BY DEF AssignPlanIds
<1>2. \A r \in DOMAIN tasks : tasks[r] \in AskedIn(scenario) /\ tasks[r].robot_id = r
  BY <1>1 DEF TasksAsked, InBatch
<1>3. \A t \in TaskIdsOf(tasks) : Of(t) \in DOMAIN tasks /\ T(Of(t)) = t
  BY DEF TaskIdsOf
<1>4. ASSUME NEW r \in DOMAIN tasks PROVE Owns(r, ids[r])
  <2>1. CASE T(r) \in DOMAIN task_plan
    <3>1. ids[r] = [task_plan[T(r)] EXCEPT !.plan_version = @ + 1]
      BY <2>1 DEF PlanIdFor
    <3>2. DOMAIN task_plan[T(r)] = {"destination_session", "plan_version"}
      BY <2>1 DEF IdsInv, IdsCounted, Counted
    <3>3. Owns(r, task_plan[T(r)])
      BY <1>2, <2>1 DEF TasksOwned
    <3> QED BY <3>1, <3>2, <3>3 DEF Owns
  <2>2. CASE T(r) \notin DOMAIN task_plan
    <3>1. ids[r].destination_session = <<c, r>>
      BY <1>2, <2>2 DEF PlanIdFor
    <3> QED BY <3>1 DEF Owns
  <2> QED BY <2>1, <2>2
<1> HIDE DEF ids, Of
<1>5. ASSUME NEW q \in AskedIn(scenario), q.task_id \in DOMAIN task_plan'
      PROVE  Owns(q.robot_id, task_plan'[q.task_id])
  <2>1. CASE q.task_id \in TaskIdsOf(tasks)
    <3>1. Of(q.task_id) \in DOMAIN tasks /\ T(Of(q.task_id)) = q.task_id
      BY <1>3, <2>1
    <3>2. Of(q.task_id) = q.robot_id
      BY <1>2, <3>1 DEF TasksOfOneRobot, TasksAsked
    <3>3. task_plan'[q.task_id] = ids[Of(q.task_id)]
      BY <1>1, <1>5, <2>1
    <3> QED BY <1>4, <3>1, <3>2, <3>3
  <2>2. CASE q.task_id \notin TaskIdsOf(tasks)
    <3>1. q.task_id \in DOMAIN task_plan /\ task_plan'[q.task_id] = task_plan[q.task_id]
      BY <1>1, <1>5, <2>2
    <3> QED BY <3>1 DEF TasksOwned
  <2> QED BY <2>1, <2>2
<1> QED BY <1>1, <1>4, <1>5

\* Where the ids of the plans that the executor has come from.
LEMMA KnownFrom ==
  ASSUME PlansInv, [Next]_vars, NEW r \in Known(dm')
  PROVE  \/ r \in Known(dm) /\ dm'.plan[r].plan_id = dm.plan[r].plan_id
         \/ /\ ExecutorPlan /\ 1 \in Coming /\ r = message_queue[1].robot
            /\ dm'.plan[r].plan_id = message_queue[1].plan.plan_id
<1>1. CASE ExecutorPlan
  <2>1. HandlePlan /\ 1 \in Coming /\ First = message_queue[1]
    BY <1>1, FirstIs DEF ExecutorPlan, HandlePlan, First, Coming
  <2> QED BY <1>1, <2>1, PlanHandled
<1>2. CASE ExecutorReached
  BY <1>2, ReachedHandled DEF ExecutorReached
<1>3. CASE ExecutorRequest
  <2>1. dm'.robots = dm.robots /\ dm'.plan = dm.plan
    BY <1>3, CutIsSound DEF ExecutorRequest, HandleCommittedLocationsRequest, PlansInv
  <2> QED BY <2>1 DEF Known
<1>4. UNCHANGED dm \/ ExecutorPlan \/ ExecutorReached \/ ExecutorRequest
  BY OtherSteps DEF ServerBatch, ServerPublish, ServerProgress, ServerRecordsEnd, RobotArrives, Arrive,
                    OnCommittedLocationsRequest, executorVars
<1> QED BY <1>1, <1>2, <1>3, <1>4

LEMMA ScenarioStays ==
  ASSUME [Next]_vars
  PROVE  scenario' = scenario
<1>1. CASE Client
  BY <1>1 DEF Client, SendTasks, OnboardAtServer, OnboardAtExecutor, Discovery, NextOnScript
<1>2. CASE ServerWorker \/ ServerTimeout \/ ServerCallback
  BY <1>2 DEF ServerWorker, ServerBatch, ServerInternal, ServerPublish, ServerTimeout, systemVars,
              ServerCallback, ServerProgress, ServerRecordsEnd, ServerScanFails
<1>3. CASE ExecutorWorker \/ \E r \in Robots : RobotArrives(r)
  BY <1>3 DEF ExecutorWorker, ExecutorPlan, ExecutorReached, ExecutorRequest, RobotArrives, systemVars
<1>4. CASE UNCHANGED vars
  BY <1>4 DEF vars, systemVars
<1> QED BY <1>1, <1>2, <1>3, <1>4 DEF Next

LEMMA OwnIdsKept ==
  ASSUME SolverReturnsPaths, TasksOfOneRobot, ~Ros, FreshInv, OwnIds, [Next]_vars
  PROVE  OwnIds'
<1>1. PlansInv /\ TasksAsked /\ IdsInv /\ DeliveredOnce /\ PlansNamed
  BY DEF FreshInv
<1>2. TasksOwned'
  <2>1. CASE AssignPlanIds
    BY <1>1, <2>1, IdsAssigned, ScenarioStays DEF OwnIds, TasksOwned
  <2>2. CASE ~AssignPlanIds
    <3>1. TasksStay
      BY <2>2, TasksForgotten
    <3> QED BY <3>1, ScenarioStays DEF OwnIds, TasksOwned, TasksStay
  <2> QED BY <2>1, <2>2
<1>3. BatchOwned'
  <2>1. CASE AssignPlanIds
    <3>1. server'.at = "identified"
      BY <2>1 DEF AssignPlanIds
    <3> QED BY <1>1, <2>1, <3>1, IdsAssigned DEF OwnIds, BatchOwned
  <2>2. CASE HasIds' /\ ~AssignPlanIds
    BY <1>1, <2>2, BatchKeepsIds DEF OwnIds, BatchOwned
  <2>3. CASE ~HasIds'
    BY <2>3 DEF HasIds, BatchOwned
  <2> QED BY <2>1, <2>2, <2>3
<1>4. ComingOwned'
  <2> SUFFICES ASSUME NEW n \in Coming'
               PROVE  Owns(message_queue'[n].robot, message_queue'[n].plan.plan_id)
    BY DEF ComingOwned
  <2>1. ASSUME NEW k \in Coming, message_queue'[n] = message_queue[k]
        PROVE  Owns(message_queue'[n].robot, message_queue'[n].plan.plan_id)
    BY <2>1 DEF OwnIds, ComingOwned
  <2>2. ASSUME server.at = "publishing", NEW r \in Robots \cap server.left,
               message_queue'[n].robot = r, message_queue'[n].plan = server.plans[r]
        PROVE  Owns(message_queue'[n].robot, message_queue'[n].plan.plan_id)
    BY <1>1, <2>2 DEF PlansNamed, OwnIds, BatchOwned, HasIds
  <2> QED BY <1>1, <2>1, <2>2, ComingIs
<1>5. KnownOwned'
  BY <1>1, KnownFrom DEF OwnIds, KnownOwned, ComingOwned
<1> QED BY <1>2, <1>3, <1>4, <1>5 DEF OwnIds

-----------------------------------------------------------------------------
(* Robots that have something to do, and what the context says of them.      *)

\* A robot of the batch whose plan has still to be recorded.
Recorded(r) == server.at \in {"publishing", "recording"} /\ r \in DOMAIN server.tasks
NotDone(r) == r \in Known(dm) /\ ~IsComplete(dm, r)
ComingFor(r) == {n \in Coming : message_queue[n].robot = r}
Leaving(r) == server.at = "publishing" /\ r \in server.left
Busy(r) == NotDone(r) \/ ComingFor(r) # {} \/ Leaving(r)

\* The entry of a robot names the plan it executes, or is about to.
Executing(r) ==
  /\ r \in DOMAIN context
  /\ context[r].status = "EXECUTING" /\ Owns(r, context[r].plan_id)
  /\ context[r].plan_id \notin dm.completed_plan_ids
  /\ \A n \in ComingFor(r) : context[r].plan_id = message_queue[n].plan.plan_id

BusyExecutes == \A r \in Robots \ overlapped : Busy(r) /\ ~Recorded(r) => Executing(r)
ToRecord ==
  \A r \in Robots : Recorded(r) =>
    /\ \A n \in ComingFor(r) : message_queue[n].plan.plan_id = server.plan_ids[r]
    /\ Busy(r) => server.plan_ids[r] \notin dm.completed_plan_ids
PlannedForKnown ==
  /\ Known(dm) \subseteq DOMAIN context
  /\ \A n \in Coming : message_queue[n].robot \in DOMAIN context
  /\ InBatch => DOMAIN server.tasks \subseteq DOMAIN context
Completing == callback.at = "completing" => callback.entry.plan_id = callback.plan_id
Entries == \A r \in DOMAIN context : DOMAIN context[r] = EntryFields

\* What becomes of an entry in a step.
LEMMA EntrySteps ==
  ASSUME [Next]_vars, Entries
  PROVE  /\ DOMAIN context \subseteq DOMAIN context'
         /\ Entries'
         /\ \A r \in DOMAIN context :
              \/ context'[r].plan_id = context[r].plan_id /\ context'[r].status = context[r].status
              \/ /\ RecordBatch /\ r \in DOMAIN server.tasks
                 /\ context'[r].plan_id = server.plan_ids[r] /\ context'[r].status = "EXECUTING"
              \/ ServerRecordsEnd /\ Complete /\ callback.robot = r
<1>1. CASE UNCHANGED context
  BY <1>1 DEF Entries
<1>2. CASE OnboardAtServer /\ context' = Initialised(Item.robot, Item.location)
  <2> DEFINE i == Item.robot
             blank == [ status |-> "IDLE", task_id |-> None, plan_id |-> None,
                        start_location |-> None, goal_location |-> None ]
             entry == IF i \in DOMAIN context THEN context[i] ELSE blank
             placed == [entry EXCEPT !.start_location = Item.location, !.goal_location = Item.location]
  <2>1. context' = [s \in DOMAIN context \cup {i} |-> IF s = i THEN placed ELSE context[s]]
    BY <1>2 DEF Initialised
  <2>2. DOMAIN entry = EntryFields
    <3>1. DOMAIN blank = EntryFields
      BY DEF EntryFields
    <3> HIDE DEF blank
    <3> QED BY <3>1 DEF Entries
  <2>3. i \in DOMAIN context => entry = context[i]
    OBVIOUS
  <2> HIDE DEF entry
  <2>4. DOMAIN placed = EntryFields /\ placed.plan_id = entry.plan_id /\ placed.status = entry.status
    BY <2>2 DEF EntryFields
  <2> HIDE DEF placed
  <2> QED BY <2>1, <2>3, <2>4 DEF Entries
<1>3. CASE RecordBatch
  <2> DEFINE L(r) == IF r \in DOMAIN server.committed
                     THEN [context[r] EXCEPT !.start_location = server.committed[r].location]
                     ELSE context[r]
             N(r) == IF r \in DOMAIN server.tasks
                     THEN [L(r) EXCEPT !.task_id = server.tasks[r].task_id,
                                       !.plan_id = server.plan_ids[r],
                                       !.goal_location = server.tasks[r].goal,
                                       !.status = "EXECUTING"]
                     ELSE L(r)
  <2>1. context' = [r \in DOMAIN context |-> N(r)]
    BY <1>3 DEF RecordBatch
  <2>2. ASSUME NEW r \in DOMAIN context
        PROVE  DOMAIN L(r) = EntryFields /\ L(r).plan_id = context[r].plan_id
                                         /\ L(r).status = context[r].status
    BY DEF Entries, EntryFields
  <2> HIDE DEF L
  <2>3. ASSUME NEW r \in DOMAIN context
        PROVE  /\ DOMAIN N(r) = EntryFields
               /\ \/ N(r).plan_id = context[r].plan_id /\ N(r).status = context[r].status
                  \/ /\ r \in DOMAIN server.tasks
                     /\ N(r).plan_id = server.plan_ids[r] /\ N(r).status = "EXECUTING"
    BY <2>2 DEF EntryFields
  <2> HIDE DEF N
  <2> QED BY <1>3, <2>1, <2>3 DEF Entries
<1>4. CASE ServerRecordsEnd /\ Complete
  <2>1. PICK entry \in CompletedEntries(context[callback.robot]) :
          context' = [context EXCEPT ![callback.robot] = entry]
    BY <1>4 DEF Complete
  <2>2. DOMAIN entry = DOMAIN context[callback.robot]
    BY CompletedEntryIs
  <2> QED BY <1>4, <2>1, <2>2 DEF Entries
<1> QED BY <1>1, <1>2, <1>3, <1>4, ContextSteps

\* What was published or is recorded stays with its batch until it is recorded.
LEMMA RecordedStays ==
  ASSUME ~Ros, PlansInv, [Next]_vars, NEW r, Recorded(r)
  PROVE  RecordBatch \/ Recorded(r)'
<1>1. CASE Client
  <2>1. UNCHANGED server
    BY <1>1 DEF Client, SendTasks, OnboardAtServer, OnboardAtExecutor, Discovery,
                OnTaskRequests, AddRobot, serverVars
  <2> QED BY <2>1 DEF Recorded
<1>2. CASE ServerBatch \/ ServerTimeout \/ TakeResponse \/ AssignPlanIds \/ Solve
  BY <1>2 DEF ServerBatch, ProcessBatch, ServerTimeout, WaitTimesOut, TakeResponse, AssignPlanIds,
              Solve, Idle, Recorded
<1>3. CASE SupersedeTasks \/ \E s \in Robots : ServerPublish(s)
  BY <1>3 DEF SupersedeTasks, ServerPublish, PublishPlan, PlansInv, ServerFields, PublishingFields, Recorded
<1>4. CASE ServerCallback
  BY <1>4 DEF ServerCallback, ServerProgress, ServerRecordsEnd, ServerScanFails, OnProgress,
              ScanEnds, Complete, ScanFails, Recorded
<1>5. CASE ExecutorWorker \/ \E s \in Robots : RobotArrives(s)
  BY <1>5 DEF ExecutorWorker, ExecutorPlan, ExecutorReached, ExecutorRequest, RobotArrives,
              serverVars, Recorded
<1>6. CASE UNCHANGED vars
  BY <1>6 DEF vars, serverVars, Recorded
<1> QED BY <1>1, <1>2, <1>3, <1>4, <1>5, <1>6 DEF Next, ServerWorker, ServerInternal

\* What a step does to a robot that has a plan: the plan is as long and the
\* robot as far as before, or another plan arrives, or the robot does.
AsBefore(r) ==
  /\ r \in Known(dm') /\ dm'.plan[r].plan_id = dm.plan[r].plan_id
  /\ LastIndex(dm'.plan[r]) = LastIndex(dm.plan[r])
  /\ dm'.current_waypoint[r] = dm.current_waypoint[r]
  /\ ExecutorReached => r # First.robot
Replaced(r) == ExecutorPlan /\ HandlePlan /\ 1 \in ComingFor(r) /\ First = message_queue[1] /\ First.robot = r
Arrived(r) ==
  /\ ExecutorReached /\ HandleWaypointReached
  /\ 1 \in DOMAIN message_queue /\ First = message_queue[1] /\ First.type = Reached /\ First.robot = r
  /\ Head(message_queue) = First
  /\ Known(dm') = Known(dm) /\ dm'.plan = dm.plan /\ dm'.current_waypoint[r] = First.index

LEMMA RobotSteps ==
  ASSUME PlansInv, KnownReports, [Next]_vars, NEW r \in Known(dm)
  PROVE  AsBefore(r) \/ Replaced(r) \/ Arrived(r)
<1>1. Sound(dm) /\ Known(dm) \subseteq Robots /\ DOMAIN dm.current_waypoint = Robots
  BY DEF PlansInv, Sound
<1>2. CASE ExecutorPlan /\ ~ExecutorReached
  <2>1. HandlePlan /\ 1 \in Coming /\ First = message_queue[1]
    BY <1>2, FirstIs DEF ExecutorPlan, HandlePlan, First, Coming
  <2>2. CASE r = First.robot
    BY <1>2, <2>1, <2>2 DEF ComingFor, Replaced
  <2>3. CASE r # First.robot
    <3>1. PICK e : /\ DispatchUnblocked(e)
                   /\ \/ IsSet(dm, First.robot, First.plan, e)
                      \/ First.robot \in Known(dm) /\ IsUpdated(dm, First.robot, First.plan, e)
      BY <2>1, PlanDispatches
    <3>2. Sound(e)
      BY <3>1 DEF IsSet, IsUpdated
    <3>3. dm'.current_waypoint = e.current_waypoint
      BY <3>1, <3>2, DispatchIsSound
    <3>4. e.current_waypoint[r] = dm.current_waypoint[r]
      BY <1>1, <2>3, <3>1 DEF IsSet, IsUpdated
    <3>5. SameFor(dm, dm', r)
      BY <1>1, <2>1, <2>3, PlanJoins
    <3>6. LastIndex(dm'.plan[r]) = LastIndex(dm.plan[r])
      BY <1>1, <3>5, SameLength
    <3> QED BY <1>2, <3>3, <3>4, <3>5, <3>6 DEF AsBefore, SameFor
  <2> QED BY <2>2, <2>3
<1>3. CASE ExecutorReached
  <2>1. NextMessage(Reached) /\ HandleWaypointReached
    BY <1>3 DEF ExecutorReached, HandleWaypointReached, Reached
  <2>2. /\ 1 \in DOMAIN message_queue /\ First = message_queue[1] /\ First.type = Reached
        /\ Head(message_queue) = First
    BY <2>1, FirstIs
  <2>3. First.robot \in Known(dm)
    BY <2>2 DEF KnownReports
  <2>4. PICK e : /\ Sound(e) /\ DispatchUnblocked(e) /\ Known(e) = Known(dm) /\ e.plan = dm.plan
                 /\ e.current_waypoint = [dm.current_waypoint EXCEPT ![First.robot] = First.index]
    BY <2>1, <2>3, ReachedDispatches
  <2>5. Known(dm') = Known(dm) /\ dm'.plan = dm.plan /\ dm'.current_waypoint = e.current_waypoint
    BY <2>4, DispatchIsSound
  <2>6. dm'.current_waypoint[r] = IF r = First.robot THEN First.index ELSE dm.current_waypoint[r]
    BY <1>1, <2>4, <2>5
  <2> QED BY <1>3, <2>1, <2>2, <2>5, <2>6 DEF AsBefore, Arrived
<1>4. CASE ExecutorRequest /\ ~ExecutorReached
  <2>1. /\ dm'.robots = dm.robots /\ dm'.plan = dm.plan
        /\ dm'.current_waypoint = dm.current_waypoint
    BY <1>1, <1>4, CutIsSound DEF ExecutorRequest, HandleCommittedLocationsRequest
  <2> QED BY <1>4, <2>1 DEF AsBefore, Known
<1>5. CASE UNCHANGED dm /\ ~ExecutorReached
  BY <1>5 DEF AsBefore
<1>6. UNCHANGED dm \/ ExecutorPlan \/ ExecutorReached \/ ExecutorRequest
  BY OtherSteps DEF ServerBatch, ServerPublish, ServerProgress, ServerRecordsEnd, RobotArrives, Arrive,
                    OnCommittedLocationsRequest, executorVars
<1> QED BY <1>2, <1>3, <1>4, <1>5, <1>6

\* A robot stays at the end of its plan until it gets another.
LEMMA EndIsKept ==
  ASSUME PaceInv, [Next]_vars, NEW r \in Known(dm), IsComplete(dm, r)
  PROVE  AsBefore(r) \/ Replaced(r)
<1>1. PlansInv /\ KnownReports
  BY DEF PaceInv, FitInv, FreshInv
<1>2. ~Arrived(r)
  BY PendingIsAhead DEF Arrived
<1> QED BY <1>1, <1>2, RobotSteps

\* A robot gets something to do only from the solution of a batch.
LEMMA BusyFrom ==
  ASSUME ~Ros, PaceInv, [Next]_vars, NEW r \in Robots, Busy(r)'
  PROVE  Busy(r) \/ (Solve /\ Settled(message_queue) /\ Leaving(r)')
<1>1. PlansInv /\ DeliveredOnce
  BY DEF PaceInv, FitInv, FreshInv
<1>2. CASE NotDone(r)'
  <2>1. r \in Known(dm') /\ ~IsComplete(dm', r)
    BY <1>2 DEF NotDone
  <2>2. CASE r \in Known(dm)
    <3>1. CASE IsComplete(dm, r)
      BY <2>1, <2>2, <3>1, EndIsKept DEF AsBefore, IsComplete, Replaced, Busy
    <3>2. CASE ~IsComplete(dm, r)
      BY <2>2, <3>2 DEF Busy, NotDone
    <3> QED BY <3>1, <3>2
  <2>3. CASE r \notin Known(dm)
    <3>1. 1 \in ComingFor(r)
      BY <1>1, <2>1, <2>3, KnownFrom DEF ComingFor
    <3> QED BY <3>1 DEF Busy
  <2> QED BY <2>2, <2>3
<1>3. CASE ComingFor(r)' # {}
  <2>1. PICK n \in Coming' : message_queue'[n].robot = r
    BY <1>3 DEF ComingFor
  <2>2. ASSUME NEW k \in Coming, message_queue'[n] = message_queue[k]
        PROVE  Busy(r)
    <3>1. k \in ComingFor(r)
      BY <2>1, <2>2 DEF ComingFor
    <3> QED BY <3>1 DEF Busy
  <2>3. ASSUME server.at = "publishing", NEW s \in Robots \cap server.left, message_queue'[n].robot = s
        PROVE  Busy(r)
    BY <2>1, <2>3 DEF Busy, Leaving
  <2> QED BY <1>1, <2>2, <2>3, ComingIs
<1>4. CASE Leaving(r)'
  BY <1>1, <1>4, PublishingIs DEF Leaving, Busy
<1> QED BY <1>2, <1>3, <1>4 DEF Busy

\* A plan is completed by the robot that is on it, when it reaches its end.
LEMMA CompletedFrom ==
  ASSUME PaceInv, [Next]_vars, NEW id \in dm'.completed_plan_ids \ dm.completed_plan_ids
  PROVE  \E s \in Known(dm) :
           /\ ExecutorReached /\ dm.plan[s].plan_id = id
           /\ s \in Known(dm') /\ IsComplete(dm', s)
<1>1. PlansInv /\ KnownReports
  BY DEF PaceInv, FitInv, FreshInv
<1>2. ~HandlePlan
  BY <1>1, PlanHandled
<1>3. ~HandleCommittedLocationsRequest
  BY <1>1, CutIsSound DEF HandleCommittedLocationsRequest, PlansInv
<1>4. UNCHANGED dm \/ ExecutorPlan \/ ExecutorReached \/ ExecutorRequest
  BY OtherSteps DEF ServerBatch, ServerPublish, ServerProgress, ServerRecordsEnd, RobotArrives, Arrive,
                    OnCommittedLocationsRequest, executorVars
<1>5. ExecutorReached /\ HandleWaypointReached
  BY <1>2, <1>3, <1>4 DEF ExecutorPlan, ExecutorReached, ExecutorRequest
<1>6. /\ First.robot \in Known(dm) /\ First.index >= LastIndex(dm.plan[First.robot])
      /\ id = dm.plan[First.robot].plan_id
  BY <1>1, <1>5, ReachedHandled
<1>7. NextMessage(Reached) /\ 1 \in DOMAIN message_queue /\ First.type = Reached
  BY <1>1, <1>5, FirstIs DEF HandleWaypointReached, Reached
<1>8. ~IsComplete(dm, First.robot)
  BY <1>6, <1>7, PendingIsAhead DEF First
<1>9. AsBefore(First.robot) \/ Arrived(First.robot)
  BY <1>1, <1>6, <1>7, RobotSteps DEF Replaced, ComingFor, Coming, Reached, First
<1>10. First.robot \in Known(dm') /\ dm'.plan = dm.plan
  BY <1>1, <1>5, <1>6, ReachedHandled
<1>11. ~AsBefore(First.robot)
  BY <1>5 DEF AsBefore
<1> QED BY <1>5, <1>6, <1>9, <1>10, <1>11 DEF Arrived, IsComplete

\* The robots that have an end and a new plan recorded at once stay known.
LEMMA OverlapsStay ==
  ASSUME [Next]_vars
  PROVE  /\ overlapped \subseteq overlapped'
         /\ ServerRecordsEnd /\ callback.at = "completing" /\ Overlaps => callback.robot \in overlapped'
<1>1. UNCHANGED overlapped \/ ServerRecordsEnd
  <2>1. CASE Client
    BY <2>1 DEF Client, SendTasks, OnboardAtServer, OnboardAtExecutor, Discovery, NextOnScript
  <2>2. CASE ServerWorker \/ ServerTimeout \/ ServerProgress \/ ServerScanFails
    BY <2>2 DEF ServerWorker, ServerBatch, ServerInternal, ServerPublish, ServerTimeout, systemVars,
                ServerProgress, ServerScanFails
  <2>3. CASE ExecutorWorker \/ \E r \in Robots : RobotArrives(r)
    BY <2>3 DEF ExecutorWorker, ExecutorPlan, ExecutorReached, ExecutorRequest, RobotArrives, systemVars
  <2>4. CASE UNCHANGED vars
    BY <2>4 DEF vars, systemVars
  <2> QED BY <2>1, <2>2, <2>3, <2>4 DEF Next, ServerCallback
<1>2. ServerRecordsEnd =>
        /\ overlapped \subseteq overlapped'
        /\ callback.at = "completing" /\ Overlaps => callback.robot \in overlapped'
  BY DEF ServerRecordsEnd
<1> QED BY <1>1, <1>2

BusyInv ==
  /\ PaceInv
  /\ DoneInv
  /\ OwnIds
  /\ BusyExecutes
  /\ ToRecord
  /\ PlannedForKnown
  /\ Completing
  /\ Entries

LEMMA BusyParts ==
  ASSUME BusyInv
  PROVE  /\ PlansInv /\ TasksAsked /\ KnownReports /\ PlansNamed /\ IdsInv /\ DeliveredOnce /\ ComeOnce
         /\ OwnIds /\ Entries /\ RecordingDone /\ Completing /\ PaceInv
         /\ \A r : Leaving(r) => Recorded(r)
BY DEF BusyInv, PaceInv, DoneInv, FitInv, FreshInv, OwnIds, BatchOwned, Leaving, Recorded

\* An id that is completed now is one that nobody goes for any more.
LEMMA CompletedIsDone ==
  ASSUME ~Ros, BusyInv, OwnIds', [Next]_vars, NEW r \in Robots, Busy(r)', NEW id, Owns(r, id),
         id \in dm'.completed_plan_ids, id \notin dm.completed_plan_ids
  PROVE  (\E n \in ComingFor(r) : message_queue[n].plan.plan_id # id) \/ (Leaving(r) /\ server.plan_ids[r] # id)
<1>1. PICK s \in Known(dm) : /\ ExecutorReached /\ dm.plan[s].plan_id = id
                             /\ s \in Known(dm') /\ IsComplete(dm', s)
  BY CompletedFrom, BusyParts
<1>2. s = r
  BY <1>1, BusyParts DEF OwnIds, KnownOwned, Owns
<1>3. ~NotDone(r)'
  BY <1>1, <1>2 DEF NotDone
<1>4. id \in Executed /\ id \in Held
  BY <1>1 DEF Executed, Held
<1>5. ASSUME NEW n \in Coming PROVE message_queue[n].plan.plan_id # id
  BY <1>4, BusyParts DEF ComeOnce, ComingIds
<1>6. UNCHANGED server
  BY <1>1 DEF ExecutorReached, serverVars
<1>7. CASE Leaving(r)'
  <2>1. Leaving(r) /\ r \in Due
    BY <1>6, <1>7 DEF Leaving, Due
  <2> QED BY <1>4, <2>1, BusyParts DEF IdsInv, DueIsNew
<1>8. CASE ComingFor(r)' # {}
  <2>1. PICK n \in Coming' : message_queue'[n].robot = r
    BY <1>8 DEF ComingFor
  <2>2. ASSUME NEW k \in Coming, message_queue'[n] = message_queue[k]
        PROVE  \E m \in ComingFor(r) : message_queue[m].plan.plan_id # id
    BY <1>5, <2>1, <2>2 DEF ComingFor
  <2>3. ASSUME server.at = "publishing", NEW u \in Robots \cap server.left, message_queue'[n].robot = u
        PROVE  Leaving(r) /\ server.plan_ids[r] # id
    <3>1. Leaving(r) /\ r \in Due
      BY <2>1, <2>3 DEF Leaving, Due
    <3> QED BY <1>4, <3>1, BusyParts DEF IdsInv, DueIsNew
  <2> QED BY <2>1, <2>2, <2>3, BusyParts, ComingIs
<1> QED BY <1>3, <1>7, <1>8 DEF Busy

\* What comes for a robot came for it before, or was published for it.
LEMMA ComingForIs ==
  ASSUME ~Ros, BusyInv, [Next]_vars, NEW r, NEW n \in ComingFor(r)'
  PROVE  \/ \E k \in ComingFor(r) : message_queue'[n] = message_queue[k]
         \/ Leaving(r) /\ message_queue'[n].plan.plan_id = server.plan_ids[r]
<1>1. n \in Coming' /\ message_queue'[n].robot = r
  BY DEF ComingFor
<1>2. ASSUME NEW k \in Coming, message_queue'[n] = message_queue[k]
      PROVE  \E m \in ComingFor(r) : message_queue'[n] = message_queue[m]
  BY <1>1, <1>2 DEF ComingFor
<1>3. ASSUME server.at = "publishing", NEW s \in Robots \cap server.left,
             message_queue'[n].robot = s, message_queue'[n].plan = server.plans[s]
      PROVE  Leaving(r) /\ message_queue'[n].plan.plan_id = server.plan_ids[r]
  BY <1>1, <1>3, BusyParts DEF PlansNamed, Leaving
<1> QED BY <1>1, <1>2, <1>3, BusyParts, ComingIs

LEMMA ToRecordKept ==
  ASSUME SolverReturnsPaths, ~Ros, BusyInv, OwnIds', [Next]_vars
  PROVE  ToRecord'
<1> SUFFICES ASSUME NEW r \in Robots, Recorded(r)'
             PROVE  /\ \A n \in ComingFor(r)' : message_queue'[n].plan.plan_id = server'.plan_ids[r]
                    /\ Busy(r)' => server'.plan_ids[r] \notin dm'.completed_plan_ids
  BY DEF ToRecord
<1>1. HasIds' /\ ~AssignPlanIds
  BY DEF Recorded, HasIds, AssignPlanIds
<1>2. /\ HasIds /\ server'.tasks = server.tasks /\ server'.plan_ids = server.plan_ids
  BY <1>1, BusyParts, BatchKeepsIds
<1>3. CASE server.at = "identified"
  <2>1. server'.at = "publishing" /\ Solve /\ Settled(message_queue)
    <3>1. server'.at = "publishing"
      BY <1>1, <1>3, BusyParts, BatchKeepsIds DEF Recorded
    <3> QED BY <1>3, <3>1, BusyParts, PublishingIs
  <2>2. UNCHANGED <<dm, message_queue>>
    BY <1>3, <2>1, OtherSteps DEF ServerBatch, ProcessBatch, Idle, ServerPublish, PublishPlan, ServerProgress,
       ServerRecordsEnd, ScanEnds, Complete, ExecutorPlan, ExecutorReached, ExecutorRequest, RobotArrives,
       serverVars, OnProgress
  <2>3. Coming' = {}
    BY <2>1, <2>2 DEF Coming, Settled, Reached
  <2>4. r \in Due
    BY <1>2, <1>3 DEF Due, Recorded
  <2>5. server.plan_ids[r] \notin dm.completed_plan_ids
    BY <2>4, BusyParts DEF IdsInv, DueIsNew, Held, Executed
  <2> QED BY <1>2, <2>2, <2>3, <2>5 DEF ComingFor
<1>4. CASE server.at # "identified"
  <2>1. Recorded(r)
    BY <1>2, <1>4 DEF Recorded, HasIds
  <2>2. /\ \A n \in ComingFor(r) : message_queue[n].plan.plan_id = server.plan_ids[r]
        /\ Busy(r) => server.plan_ids[r] \notin dm.completed_plan_ids
    BY <2>1 DEF BusyInv, ToRecord
  <2>3. \A n \in ComingFor(r)' : message_queue'[n].plan.plan_id = server.plan_ids[r]
    BY <2>2, ComingForIs
  <2>4. ASSUME Busy(r)' PROVE server.plan_ids[r] \notin dm'.completed_plan_ids
    <3>1. Busy(r)
      BY <1>4, <2>4, BusyParts, BusyFrom DEF Solve
    <3>2. Owns(r, server.plan_ids[r])
      BY <1>2, <2>1, BusyParts DEF OwnIds, BatchOwned, Recorded
    <3> QED BY <2>2, <2>4, <3>1, <3>2, CompletedIsDone
  <2> QED BY <1>2, <2>3, <2>4
<1> QED BY <1>3, <1>4

LEMMA BusyExecutesKept ==
  ASSUME SolverReturnsPaths, ~Ros, BusyInv, OwnIds', [Next]_vars
  PROVE  BusyExecutes'
<1> SUFFICES ASSUME NEW r \in Robots, r \notin overlapped', Busy(r)', ~Recorded(r)'
             PROVE  Executing(r)'
  BY DEF BusyExecutes
<1>1. Busy(r)
  <2>1. ~Leaving(r)'
    BY DEF OwnIds, BatchOwned, Leaving, Recorded
  <2> QED BY <2>1, BusyParts, BusyFrom
<1>2. CASE Recorded(r)
  <2>1. RecordBatch
    BY <1>2, BusyParts, RecordedStays
  <2>2. /\ server.at = "recording" /\ r \in DOMAIN server.tasks
        /\ UNCHANGED callback /\ server' = Idle
    BY <1>2, <2>1 DEF RecordBatch, Recorded
  <2>3. UNCHANGED <<dm, message_queue>>
    BY <2>2, OtherSteps DEF Dead, ServerBatch, ProcessBatch, Idle, ServerPublish, PublishPlan, ServerProgress,
       ServerRecordsEnd, ScanEnds, Complete, ExecutorPlan, ExecutorReached, ExecutorRequest, RobotArrives,
       serverVars, OnProgress
  <2>4. r \in DOMAIN context
    BY <2>2 DEF BusyInv, PlannedForKnown, InBatch
  <2>5. /\ r \in DOMAIN context'
        /\ context'[r].plan_id = server.plan_ids[r] /\ context'[r].status = "EXECUTING"
    <3> DEFINE L == IF r \in DOMAIN server.committed
                    THEN [context[r] EXCEPT !.start_location = server.committed[r].location]
                    ELSE context[r]
    <3>1. context'[r] = [L EXCEPT !.task_id = server.tasks[r].task_id,
                                  !.plan_id = server.plan_ids[r],
                                  !.goal_location = server.tasks[r].goal,
                                  !.status = "EXECUTING"]
      BY <2>1, <2>2, <2>4 DEF RecordBatch
    <3>2. DOMAIN L = EntryFields
      BY <2>4, BusyParts DEF Entries, EntryFields
    <3> HIDE DEF L
    <3>3. r \in DOMAIN context'
      BY <2>4, BusyParts, EntrySteps
    <3> QED BY <3>1, <3>2, <3>3 DEF EntryFields
  <2>6. /\ Owns(r, server.plan_ids[r])
        /\ \A n \in ComingFor(r) : message_queue[n].plan.plan_id = server.plan_ids[r]
        /\ server.plan_ids[r] \notin dm.completed_plan_ids
    BY <1>1, <1>2, <2>2, BusyParts DEF OwnIds, BatchOwned, HasIds, BusyInv, ToRecord
  <2> QED BY <2>3, <2>5, <2>6 DEF Executing, ComingFor, Coming
<1>3. CASE ~Recorded(r)
  <2>1. r \notin overlapped
    BY OverlapsStay
  <2>2. Executing(r)
    BY <1>1, <1>3, <2>1 DEF BusyInv, BusyExecutes
  <2>3. context'[r].plan_id = context[r].plan_id /\ context'[r].status = context[r].status
    <3>1. ~(RecordBatch /\ r \in DOMAIN server.tasks)
      BY <1>3 DEF RecordBatch, Recorded
    <3>2. ~(ServerRecordsEnd /\ Complete /\ callback.robot = r)
      <4> SUFFICES ASSUME ServerRecordsEnd, Complete, callback.robot = r PROVE FALSE
        OBVIOUS
      <4>1. callback.at = "completing"
        BY DEF Complete
      <4>2. ~Overlaps
        BY <4>1, OverlapsStay
      <4>3. context[r].plan_id = callback.plan_id
        BY <4>1, <4>2, BusyParts DEF Overlaps, Completing
      <4>4. callback.plan_id \in dm.completed_plan_ids
        BY <4>1, BusyParts DEF RecordingDone, Recording
      <4> QED BY <2>2, <4>3, <4>4 DEF Executing
    <3> QED BY <2>2, <3>1, <3>2, BusyParts, EntrySteps DEF Executing
  <2>4. r \in DOMAIN context'
    BY <2>2, BusyParts, EntrySteps DEF Executing
  <2>5. ~Leaving(r)
    BY <1>3, BusyParts
  <2>6. \A n \in ComingFor(r)' : message_queue'[n].plan.plan_id = context[r].plan_id
    BY <2>2, <2>5, ComingForIs DEF Executing
  <2>7. context[r].plan_id \notin dm'.completed_plan_ids
    BY <2>2, <2>5, CompletedIsDone DEF Executing
  <2> QED BY <2>2, <2>3, <2>4, <2>6, <2>7 DEF Executing
<1> QED BY <1>2, <1>3

\* The robots of a new batch are in the context.
LEMMA BatchIsPlaced ==
  ASSUME ProcessBatch, server'.at = "waiting"
  PROVE  DOMAIN server'.tasks \subseteq DOMAIN context
<1> DEFINE items == task_request_queue
           valid == {n \in LastRequests(items) : items[n].robot_id \in DOMAIN context}
           At(r) == CHOOSE n \in valid : items[n].robot_id = r
           tasks == [r \in {items[n].robot_id : n \in valid} |-> items[At(r)]]
<1>1. server = Idle /\ server.at = "idle"
  BY DEF ProcessBatch, Idle
<1>2. server' = [at |-> "waiting", tasks |-> tasks, request_id |-> request_counter']
  BY <1>1 DEF ProcessBatch
<1> QED BY <1>2

LEMMA PlannedForKnownKept ==
  ASSUME ~Ros, BusyInv, [Next]_vars
  PROVE  PlannedForKnown'
<1>1. /\ DOMAIN context \subseteq DOMAIN context' /\ Known(dm) \subseteq DOMAIN context
      /\ \A n \in Coming : message_queue[n].robot \in DOMAIN context
      /\ InBatch => DOMAIN server.tasks \subseteq DOMAIN context
  BY BusyParts, EntrySteps DEF BusyInv, PlannedForKnown
<1>2. Known(dm') \subseteq DOMAIN context'
  BY <1>1, BusyParts, KnownFrom
<1>3. ASSUME NEW n \in Coming' PROVE message_queue'[n].robot \in DOMAIN context'
  <2>1. ASSUME server.at = "publishing", NEW r \in Robots \cap server.left, message_queue'[n].robot = r
        PROVE  message_queue'[n].robot \in DOMAIN context
    BY <1>1, <2>1, BusyParts DEF Leaving, Recorded, InBatch
  <2> QED BY <1>1, <2>1, BusyParts, ComingIs
<1>4. ASSUME InBatch' PROVE DOMAIN server'.tasks \subseteq DOMAIN context'
  <2>1. CASE ProcessBatch
    <3>1. server'.at = "waiting"
      BY <1>4, <2>1 DEF ProcessBatch, InBatch, Idle
    <3> QED BY <1>1, <2>1, <3>1, BatchIsPlaced
  <2>2. CASE ~ProcessBatch
    BY <1>1, <1>4, <2>2, BusyParts, BatchKeepsTasks DEF PlansInv
  <2> QED BY <2>1, <2>2
<1> QED BY <1>2, <1>3, <1>4 DEF PlannedForKnown

LEMMA CompletingKept ==
  ASSUME Completing, [Next]_vars
  PROVE  Completing'
<1>1. CASE ServerProgress \/ callback' = Dead \/ Complete
  BY <1>1 DEF ServerProgress, OnProgress, Complete, Idle, Dead, Completing
<1>2. CASE ScanEnds
  BY <1>2 DEF ScanEnds, EntryNames, Idle, Completing
<1>3. UNCHANGED callback \/ ServerProgress \/ callback' = Dead \/ Complete \/ ScanEnds
  BY OtherSteps DEF ServerBatch, ProcessBatch, ServerPublish, PublishPlan, ServerRecordsEnd, ExecutorPlan,
                    ExecutorReached, ExecutorRequest, RobotArrives, serverVars
<1> QED BY <1>1, <1>2, <1>3 DEF Completing

LEMMA BusyInvHolds ==
  ASSUME SolverReturnsPaths, PathsStartAtStarts, TasksOfOneRobot, ~Ros
  PROVE  Spec => []BusyInv
<1>1. Init => OwnIds /\ BusyExecutes /\ ToRecord /\ PlannedForKnown /\ Completing /\ Entries
  <2> SUFFICES ASSUME Init
               PROVE  OwnIds /\ BusyExecutes /\ ToRecord /\ PlannedForKnown /\ Completing /\ Entries
    OBVIOUS
  <2>1. /\ message_queue = <<>> /\ server = Idle /\ dm = EmptyManager /\ context = <<>>
        /\ task_plan = <<>> /\ callback = Idle
    BY DEF Init, ServerInit, ExecutorInit
  <2>2. DOMAIN <<>> = {} /\ Idle.at = "idle"
    BY DEF Idle
  <2>3. Known(dm) = {} /\ Coming = {}
    BY <2>1, <2>2 DEF Known, EmptyManager, Coming
  <2>4. OwnIds
    BY <2>1, <2>2, <2>3 DEF OwnIds, TasksOwned, BatchOwned, HasIds, ComingOwned, KnownOwned
  <2>5. \A r : ~Busy(r) /\ ~Recorded(r)
    BY <2>1, <2>2, <2>3 DEF Busy, NotDone, ComingFor, Leaving, Recorded
  <2> QED BY <2>1, <2>2, <2>3, <2>4, <2>5
          DEF BusyExecutes, ToRecord, PlannedForKnown, InBatch, Completing, Entries
<1>2. BusyInv /\ [Next]_vars /\ PaceInv' /\ DoneInv' => BusyInv'
  <2> SUFFICES ASSUME BusyInv, [Next]_vars, PaceInv', DoneInv' PROVE BusyInv'
    OBVIOUS
  <2>1. OwnIds'
    BY OwnIdsKept DEF BusyInv, PaceInv, FitInv
  <2>2. BusyExecutes' /\ ToRecord'
    BY <2>1, BusyExecutesKept, ToRecordKept
  <2>3. PlannedForKnown' /\ Completing' /\ Entries'
    BY PlannedForKnownKept, CompletingKept, EntrySteps DEF BusyInv
  <2> QED BY <2>1, <2>2, <2>3 DEF BusyInv
<1>3. PaceInv /\ DoneInv /\ OwnIds /\ BusyExecutes /\ ToRecord /\ PlannedForKnown /\ Completing /\ Entries
      => BusyInv
  BY DEF BusyInv
<1> QED BY <1>1, <1>2, <1>3, PaceInvHolds, DoneInvHolds, PTL DEF Spec

\* A robot whose entry says that it has no active task has none, once nothing
\* is on its way: recording a plan and recording the end of one, each without
\* a lock for the other (on_solve_success and on_completed,
\* multi_agent_context.py), lose no plan unless they come at the same time.
THEOREM IdleRobotsAreDone ==
  ASSUME SolverReturnsPaths, PathsStartAtStarts, TasksOfOneRobot, ~Ros
  PROVE  Spec => []IdleIsDone
<1>1. BusyInv => IdleIsDone
  <2> SUFFICES ASSUME BusyInv, AtRest, NEW r \in DOMAIN context \ overlapped, context[r].status = "IDLE",
                      ~Finished(r)
               PROVE  FALSE
    BY DEF IdleIsDone
  <2>1. NotDone(r) /\ r \in Robots
    BY BusyParts DEF Finished, NotDone, PlansInv, Sound
  <2>2. ~Recorded(r)
    BY DEF AtRest, Recorded, Idle
  <2>3. Executing(r)
    BY <2>1, <2>2 DEF BusyInv, BusyExecutes, Busy
  <2> QED BY <2>3 DEF Executing
<1> QED BY <1>1, BusyInvHolds, PTL

\* A robot is announced only while no robot moves, unless the server is at a
\* batch or an end and a plan were recorded at the same time: the entries that
\* has_executing_agents looks at tell of every robot with something to do
\* (add_robot, plan_server.py).
THEOREM RobotsAddedAtRest ==
  ASSUME SolverReturnsPaths, PathsStartAtStarts, TasksOfOneRobot, ~Ros
  PROVE  Spec => AddedAtRest
<1> DEFINE Rest == Client /\ context' # context =>
                     \/ server # Idle
                     \/ overlapped # {}
                     \/ \A r \in Known(dm) : pending[r] = <<>>
<1>1. BusyInv /\ [Next]_vars => [Rest]_vars
  <2> SUFFICES ASSUME BusyInv, Client, context' # context, server = Idle, overlapped = {},
                      NEW r \in Known(dm), pending[r] # <<>>
               PROVE  FALSE
    OBVIOUS
  <2>1. ~HasExecutingAgents
    BY DEF Client, SendTasks, OnboardAtServer, OnboardAtExecutor, Discovery, OnTaskRequests, AddRobot,
           serverVars
  <2>2. NotDone(r) /\ r \in Robots
    BY BusyParts, PendingIsAhead DEF NotDone, PlansInv, Sound
  <2>3. ~Recorded(r)
    BY DEF Recorded, Idle
  <2>4. Executing(r)
    BY <2>2, <2>3 DEF BusyInv, BusyExecutes, Busy
  <2> QED BY <2>1, <2>4 DEF Executing, HasExecutingAgents
<1> QED BY <1>1, BusyInvHolds, PTL DEF Spec, AddedAtRest

-----------------------------------------------------------------------------
(* The ends of plans, and the tasks that wait for them.                      *)

\* Nobody is given a plan that has been executed when it comes.
LongPlans ==
  /\ \A n \in Coming : LastIndex(message_queue[n].plan) >= 1
  /\ server.at = "publishing" => \A r \in Robots \cap server.left : LastIndex(server.plans[r]) >= 1

\* The end of a plan is expected, or no task waits for it.
Expects(finals, plans, id) == id \in DOMAIN finals \/ TasksOf(plans, id) = {}
Expected(id) == Expects(final_waypoints, task_plan, id)
PlansExpected ==
  /\ \A n \in Coming : Expected(message_queue[n].plan.plan_id)
  /\ \A r \in Known(dm) : Expected(dm.plan[r].plan_id)
  /\ server.at = "publishing" => \A r \in Robots \cap server.left : server.plan_ids[r] \in DOMAIN final_waypoints
Scanning ==
  callback.at = "scanning" =>
    TasksOf(task_plan, callback.plan_id) \subseteq TasksOf(callback.scanned, callback.plan_id)

LEMMA LongPlansKept ==
  ASSUME SolverReturnsPaths, PathsStartAtStarts, ~Ros, FreshInv, LongPlans, [Next]_vars
  PROVE  LongPlans'
<1>1. PlansInv /\ DeliveredOnce
  BY DEF FreshInv
<1>2. \A n \in Coming' : LastIndex(message_queue'[n].plan) >= 1
  BY <1>1, ComingIs DEF LongPlans
<1>3. ASSUME server'.at = "publishing", NEW r \in Robots \cap server'.left
      PROVE  LastIndex(server'.plans[r]) >= 1
  <2>1. CASE Solve
    <3>1. FromStart(r, server'.plans[r])
      BY <1>1, <1>3, <2>1, SolutionStarts
    <3>2. PICK path : /\ IsSequence(path) /\ Len(path) > 1
                      /\ PlanOf(server'.plans[r], server.plan_ids[r], path, OffsetOf(server.committed, r))
      BY <3>1 DEF FromStart
    <3>3. Len(path) \in Nat /\ Len(server'.plans[r].waypoints) = Len(path)
      BY <3>2, LenProperties DEF PlanOf, IsSequence
    <3> QED BY <3>2, <3>3 DEF LastIndex
  <2>2. CASE ~Solve
    BY <1>1, <1>3, <2>2, PublishingIs DEF LongPlans
  <2> QED BY <2>1, <2>2
<1> QED BY <1>2, <1>3 DEF LongPlans

\* New ids are not those of plans that somebody has.
LEMMA HeldTasksShrink ==
  ASSUME FreshInv, IdsInv', [Next]_vars, NEW id \in Held
  PROVE  TasksOf(task_plan', id) \subseteq TasksOf(task_plan, id)
<1>1. CASE AssignPlanIds
  <2> DEFINE tasks == server.tasks
             ids == [r \in DOMAIN tasks |-> PlanIdFor(tasks[r], request_counter)]
             Of(t) == CHOOSE r \in DOMAIN tasks : tasks[r].task_id = t
  <2>1. /\ server.at = "solving" /\ server'.at = "identified" /\ server'.tasks = tasks
        /\ server'.plan_ids = ids /\ UNCHANGED callback
        /\ task_plan' = [t \in DOMAIN task_plan \cup TaskIdsOf(tasks) |->
                           IF t \in TaskIdsOf(tasks) THEN ids[Of(t)] ELSE task_plan[t]]
    BY <1>1 DEF AssignPlanIds
  <2>2. UNCHANGED <<dm, message_queue, reports>>
    BY <2>1, OtherSteps DEF Dead, ServerBatch, ProcessBatch, Idle, ServerPublish, PublishPlan,
       ServerProgress, ServerRecordsEnd, ScanEnds, Complete, ExecutorPlan, ExecutorReached,
       ExecutorRequest, RobotArrives, serverVars, OnProgress
  <2>3. Held' = Held /\ Due' = DOMAIN tasks
    BY <2>1, <2>2 DEF Held, Executed, ComingIds, Coming, ReportedIds, RecordedIds, Recording, Known, Due
  <2>4. \A t \in TaskIdsOf(tasks) : Of(t) \in DOMAIN tasks
    BY DEF TaskIdsOf
  <2>5. \A r \in DOMAIN tasks : ids[r] # id
    BY <2>1, <2>3 DEF IdsInv, DueIsNew
  <2> HIDE DEF ids, Of
  <2> QED BY <2>1, <2>4, <2>5 DEF TasksOf
<1>2. CASE ~AssignPlanIds
  BY <1>2, TasksForgotten DEF TasksStay, TasksOf
<1> QED BY <1>1, <1>2

\* An end that was expected is until it has come.
LEMMA ExpectedStays ==
  ASSUME SolverReturnsPaths, PathsStartAtStarts, PlansInv, [Next]_vars, NEW id \in DOMAIN final_waypoints
  PROVE  \/ id \in DOMAIN final_waypoints'
         \/ callback.at = "scanning" /\ ScanEnds /\ callback.plan_id = id
<1>1. CASE Client
  BY <1>1 DEF Client, SendTasks, OnboardAtServer, OnboardAtExecutor, Discovery,
              OnTaskRequests, AddRobot, serverVars
<1>2. CASE Solve
  <2>1. CASE server'.at = "publishing"
    BY <1>2, <2>1, SolutionStarts
  <2>2. CASE server'.at # "publishing"
    <3>1. \/ UNCHANGED final_waypoints
          \/ \E a, b, c, d, e :
               server' = [ at |-> "publishing", tasks |-> a, committed |-> b, plan_ids |-> c,
                           plans |-> d, left |-> e ]
      BY <1>2 DEF Solve
    <3> QED BY <2>2, <3>1
  <2> QED BY <2>1, <2>2
<1>3. CASE ServerBatch \/ ServerTimeout \/ \E r \in Robots : ServerPublish(r)
  BY <1>3 DEF ServerBatch, ServerTimeout, WaitTimesOut, ProcessBatch, ServerPublish, PublishPlan
<1>4. CASE TakeResponse \/ AssignPlanIds \/ SupersedeTasks \/ RecordBatch
  BY <1>4 DEF TakeResponse, AssignPlanIds, SupersedeTasks, RecordBatch
<1>5. CASE ServerProgress \/ ServerScanFails \/ Complete
  BY <1>5 DEF ServerProgress, ServerScanFails, OnProgress, Complete, ScanFails
<1>6. CASE ScanEnds
  BY <1>6 DEF ScanEnds, Without
<1>7. CASE ExecutorWorker
  BY <1>7 DEF ExecutorWorker, ExecutorPlan, ExecutorReached, ExecutorRequest, serverVars
<1>8. CASE \E r \in Robots : RobotArrives(r)
  BY <1>8 DEF RobotArrives, serverVars
<1>9. CASE UNCHANGED vars
  BY <1>9 DEF vars, serverVars
<1> QED BY <1>1, <1>2, <1>3, <1>4, <1>5, <1>6, <1>7, <1>8, <1>9
        DEF Next, ServerWorker, ServerInternal, ServerCallback, ServerRecordsEnd

LEMMA ScanningKept ==
  ASSUME FreshInv, IdsInv', Scanning, [Next]_vars
  PROVE  Scanning'
<1>1. CASE UNCHANGED callback
  <2> SUFFICES ASSUME callback.at = "scanning"
               PROVE  TasksOf(task_plan', callback.plan_id) \subseteq TasksOf(callback.scanned, callback.plan_id)
    BY <1>1 DEF Scanning
  <2>1. callback.plan_id \in Held
    BY DEF Held, RecordedIds, Recording
  <2> QED BY <2>1, HeldTasksShrink DEF Scanning
<1>2. CASE ServerProgress
  BY <1>2 DEF ServerProgress, OnProgress, Idle, Scanning
<1>3. CASE callback' = Dead \/ ScanEnds \/ Complete
  BY <1>3 DEF ScanEnds, Complete, Idle, Dead, Scanning
<1>4. UNCHANGED callback \/ ServerProgress \/ callback' = Dead \/ Complete \/ ScanEnds
  BY OtherSteps DEF ServerBatch, ProcessBatch, ServerPublish, PublishPlan, ServerRecordsEnd, ExecutorPlan,
                    ExecutorReached, ExecutorRequest, RobotArrives, serverVars
<1> QED BY <1>1, <1>2, <1>3, <1>4

LEMMA PlansExpectedKept ==
  ASSUME SolverReturnsPaths, PathsStartAtStarts, ~Ros, FreshInv, IdsInv', PlansExpected, Scanning, [Next]_vars
  PROVE  PlansExpected'
<1>1. PlansInv /\ DeliveredOnce /\ PlansNamed /\ IdsInv
  BY DEF FreshInv
<1>2. ASSUME NEW id \in Held, Expected(id)
      PROVE  Expects(final_waypoints', task_plan', id)
  <2>1. TasksOf(task_plan', id) \subseteq TasksOf(task_plan, id)
    BY HeldTasksShrink
  <2>2. CASE TasksOf(task_plan, id) = {}
    BY <2>1, <2>2 DEF Expects
  <2>3. CASE id \in DOMAIN final_waypoints'
    BY <2>3 DEF Expects
  <2>4. ASSUME callback.at = "scanning", ScanEnds, callback.plan_id = id
        PROVE  TasksOf(task_plan', id) = {}
    <3>1. TasksOf(task_plan, id) \subseteq TasksOf(callback.scanned, id)
      BY <2>4 DEF Scanning
    <3>2. PICK done \in {TasksOf(callback.scanned, id), TasksOf(task_plan, id)} :
            task_plan' = [t \in DOMAIN task_plan \ done |-> task_plan[t]]
      BY <2>4 DEF ScanEnds
    <3>3. TasksOf(task_plan, id) \subseteq done
      BY <3>1, <3>2
    <3> QED BY <3>2, <3>3 DEF TasksOf
  <2> QED BY <1>1, <1>2, <2>2, <2>3, <2>4, ExpectedStays DEF Expected, Expects
<1>3. ASSUME server.at = "publishing", NEW r \in Robots \cap server.left
      PROVE  server.plan_ids[r] \in DOMAIN final_waypoints'
  <2>1. server.plan_ids[r] \notin Held
    BY <1>1, <1>3 DEF IdsInv, DueIsNew, Due
  <2>2. callback.at = "scanning" => callback.plan_id \in Held
    BY DEF Held, RecordedIds, Recording
  <2> QED BY <1>1, <1>3, <2>1, <2>2, ExpectedStays DEF PlansExpected
<1>4. ASSUME NEW n \in Coming' 
      PROVE  Expects(final_waypoints', task_plan', message_queue'[n].plan.plan_id)
  <2>1. ASSUME NEW k \in Coming, message_queue'[n] = message_queue[k]
        PROVE  Expects(final_waypoints', task_plan', message_queue'[n].plan.plan_id)
    <3>1. message_queue[k].plan.plan_id \in Held
      BY DEF Held, ComingIds
    <3>2. Expects(final_waypoints', task_plan', message_queue[k].plan.plan_id)
      BY <1>2, <3>1 DEF PlansExpected
    <3> QED BY <2>1, <3>2
  <2>2. ASSUME server.at = "publishing", NEW r \in Robots \cap server.left,
               message_queue'[n].plan = server.plans[r]
        PROVE  Expects(final_waypoints', task_plan', message_queue'[n].plan.plan_id)
    BY <1>1, <1>3, <2>2 DEF PlansNamed, Expects
  <2> QED BY <1>1, <2>1, <2>2, ComingIs
<1>5. ASSUME NEW r \in Known(dm') 
      PROVE  Expects(final_waypoints', task_plan', dm'.plan[r].plan_id)
  <2>1. PICK id \in Held : Expected(id) /\ dm'.plan[r].plan_id = id
    BY <1>1, KnownFrom DEF PlansExpected, Held, Executed, ComingIds
  <2>2. Expects(final_waypoints', task_plan', id)
    BY <1>2, <2>1
  <2> QED BY <2>1, <2>2
<1>6. ASSUME server'.at = "publishing", NEW r \in Robots \cap server'.left
      PROVE  server'.plan_ids[r] \in DOMAIN final_waypoints'
  <2>1. CASE Solve
    <3>1. /\ server'.left = DOMAIN server'.plans /\ server'.plan_ids = server.plan_ids
          /\ DOMAIN final_waypoints' = DOMAIN final_waypoints \cup {server.plan_ids[s] : s \in DOMAIN server'.plans}
      BY <1>1, <1>6, <2>1, SolutionStarts, SolutionIsNamed
    <3> QED BY <1>6, <3>1
  <2>2. CASE ~Solve
    BY <1>1, <1>3, <1>6, <2>2, PublishingIs
  <2> QED BY <2>1, <2>2
<1> QED BY <1>4, <1>5, <1>6 DEF PlansExpected, Expected

-----------------------------------------------------------------------------
(* The reports of the ends of plans.                                         *)

\* The server hears of the robots that it plans for.
Heard ==
  /\ DOMAIN participants = {"server", "executor"}
  /\ \A r \in Robots \cap (DOMAIN context \cup participants["server"]) : subscriptions["server"][r] >= 1

\* The end of a plan is on its way to the callback c, or c is busy with it, or
\* has ended with an exception.
EndReport(id, last) == [plan_id |-> id, reached_waypoint |-> last, target_waypoint |-> last]
EndHeard(rs, c, id, last) ==
  \/ \E n \in DOMAIN rs : rs[n].report = EndReport(id, last)
  \/ c.at = "scanning" /\ c.plan_id = id
  \/ c = Dead
ExpectedAtEnd(d, finals, r) ==
  /\ IsComplete(d, r)
  /\ d.plan[r].plan_id \in DOMAIN finals /\ finals[d.plan[r].plan_id] = LastIndex(d.plan[r])
EndsReported ==
  \A r \in Known(dm) :
    ExpectedAtEnd(dm, final_waypoints, r)
      => EndHeard(reports, callback, dm.plan[r].plan_id, LastIndex(dm.plan[r]))

LEMMA SubscribedIs ==
  ASSUME ~Ros, QueuesTyped, NEW side, NEW rs, Subscribe(side, rs), NEW r \in Robots
  PROVE  /\ subscriptions["server"][r] >= 1 => subscriptions'["server"][r] >= 1
         /\ side = "server" /\ r \in rs => subscriptions'["server"][r] >= 1
<1> DEFINE New(f) == [s \in Robots |-> IF s \notin rs THEN f[s] ELSE 1]
<1>1. subscriptions \in [{"server", "executor"} -> [Robots -> Nat]]
  BY DEF QueuesTyped
<1>2. subscriptions' = [subscriptions EXCEPT ![side] = New(subscriptions[side])]
  BY DEF Subscribe
<1>3. \A f \in [Robots -> Nat] : /\ f[r] >= 1 => New(f)[r] >= 1
                                 /\ r \in rs => New(f)[r] >= 1
  OBVIOUS
<1> HIDE DEF New
<1> QED BY <1>1, <1>2, <1>3

LEMMA HeardKept ==
  ASSUME ~Ros, PlansInv, Heard, [Next]_vars
  PROVE  Heard'
<1>1. QueuesTyped
  BY DEF PlansInv, AnswersInv
<1>2. CASE UNCHANGED transportVars /\ DOMAIN context' = DOMAIN context
  BY <1>2 DEF transportVars, Heard
<1>3. CASE OnboardAtServer
  <2> DEFINE i == Item.robot
  <2>1. Subscribe("server", {i} \ participants["server"]) /\ UNCHANGED participants
    BY <1>3 DEF OnboardAtServer, Onboard
  <2>2. /\ DOMAIN context' \subseteq DOMAIN context \cup {i}
        /\ i \in participants["server"] => UNCHANGED context
    <3>1. i \in participants["server"] => UNCHANGED context
      BY <1>3 DEF OnboardAtServer, serverVars
    <3>2. UNCHANGED context \/ context' = Initialised(i, Item.location)
      BY <1>3 DEF OnboardAtServer, AddRobot, serverVars
    <3>3. DOMAIN Initialised(i, Item.location) = DOMAIN context \cup {i}
      BY DEF Initialised
    <3> QED BY <3>1, <3>2, <3>3
  <2> HIDE DEF i
  <2>3. ASSUME NEW r \in Robots, r \in DOMAIN context' \cup participants["server"]
        PROVE  subscriptions'["server"][r] >= 1
    <3>1. r \in DOMAIN context \cup participants["server"] \/ r \in {i} \ participants["server"]
      BY <2>2, <2>3
    <3> QED BY <1>1, <2>1, <3>1, SubscribedIs DEF Heard
  <2> QED BY <2>1, <2>3 DEF Heard
<1>4. CASE OnboardAtExecutor
  <2>1. /\ Subscribe("executor", {Item.robot} \ participants["executor"])
        /\ UNCHANGED <<participants, context>>
    BY <1>4 DEF OnboardAtExecutor, Onboard, serverVars
  <2> QED BY <1>1, <2>1, SubscribedIs DEF Heard
<1>5. CASE Discovery
  <2> DEFINE side == Item.side
             rs == Item.robots
  <2>1. /\ Subscribe(side, rs \ participants[side]) /\ UNCHANGED context
        /\ participants' = [participants EXCEPT ![side] = @ \cup rs]
    BY <1>5 DEF Discovery, Discover, serverVars
  <2> HIDE DEF side, rs
  <2>2. /\ DOMAIN participants' = {"server", "executor"}
        /\ participants'["server"] = IF side = "server" THEN participants["server"] \cup rs
                                                       ELSE participants["server"]
    BY <2>1 DEF Heard
  <2>3. ASSUME NEW r \in Robots, r \in DOMAIN context' \cup participants'["server"]
        PROVE  subscriptions'["server"][r] >= 1
    <3>1. \/ r \in DOMAIN context \cup participants["server"]
          \/ side = "server" /\ r \in rs \ participants[side]
      BY <2>1, <2>2, <2>3
    <3> QED BY <1>1, <2>1, <3>1, SubscribedIs DEF Heard
  <2> QED BY <2>2, <2>3 DEF Heard
<1>6. UNCHANGED transportVars \/ OnboardAtServer \/ OnboardAtExecutor \/ Discovery
  BY DEF Next, Client, SendTasks, ServerWorker, ServerBatch, ServerInternal, ServerPublish, ServerTimeout,
         ServerCallback, ServerProgress, ServerRecordsEnd, ServerScanFails, ExecutorWorker, ExecutorPlan,
         ExecutorReached, ExecutorRequest, RobotArrives, vars
<1>7. UNCHANGED context \/ OnboardAtServer \/ DOMAIN context' = DOMAIN context
  BY ContextSteps DEF RecordBatch, Complete
<1> QED BY <1>2, <1>3, <1>4, <1>5, <1>6, <1>7

\* Copies of x go to the end of s.
LEMMA CopiesCome ==
  ASSUME NEW s, IsSequence(s), NEW k \in Nat, NEW x, NEW u, u = s \o [n \in 1 .. k |-> x]
  PROVE  /\ \A n \in DOMAIN s : n \in DOMAIN u /\ u[n] = s[n]
         /\ k >= 1 => \E n \in DOMAIN u : u[n] = x
<1> DEFINE t == [n \in 1 .. k |-> x]
<1>1. t \in Seq({x}) /\ Len(t) = k
  OBVIOUS
<1>2. Len(s) \in Nat /\ DOMAIN s = 1 .. Len(s)
  BY LenProperties DEF IsSequence
<1>3. s \in Seq({s[n] : n \in DOMAIN s} \cup {x}) /\ t \in Seq({s[n] : n \in DOMAIN s} \cup {x})
  BY <1>1 DEF IsSequence
<1>4. /\ DOMAIN u = 1 .. Len(s) + k
      /\ \A n \in 1 .. Len(s) + k : u[n] = IF n <= Len(s) THEN s[n] ELSE t[n - Len(s)]
  BY <1>1, <1>3, ConcatProperties
<1>5. k >= 1 => t[1] = x
  OBVIOUS
<1> HIDE DEF t
<1>6. k >= 1 => Len(s) + 1 \in 1 .. Len(s) + k /\ u[Len(s) + 1] = t[1]
  BY <1>2, <1>4
<1> QED BY <1>2, <1>4, <1>5, <1>6

\* A report is handled by the callback or waits for it.
LEMMA EndHeardStays ==
  ASSUME KnownReports, PlansInv, [Next]_vars, NEW id, NEW last, EndHeard(reports, callback, id, last),
         id \in DOMAIN final_waypoints, final_waypoints[id] = last, id \in DOMAIN final_waypoints'
  PROVE  EndHeard(reports', callback', id, last)
<1>1. IsSequence(reports) /\ Idle.at = "idle" /\ Dead.at = "dead"
  BY DEF KnownReports, Idle, Dead
<1>2. CASE UNCHANGED reports /\ (UNCHANGED callback \/ callback' = Dead)
  BY <1>2 DEF EndHeard
<1>3. CASE ServerProgress
  <2>1. /\ reports # <<>> /\ reports' = Tail(reports) /\ callback = Idle
        /\ OnProgress(Head(reports).robot, Head(reports).report)
    BY <1>3 DEF ServerProgress, OnProgress
  <2>2. PICK n \in DOMAIN reports : reports[n].report = EndReport(id, last)
    BY <1>1, <2>1 DEF EndHeard
  <2>3. /\ Len(reports) \in Nat /\ DOMAIN reports = 1 .. Len(reports)
        /\ DOMAIN Tail(reports) = 1 .. Len(reports) - 1 /\ Head(reports) = reports[1]
        /\ \A m \in 1 .. Len(reports) - 1 : Tail(reports)[m] = reports[m + 1]
    BY <1>1, <2>1, TailIs
  <2>4. CASE n = 1
    <3>1. Head(reports).report = EndReport(id, last)
      BY <2>2, <2>3, <2>4
    <3>2. IsFinal(Head(reports).report) /\ Head(reports).report.plan_id = id
      BY <3>1 DEF IsFinal, EndReport
    <3> QED BY <2>1, <3>2 DEF OnProgress, EndHeard
  <2>5. CASE n # 1
    <3>1. n - 1 \in 1 .. Len(reports) - 1 /\ (n - 1) + 1 = n
      BY <2>3, <2>5
    <3>2. n - 1 \in DOMAIN reports' /\ reports'[n - 1] = reports[n]
      BY <2>1, <2>3, <3>1
    <3> QED BY <2>2, <3>2 DEF EndHeard
  <2> QED BY <2>4, <2>5
<1>4. CASE ServerRecordsEnd
  <2>1. UNCHANGED reports /\ (ScanEnds \/ Complete)
    BY <1>4 DEF ServerRecordsEnd
  <2>2. ~(callback.at = "scanning" /\ callback.plan_id = id)
    BY <2>1 DEF ScanEnds, Complete, Without
  <2>3. callback # Dead
    BY <1>1, <2>1 DEF ScanEnds, Complete
  <2> QED BY <2>1, <2>2, <2>3 DEF EndHeard
<1>5. CASE ExecutorReached
  <2> DEFINE r == First.robot
             report == [robot |-> r, report |-> ProgressMessage(r, First.index)]
             k == subscriptions["server"][r]
  <2>1. HandleWaypointReached /\ NextMessage(Reached) /\ UNCHANGED callback
    BY <1>5 DEF ExecutorReached, HandleWaypointReached, Reached, serverVars
  <2>2. 1 \in DOMAIN message_queue /\ First = message_queue[1] /\ First.type = Reached /\ Head(message_queue) = First
    BY <2>1, FirstIs
  <2>3. reports' = reports \o [n \in 1 .. k |-> report]
    BY <1>5, <2>2 DEF ExecutorReached, Delivered
  <2>4. r \in Robots
    BY <2>2 DEF KnownReports, PlansInv, Sound
  <2>5. k \in Nat
    BY <2>4 DEF PlansInv, AnswersInv, QueuesTyped
  <2> HIDE DEF r, report, k
  <2>6. \A n \in DOMAIN reports : n \in DOMAIN reports' /\ reports'[n] = reports[n]
    BY <1>1, <2>3, <2>5, CopiesCome
  <2> QED BY <2>1, <2>6 DEF EndHeard
<1>6. \/ UNCHANGED reports /\ (UNCHANGED callback \/ callback' = Dead)
      \/ ServerProgress
      \/ ServerRecordsEnd
      \/ ExecutorReached
  BY OtherSteps DEF ServerBatch, ProcessBatch, ServerPublish, PublishPlan, ExecutorPlan, ExecutorRequest,
                    RobotArrives, serverVars, systemVars
<1> QED BY <1>2, <1>3, <1>4, <1>5, <1>6

\* A robot that gets a plan is not at the end of it.
LEMMA NewPlanGoesOn ==
  ASSUME PaceInv, LongPlans, HandlePlan
  PROVE  ~IsComplete(dm', First.robot)
<1> DEFINE r == First.robot
           p == First.plan
<1>1. PlansInv /\ FitInv /\ Sound(dm)
  BY DEF PaceInv, FitInv, FreshInv, PlansInv
<1>2. /\ 1 \in Coming /\ First = message_queue[1] /\ r \in Robots /\ WellFormed(p)
  BY <1>1, FirstIs DEF HandlePlan, Coming
<1>3. LastIndex(p) >= 1 /\ LastIndex(p) \in Nat
  BY <1>2, WaypointsAre DEF LongPlans
<1>4. PICK e : /\ DispatchUnblocked(e)
               /\ IsSet(dm, r, p, e) \/ (r \in Known(dm) /\ IsUpdated(dm, r, p, e))
  BY <1>1, PlanDispatches
<1>5. dm'.plan = e.plan /\ dm'.current_waypoint = e.current_waypoint
  BY <1>4, DispatchIsSound DEF IsSet, IsUpdated
<1>6. CASE IsSet(dm, r, p, e)
  <2>1. e.plan[r] = p /\ e.current_waypoint[r] = 0
    BY <1>2, <1>6 DEF IsSet
  <2> HIDE DEF r, p
  <2> QED BY <1>3, <1>5, <2>1 DEF IsComplete, r
<1>7. CASE r \in Known(dm) /\ IsUpdated(dm, r, p, e)
  <2> DEFINE cut == dm.cut_indices[r]
             old == dm.plan[r]
             c == dm.current_waypoint[r]
  <2>1. Continues(dm, r, p) /\ ProgressIncreases(old)
    BY <1>1, <1>2, <1>7 DEF FitInv, ComingFit, Fits, KnownFit, EndsInTime
  <2>2. WellFormed(old) /\ dm.latest_enqueued[r] \in Nat
    BY <1>1, <1>7, SoundPlans
  <2>3. /\ r \in DOMAIN dm.cut_indices /\ cut \in Indices(old)
        /\ SameStop(p.waypoints[1], WaypointAt(old, cut)) /\ ProgressIncreases(p)
    BY <1>7, <2>1 DEF Continues
  <2>4. cut \in Nat /\ dm.latest_enqueued[r] <= cut /\ CutOf(dm, r) = cut
    BY <1>1, <2>3 DEF Sound, CutOf
  <2>5. c \in Int /\ c <= dm.latest_enqueued[r]
    BY <1>7, PendingIsAhead
  <2>6. Joined(dm, r, p) = Spliced(old, cut, p)
    BY <2>4 DEF Joined
  <2>7. LastIndex(Joined(dm, r, p)) = cut + LastIndex(p)
    <3> HIDE DEF cut, old, r, p
    <3> QED BY <1>2, <2>1, <2>2, <2>3, <2>6, JoinIncreases
  <2>8. e.current_waypoint[r] = c /\ Len(e.plan[r].waypoints) = Len(Joined(dm, r, p).waypoints)
    BY <1>7 DEF IsUpdated, Updated
  <2>9. LastIndex(e.plan[r]) = cut + LastIndex(p)
    BY <2>7, <2>8 DEF LastIndex
  <2> HIDE DEF cut, old, c, r, p
  <2>10. ~(e.current_waypoint[r] >= LastIndex(e.plan[r]))
    BY <1>3, <2>2, <2>4, <2>5, <2>8, <2>9
  <2> QED BY <1>5, <2>10 DEF IsComplete, r
<1> QED BY <1>4, <1>6, <1>7

\* A robot that gets to the end of its plan has it reported.
LEMMA EndIsReported ==
  ASSUME BusyInv, Heard, [Next]_vars, NEW r \in Known(dm), Arrived(r), IsComplete(dm', r)
  PROVE  EndHeard(reports', callback', dm.plan[r].plan_id, LastIndex(dm.plan[r]))
<1> DEFINE last == LastIndex(dm.plan[r])
           report == [robot |-> r, report |-> ProgressMessage(r, First.index)]
           k == subscriptions["server"][r]
<1>1. PlansInv /\ PaceInv /\ KnownReports /\ Sound(dm) /\ IsSequence(reports)
  BY BusyParts DEF PlansInv, KnownReports
<1>2. /\ last \in Nat /\ dm.latest_enqueued[r] \in Nat /\ dm.latest_enqueued[r] <= last /\ r \in Robots
  BY <1>1, SoundPlans
<1>3. First.index \in Int /\ First.index <= dm.latest_enqueued[r]
  BY <1>1, PendingIsAhead DEF Arrived
<1>4. First.index >= last
  BY DEF Arrived, IsComplete
<1>5. First.index = last /\ dm.latest_enqueued[r] = last
  <2> HIDE DEF last
  <2> QED BY <1>2, <1>3, <1>4
<1>6. report.report = EndReport(dm.plan[r].plan_id, last)
  BY <1>5 DEF ProgressMessage, EndReport
<1>7. k \in Nat /\ k >= 1
  <2>1. r \in DOMAIN context
    BY DEF BusyInv, PlannedForKnown
  <2> QED BY <1>1, <1>2, <2>1 DEF Heard, PlansInv, AnswersInv, QueuesTyped
<1>8. reports' = reports \o [n \in 1 .. k |-> report]
  BY DEF Arrived, ExecutorReached, Delivered
<1> HIDE DEF last, report, k
<1>9. \E n \in DOMAIN reports' : reports'[n] = report
  BY <1>1, <1>7, <1>8, CopiesCome
<1> QED BY <1>6, <1>9 DEF EndHeard, last

LEMMA EndsReportedKept ==
  ASSUME SolverReturnsPaths, PathsStartAtStarts, ~Ros, BusyInv, LongPlans, Heard, EndsReported, [Next]_vars
  PROVE  EndsReported'
<1>1. PlansInv /\ PaceInv /\ KnownReports /\ FitInv
  BY BusyParts DEF PaceInv
<1> SUFFICES ASSUME NEW r \in Known(dm'), ExpectedAtEnd(dm', final_waypoints', r)
             PROVE  EndHeard(reports', callback', dm'.plan[r].plan_id, LastIndex(dm'.plan[r]))
  BY DEF EndsReported
<1>2. ASSUME ExecutorPlan, r = First.robot PROVE FALSE
  BY <1>1, <1>2, NewPlanGoesOn DEF ExecutorPlan, ExpectedAtEnd
<1>3. CASE r \notin Known(dm)
  <2>1. ExecutorPlan /\ 1 \in Coming /\ r = message_queue[1].robot
    BY <1>1, <1>3, KnownFrom
  <2> QED BY <1>2, <2>1 DEF First
<1>4. CASE r \in Known(dm)
  <2>1. AsBefore(r) \/ Arrived(r)
    BY <1>1, <1>2, <1>4, RobotSteps DEF Replaced
  <2>2. CASE Arrived(r)
    BY <1>4, <2>2, EndIsReported DEF Arrived, ExpectedAtEnd
  <2>3. CASE AsBefore(r)
    <3> DEFINE id == dm.plan[r].plan_id
               last == LastIndex(dm.plan[r])
    <3>1. dm'.plan[r].plan_id = id /\ LastIndex(dm'.plan[r]) = last /\ IsComplete(dm, r)
      BY <1>4, <2>3 DEF AsBefore, ExpectedAtEnd, IsComplete
    <3>2. id \in DOMAIN final_waypoints' /\ final_waypoints'[id] = last
      BY <3>1 DEF ExpectedAtEnd
    <3>3. id \in Held
      BY <1>4 DEF Held, Executed
    <3>4. FinalStays(id)
      BY <1>1, <3>3, HeldFinalsStay
    <3>5. id \in DOMAIN final_waypoints /\ final_waypoints[id] = last
      BY <3>2, <3>4 DEF FinalStays
    <3>6. EndHeard(reports, callback, id, last)
      BY <1>4, <3>1, <3>5 DEF EndsReported, ExpectedAtEnd
    <3> HIDE DEF id, last
    <3>7. EndHeard(reports', callback', id, last)
      BY <1>1, <3>2, <3>5, <3>6, EndHeardStays
    <3> QED BY <3>1, <3>7
  <2> QED BY <2>1, <2>2, <2>3
<1> QED BY <1>3, <1>4

EndInv ==
  /\ BusyInv
  /\ LongPlans
  /\ PlansExpected
  /\ Scanning
  /\ Heard
  /\ EndsReported

LEMMA EndInvHolds ==
  ASSUME SolverReturnsPaths, PathsStartAtStarts, TasksOfOneRobot, ~Ros
  PROVE  Spec => []EndInv
<1>1. Init => LongPlans /\ PlansExpected /\ Scanning /\ Heard /\ EndsReported
  <2> SUFFICES ASSUME Init
               PROVE  LongPlans /\ PlansExpected /\ Scanning /\ Heard /\ EndsReported
    OBVIOUS
  <2>1. /\ message_queue = <<>> /\ server = Idle /\ dm = EmptyManager /\ context = <<>> /\ callback = Idle
        /\ participants = [side \in {"server", "executor"} |-> {}]
    BY DEF Init, ServerInit, ExecutorInit, TransportInit
  <2>2. DOMAIN <<>> = {} /\ Idle.at = "idle"
    BY DEF Idle
  <2>3. Known(dm) = {} /\ Coming = {}
    BY <2>1, <2>2 DEF Known, EmptyManager, Coming
  <2> QED BY <2>1, <2>2, <2>3 DEF LongPlans, PlansExpected, Scanning, Heard, EndsReported
<1>2. EndInv /\ [Next]_vars /\ BusyInv' => EndInv'
  <2> SUFFICES ASSUME EndInv, [Next]_vars, BusyInv' PROVE EndInv'
    OBVIOUS
  <2>1. BusyInv /\ LongPlans /\ PlansExpected /\ Scanning /\ Heard /\ EndsReported
    BY DEF EndInv
  <2>2. PlansInv /\ FreshInv /\ IdsInv'
    BY <2>1 DEF BusyInv, PaceInv, FitInv, FreshInv
  <2>3. LongPlans' /\ PlansExpected' /\ Scanning'
    BY <2>1, <2>2, LongPlansKept, PlansExpectedKept, ScanningKept
  <2>4. Heard' /\ EndsReported'
    BY <2>1, <2>2, HeardKept, EndsReportedKept
  <2> QED BY <2>3, <2>4 DEF EndInv
<1>3. BusyInv /\ LongPlans /\ PlansExpected /\ Scanning /\ Heard /\ EndsReported => EndInv
  BY DEF EndInv
<1> QED BY <1>1, <1>2, <1>3, BusyInvHolds, PTL DEF Spec

\* Once nothing is on its way, a robot that is at the end of the plan its entry
\* names has no task that waits for that end, unless the server expects the
\* plan to end at another waypoint: progress reports, the callback that goes
\* through the tasks and the batches that plan tasks again lose no end
\* (on_progress, plan_server.py).
THEOREM EndsAreRecorded ==
  ASSUME SolverReturnsPaths, PathsStartAtStarts, TasksOfOneRobot, ~Ros
  PROVE  Spec => []EndIsRecorded
<1>1. EndInv => EndIsRecorded
  <2> SUFFICES ASSUME EndInv, AtRest, NEW r \in DOMAIN context, r \in Known(dm), IsComplete(dm, r),
                      context[r].plan_id = dm.plan[r].plan_id
               PROVE  IF dm.plan[r].plan_id \in DOMAIN final_waypoints
                      THEN final_waypoints[dm.plan[r].plan_id] # LastIndex(dm.plan[r])
                      ELSE TasksOf(task_plan, dm.plan[r].plan_id) = {}
    BY DEF EndIsRecorded
  <2>1. reports = <<>> /\ DOMAIN reports = {} /\ callback.at = "idle" /\ callback # Dead
    BY DEF AtRest, Idle, Dead
  <2>2. ~ExpectedAtEnd(dm, final_waypoints, r)
    BY <2>1 DEF EndInv, EndsReported, EndHeard
  <2>3. Expects(final_waypoints, task_plan, dm.plan[r].plan_id)
    BY DEF EndInv, PlansExpected, Expected
  <2> QED BY <2>2, <2>3 DEF ExpectedAtEnd, Expects
<1> QED BY <1>1, EndInvHolds, PTL

-----------------------------------------------------------------------------
(* A single wave of plans, of which each robot gets one at most: robots that *)
(* have to wait for each other never collide.                                *)

\* The plans that are still to come are those of robots that have none yet.
PlansOfWave(B) ==
  /\ \A n \in Coming :
       /\ message_queue[n].robot \in DOMAIN B \ Known(dm)
       /\ message_queue[n].plan = B[message_queue[n].robot]
  /\ server.at = "publishing" =>
       \A r \in Robots \cap server.left : r \in DOMAIN B \ Known(dm) /\ server.plans[r] = B[r]

LEMMA PlanStaysInWave ==
  ASSUME PlansInv, NEW B, IsBatch(B), InWave(B, dm), PlansOfWave(B), HandlePlan
  PROVE  InWave(B, dm')
<1> DEFINE r == First.robot
<1>1. /\ 1 \in DOMAIN message_queue /\ First = message_queue[1] /\ First.type = "plan"
      /\ First.robot \in Robots
  BY FirstIs DEF HandlePlan
<1>2. r \in DOMAIN B \ Known(dm) /\ First.plan = B[r]
  BY <1>1 DEF PlansOfWave, Coming
<1>3. PICK e : DispatchUnblocked(e) /\ IsSet(dm, r, B[r], e)
  BY <1>2, PlanDispatches
<1>4. /\ Sound(e) /\ Known(e) = Known(dm) \cup {r}
      /\ \A s \in Robots :
           /\ e.plan[s] = IF s = r THEN B[r] ELSE dm.plan[s]
           /\ e.latest_enqueued[s] = IF s = r THEN 0 ELSE dm.latest_enqueued[s]
           /\ e.current_waypoint[s] = IF s = r THEN 0 ELSE dm.current_waypoint[s]
      /\ e.completed_plan_ids = dm.completed_plan_ids
  BY <1>3 DEF IsSet
<1>5. r \in Robots /\ DOMAIN B \subseteq Robots /\ Known(dm) \subseteq DOMAIN B
  BY <1>1 DEF IsBatch, InWave, OnPlansOf
<1> HIDE DEF r
<1>6. 0 \in Indices(B[r])
  BY <1>2, BatchProgress
<1>7. OnPlansOf(B, e)
  <2>1. \A s \in Known(e) : e.plan[s] = B[s] /\ e.current_waypoint[s] \in Indices(B[s])
    BY <1>4, <1>5, <1>6 DEF InWave, OnPlansOf
  <2>2. AtEndIn(B, e)
    <3>1. \A s \in Known(dm) : s \in Known(e) /\ e.current_waypoint[s] = dm.current_waypoint[s]
      BY <1>2, <1>4, <1>5
    <3> QED BY <1>4, <3>1 DEF InWave, OnPlansOf, AtEndIn
  <2> QED BY <1>2, <1>4, <1>5, <2>1, <2>2 DEF OnPlansOf
<1>8. ASSUME NEW i \in DOMAIN B, NEW j \in Known(e), i # j, NEW a \in Indices(B[i]), NEW b \in Indices(B[j]),
             Precedes(B, i, a, j, b), b <= e.latest_enqueued[j]
      PROVE  i \in Known(e) /\ e.current_waypoint[i] > a
  <2>1. CASE j = r
    <3>1. b \in Nat
      BY <1>2, <2>1, BatchProgress
    <3>2. b <= 0
      BY <1>4, <1>5, <1>8, <2>1
    <3>3. 0 .. b - 1 = {}
      BY <3>1, <3>2
    <3> QED BY <1>8, <3>3 DEF Precedes
  <2>2. CASE j # r
    <3>1. j \in Known(dm) /\ b <= dm.latest_enqueued[j]
      BY <1>4, <1>5, <1>8, <2>2
    <3>2. i \in Known(dm) /\ dm.current_waypoint[i] > a
      BY <1>8, <3>1 DEF InWave, WaveVisitsInOrder
    <3> QED BY <1>2, <1>4, <1>5, <3>2
  <2> QED BY <2>1, <2>2
<1>9. InWave(B, e)
  BY <1>7, <1>8 DEF InWave, WaveVisitsInOrder
<1> QED BY <1>3, <1>4, <1>9, DispatchStaysInWave

LEMMA ReachedStaysInWave ==
  ASSUME RouteInv, NEW B, IsBatch(B), InWave(B, dm), HandleWaypointReached
  PROVE  InWave(B, dm')
<1> DEFINE r == First.robot
<1>1. PlansInv /\ KnownReports
  BY DEF RouteInv, FitInv, FreshInv
<1>2. /\ 1 \in DOMAIN message_queue /\ First = message_queue[1] /\ First.type = Reached
  BY <1>1, FirstIs DEF HandleWaypointReached, Reached
<1>3. r \in Known(dm) /\ r \in DOMAIN B /\ dm.plan[r] = B[r]
  BY <1>1, <1>2 DEF KnownReports, InWave, OnPlansOf
<1>4. PICK e : /\ Sound(e) /\ DispatchUnblocked(e) /\ Known(e) = Known(dm)
               /\ e.plan = dm.plan /\ e.latest_enqueued = dm.latest_enqueued
               /\ e.current_waypoint = [dm.current_waypoint EXCEPT ![r] = First.index]
  BY <1>1, <1>3, ReachedDispatches
<1>5. e.completed_plan_ids = IF First.index >= LastIndex(B[r])
                             THEN dm.completed_plan_ids \cup {B[r].plan_id}
                             ELSE dm.completed_plan_ids
  BY <1>1, <1>3, <1>4, ReachedHandled, DispatchIsSound
<1>6. Sound(dm) /\ DOMAIN dm.current_waypoint = Robots /\ DOMAIN B \subseteq Robots /\ Known(dm) \subseteq DOMAIN B
  BY <1>1 DEF PlansInv, Sound, IsBatch, InWave, OnPlansOf
<1>7. \A s \in Known(dm) :
        e.current_waypoint[s] = IF s = r THEN First.index ELSE dm.current_waypoint[s]
  BY <1>4, <1>6
<1>8. First.index \in Indices(B[r]) /\ First.index > dm.current_waypoint[r] /\ dm.current_waypoint[r] \in Int
  <2>1. PICK k \in Nat :
          /\ OnWay(dm.plan[r], dm.latest_enqueued[r], at[r], pending[r], k, alive)
          /\ ReportsUpTo(message_queue, r, dm.current_waypoint[r], k)
    BY <1>3 DEF RouteInv, InStep
  <2>2. dm.current_waypoint[r] \in Int /\ First.index \in dm.current_waypoint[r] + 1 .. k
    BY <1>2, <2>1 DEF ReportsUpTo
  <2>3. IsSequence(pending[r]) /\ k + Len(pending[r]) <= dm.latest_enqueued[r]
    BY <2>1 DEF OnWay
  <2>4. Len(pending[r]) \in Nat
    BY <2>3, TailIs, JoinedIs
  <2>5. dm.latest_enqueued[r] \in Nat /\ dm.latest_enqueued[r] <= LastIndex(B[r]) /\ LastIndex(B[r]) \in Nat
        /\ Indices(B[r]) = 0 .. LastIndex(B[r])
    BY <1>3, <1>6, SoundPlans
  <2>6. dm.current_waypoint[r] \in Indices(B[r])
    BY <1>3 DEF InWave, OnPlansOf
  <2> QED BY <2>2, <2>3, <2>4, <2>5, <2>6
<1> HIDE DEF r
<1>9. OnPlansOf(B, e)
  <2>1. \A s \in Known(e) : e.plan[s] = B[s] /\ e.current_waypoint[s] \in Indices(B[s])
    BY <1>3, <1>4, <1>7, <1>8 DEF InWave, OnPlansOf
  <2>2. ASSUME NEW s \in DOMAIN B, B[s].plan_id \in e.completed_plan_ids
        PROVE  s \in Known(e) /\ e.current_waypoint[s] >= LastIndex(B[s])
    <3>1. CASE s = r
      <4>1. B[r].plan_id \in dm.completed_plan_ids => dm.current_waypoint[r] >= LastIndex(B[r])
        BY <1>3 DEF InWave, OnPlansOf, AtEndIn
      <4>2. LastIndex(B[r]) \in Nat /\ First.index \in Int
        BY <1>3, <1>8, BatchProgress
      <4>3. First.index >= LastIndex(B[r]) \/ dm.current_waypoint[r] >= LastIndex(B[r])
        BY <1>5, <2>2, <3>1, <4>1
      <4>4. First.index >= LastIndex(B[r])
        BY <1>8, <4>2, <4>3
      <4> QED BY <1>3, <1>4, <1>7, <3>1, <4>4
    <3>2. CASE s # r
      <4>1. B[s].plan_id # B[r].plan_id
        BY <1>3, <3>2 DEF IsBatch
      <4>2. B[s].plan_id \in dm.completed_plan_ids
        BY <1>5, <2>2, <4>1
      <4> QED BY <1>4, <1>7, <3>2, <4>2 DEF InWave, OnPlansOf, AtEndIn
    <3> QED BY <3>1, <3>2
  <2> QED BY <1>4, <1>6, <2>1, <2>2 DEF OnPlansOf, AtEndIn
<1>10. ASSUME NEW i \in DOMAIN B, NEW j \in Known(e), i # j, NEW a \in Indices(B[i]), NEW b \in Indices(B[j]),
              Precedes(B, i, a, j, b), b <= e.latest_enqueued[j]
       PROVE  i \in Known(e) /\ e.current_waypoint[i] > a
  <2>1. i \in Known(dm) /\ dm.current_waypoint[i] > a
    BY <1>4, <1>10 DEF InWave, WaveVisitsInOrder
  <2>2. a \in Int
    BY BatchProgress
  <2>3. i = r => First.index > a
    <3>1. First.index \in Int
      BY <1>3, <1>8, BatchProgress
    <3> QED BY <1>8, <2>1, <2>2, <3>1
  <2> QED BY <1>4, <1>7, <2>1, <2>3
<1>11. InWave(B, e)
  BY <1>9, <1>10 DEF InWave, WaveVisitsInOrder
<1> QED BY <1>4, <1>11, DispatchStaysInWave

LEMMA InWaveKept ==
  ASSUME RouteInv, NEW B, IsBatch(B), InWave(B, dm), PlansOfWave(B), [Next]_vars
  PROVE  InWave(B, dm')
<1>1. PlansInv /\ Sound(dm)
  BY DEF RouteInv, FitInv, FreshInv, PlansInv
<1>2. CASE UNCHANGED dm
  BY <1>2
<1>3. CASE HandlePlan
  BY <1>1, <1>3, PlanStaysInWave
<1>4. CASE HandleWaypointReached
  BY <1>4, ReachedStaysInWave
<1>5. CASE HandleCommittedLocationsRequest
  <2>1. dm' = dm \/ (~CommitCutFails(dm) /\ dm' = ComputeCommitCut(dm))
    BY <1>5 DEF HandleCommittedLocationsRequest
  <2>2. ASSUME ~CommitCutFails(dm), dm' = ComputeCommitCut(dm)
        PROVE  InWave(B, dm')
    <3>1. /\ Known(dm') = Known(dm) /\ dm'.plan = dm.plan
          /\ dm'.latest_enqueued = dm.latest_enqueued
          /\ dm'.current_waypoint = dm.current_waypoint
          /\ dm'.completed_plan_ids = dm.completed_plan_ids
      BY <1>1, <2>2, CutIsSound
    <3> QED BY <3>1 DEF InWave, OnPlansOf, AtEndIn, WaveVisitsInOrder
  <2> QED BY <2>1, <2>2
<1> QED BY <1>2, <1>3, <1>4, <1>5, ChangedByHandlers

\* Robots that have no plan yet stand where it starts, those that get none where
\* nobody else is or comes.
Apart(B, r, s) ==
  IF s \in DOMAIN B THEN \A k \in Indices(B[s]) : WaypointAt(B[s], k).name # at[r]
  ELSE at[s] # at[r]
PlacesOfWave(B) ==
  /\ \A r \in DOMAIN B \ Known(dm) : at[r] = WaypointAt(B[r], 0).name
  /\ \A r \in Robots \ DOMAIN B : \A s \in Robots \ {r} : Apart(B, r, s)

\* Waypoint a of the plan of r is where the robot is or was sent.
HeldAt(B, r, a) ==
  /\ a \in Indices(B[r])
  /\ IF r \in Known(dm) THEN dm.current_waypoint[r] <= a /\ a <= dm.latest_enqueued[r]
                        ELSE a = 0

LEMMA HeldIs ==
  ASSUME RouteInv, NEW B, IsBatch(B), InWave(B, dm), PlacesOfWave(B), NEW r \in DOMAIN B,
         NEW name \in Holds(r)
  PROVE  \E a : HeldAt(B, r, a) /\ WaypointAt(B[r], a).name = name
<1>1. /\ LastIndex(B[r]) \in Nat /\ Indices(B[r]) = 0 .. LastIndex(B[r]) /\ r \in Robots
  BY BatchProgress DEF IsBatch
<1>2. Sound(dm) /\ KnownReports
  BY DEF RouteInv, FitInv, FreshInv, PlansInv
<1>3. CASE r \notin Known(dm)
  <2>1. pending[r] = <<>>
    BY <1>1, <1>2, <1>3 DEF KnownReports
  <2>2. Holds(r) = {at[r]}
    BY <2>1 DEF Holds
  <2>3. WaypointAt(B[r], 0).name = name
    BY <1>3, <2>2 DEF PlacesOfWave
  <2>4. HeldAt(B, r, 0)
    BY <1>1, <1>3 DEF HeldAt
  <2> QED BY <2>3, <2>4
<1>4. CASE r \in Known(dm)
  <2>1. dm.plan[r] = B[r]
    BY <1>4 DEF InWave, OnPlansOf
  <2>2. PICK k \in Nat : /\ OnWay(B[r], dm.latest_enqueued[r], at[r], pending[r], k, alive)
                         /\ ReportsUpTo(message_queue, r, dm.current_waypoint[r], k)
    BY <1>4, <2>1 DEF RouteInv, InStep
  <2>3. dm.current_waypoint[r] \in Int /\ dm.current_waypoint[r] <= k
    BY <2>2 DEF ReportsUpTo
  <2>4. /\ IsSequence(pending[r]) /\ at[r] = WaypointAt(B[r], k).name
        /\ k + Len(pending[r]) <= dm.latest_enqueued[r]
        /\ \A n \in DOMAIN pending[r] : pending[r][n].name = WaypointAt(B[r], k + n).name
    BY <2>2 DEF OnWay
  <2>5. Len(pending[r]) \in Nat /\ DOMAIN pending[r] = 1 .. Len(pending[r])
    BY <2>4, JoinedIs
  <2>6. dm.latest_enqueued[r] \in Nat /\ dm.latest_enqueued[r] <= LastIndex(B[r])
    BY <1>2, <1>4, <2>1, SoundPlans
  <2>7. name = at[r] \/ \E n \in DOMAIN pending[r] : name = pending[r][n].name
    BY DEF Holds
  <2>8. PICK a : a \in k .. k + Len(pending[r]) /\ name = WaypointAt(B[r], a).name
    <3>1. CASE name = at[r]
      BY <2>4, <2>5, <3>1
    <3>2. CASE \E n \in DOMAIN pending[r] : name = pending[r][n].name
      BY <2>4, <2>5, <3>2
    <3> QED BY <2>7, <3>1, <3>2
  <2>9. HeldAt(B, r, a)
    BY <1>1, <1>4, <2>3, <2>4, <2>5, <2>6, <2>8 DEF HeldAt
  <2> QED BY <2>8, <2>9
<1> QED BY <1>3, <1>4

\* A robot does not get to where it has to wait for another one that is there.
LEMMA HeldInOrder ==
  ASSUME NEW B, IsBatch(B), InWave(B, dm), Known(dm) \subseteq DOMAIN B, Sound(dm),
         NEW i \in DOMAIN B, NEW j \in DOMAIN B, i # j,
         NEW a, HeldAt(B, i, a), NEW b, HeldAt(B, j, b), Precedes(B, i, a, j, b)
  PROVE  FALSE
<1>1. a \in Indices(B[i]) /\ b \in Indices(B[j])
  BY DEF HeldAt
<1>2. CASE j \notin Known(dm)
  <2>1. b = 0 /\ 0 .. b - 1 = {}
    BY <1>2 DEF HeldAt
  <2> QED BY <2>1 DEF Precedes
<1>3. CASE j \in Known(dm)
  <2>1. i \in Known(dm) /\ dm.current_waypoint[i] > a
    BY <1>1, <1>3 DEF HeldAt, InWave, WaveVisitsInOrder
  <2>2. dm.current_waypoint[i] <= a /\ dm.current_waypoint[i] \in Indices(B[i])
    BY <2>1 DEF HeldAt, InWave, OnPlansOf
  <2>3. a \in Int /\ dm.current_waypoint[i] \in Int
    BY <1>1, <2>2, BatchProgress
  <2> QED BY <2>1, <2>2, <2>3
<1> QED BY <1>2, <1>3

LEMMA WaveIsApart ==
  ASSUME RouteInv, NEW B, IsBatch(B), InWave(B, dm), PlacesOfWave(B)
  PROVE  NoCollision
<1>1. Sound(dm) /\ KnownReports
  BY DEF RouteInv, FitInv, FreshInv, PlansInv
<1>2. Known(dm) \subseteq DOMAIN B /\ DOMAIN B \subseteq Robots
  BY DEF InWave, OnPlansOf, IsBatch
<1>3. ASSUME NEW r \in Robots \ DOMAIN B
      PROVE  Holds(r) = {at[r]}
  <2>1. pending[r] = <<>>
    BY <1>1, <1>2 DEF KnownReports
  <2> QED BY <2>1 DEF Holds
<1>4. ASSUME NEW r \in Robots \ DOMAIN B, NEW s \in Robots, r # s, NEW name \in Holds(s)
      PROVE  name # at[r]
  <2>1. Apart(B, r, s)
    BY <1>4 DEF PlacesOfWave
  <2>2. CASE s \in DOMAIN B
    <3>1. PICK a : HeldAt(B, s, a) /\ WaypointAt(B[s], a).name = name
      BY <2>2, HeldIs
    <3> QED BY <2>1, <2>2, <3>1 DEF Apart, HeldAt
  <2>3. CASE s \notin DOMAIN B
    BY <1>3, <2>1, <2>3 DEF Apart
  <2> QED BY <2>2, <2>3
<1>5. ASSUME NEW r \in DOMAIN B, NEW s \in DOMAIN B, r # s, NEW name \in Holds(r) \cap Holds(s)
      PROVE  FALSE
  <2>1. PICK a : HeldAt(B, r, a) /\ WaypointAt(B[r], a).name = name
    BY HeldIs
  <2>2. PICK b : HeldAt(B, s, b) /\ WaypointAt(B[s], b).name = name
    BY HeldIs
  <2>3. a \in Indices(B[r]) /\ b \in Indices(B[s]) /\ SameLocation(B, r, a, s, b)
    BY <2>1, <2>2 DEF HeldAt, SameLocation
  <2>4. Precedes(B, r, a, s, b) \/ Precedes(B, s, b, r, a)
    BY <1>5, <2>3 DEF IsBatch, VisitsOrdered
  <2> QED BY <1>1, <1>2, <1>5, <2>1, <2>2, <2>4, HeldInOrder
<1>6. ASSUME NEW r \in Robots, NEW s \in Robots, r # s, NEW name \in Holds(r) \cap Holds(s)
      PROVE  FALSE
  <2>1. CASE r \in DOMAIN B /\ s \in DOMAIN B
    BY <1>5, <1>6, <2>1
  <2>2. CASE r \notin DOMAIN B
    BY <1>3, <1>4, <1>6, <2>2
  <2>3. CASE s \notin DOMAIN B
    BY <1>3, <1>4, <1>6, <2>3
  <2> QED BY <2>1, <2>2, <2>3
<1> QED BY <1>6 DEF NoCollision

\* Before the wave is planned, all stand where they started.
LEMMA StartsAreApart ==
  ASSUME KnownReports, Known(dm) = {}, \A r \in Robots : at[r] = scenario.starts[r],
         \A r, q \in Robots : scenario.starts[r] = scenario.starts[q] => r = q
  PROVE  NoCollision
<1>1. \A r \in Robots : pending[r] = <<>>
  BY DEF KnownReports
<1>2. ASSUME NEW r \in Robots PROVE Holds(r) = {scenario.starts[r]}
  <2>1. pending[r] = <<>> /\ at[r] = scenario.starts[r]
    BY <1>1
  <2> QED BY <2>1 DEF Holds
<1> QED BY <1>2 DEF NoCollision

\* The client has asked, and nothing else is to be planned.
WaveSent ==
  /\ sent = Len(scenario.script)
  /\ task_request_queue = <<>>
  /\ server.at \in {"idle", "publishing", "recording", "dead"}

PlannedAs(B) ==
  /\ IsBatch(B)
  /\ InWave(B, dm)
  /\ WaveSent
  /\ PlansOfWave(B)
  /\ PlacesOfWave(B)

\* What the steps do to the client's progress and to its requests.
LEMMA RequestSteps ==
  ASSUME [Next]_vars
  PROVE  \/ Client
         \/ UNCHANGED <<sent, participants, task_request_queue>>
         \/ ServerBatch /\ UNCHANGED <<sent, participants>> /\ task_request_queue' = <<>>
<1>1. CASE ServerWorker \/ ServerTimeout
  BY <1>1 DEF ServerWorker, ServerBatch, ServerInternal, ServerPublish, ServerTimeout, ProcessBatch,
              TakeResponse, AssignPlanIds, Solve, SupersedeTasks, RecordBatch, PublishPlan, WaitTimesOut,
              transportVars, systemVars
<1>2. CASE ServerCallback
  BY <1>2 DEF ServerCallback, ServerProgress, ServerRecordsEnd, ServerScanFails, OnProgress, ScanEnds,
              Complete, ScanFails, transportVars, systemVars
<1>3. CASE ExecutorWorker \/ \E r \in Robots : RobotArrives(r)
  BY <1>3 DEF ExecutorWorker, ExecutorPlan, ExecutorReached, ExecutorRequest, RobotArrives,
              serverVars, transportVars, systemVars
<1>4. CASE UNCHANGED vars
  BY <1>4 DEF vars, serverVars, transportVars, systemVars
<1> QED BY <1>1, <1>2, <1>3, <1>4 DEF Next

LEMMA ClientIsDone ==
  ASSUME TasksOfOneRobot, TasksAsked, sent = Len(scenario.script), Client
  PROVE  FALSE
<1>1. Len(scenario.script) \in Nat
  BY JoinedIs DEF TasksOfOneRobot, TasksAsked
<1>2. sent < Len(scenario.script)
  BY DEF Client, SendTasks, OnboardAtServer, OnboardAtExecutor, Discovery, NextOnScript
<1> QED BY <1>1, <1>2

LEMMA WaveSentKept ==
  ASSUME TasksOfOneRobot, TasksAsked, PlansInv, WaveSent, [Next]_vars
  PROVE  WaveSent'
<1>1. ~Client
  BY ClientIsDone DEF WaveSent
<1>2. ~ProcessBatch /\ ~TakeResponse /\ ~AssignPlanIds /\ ~Solve
  BY DEF WaveSent, ProcessBatch, TakeResponse, AssignPlanIds, Solve
<1>3. UNCHANGED <<sent, task_request_queue>>
  BY <1>1, <1>2, RequestSteps DEF ServerBatch
<1>4. server'.at \in {"idle", "publishing", "recording", "dead"}
  <2>1. CASE UNCHANGED server \/ server' \in {Idle, Dead}
    BY <2>1 DEF WaveSent, Idle, Dead
  <2>2. CASE SupersedeTasks \/ \E r \in Robots : ServerPublish(r)
    BY <2>2 DEF SupersedeTasks, ServerPublish, PublishPlan, PlansInv, ServerFields, PublishingFields
  <2> QED BY <1>2, <2>1, <2>2, ServerSteps
<1> QED BY <1>3, <1>4, ScenarioStays DEF WaveSent

\* A robot whose plan is still to come gets it from the queue.
LEMMA PlansOfWaveKept ==
  ASSUME ~Ros, FitInv, NEW B, WaveSent, PlansOfWave(B), [Next]_vars
  PROVE  PlansOfWave(B)'
<1>1. PlansInv /\ OrderInv /\ DeliveredOnce
  BY DEF FitInv, FreshInv
<1>2. ASSUME NEW n \in Coming'
      PROVE  /\ message_queue'[n].robot \in DOMAIN B \ Known(dm')
             /\ message_queue'[n].plan = B[message_queue'[n].robot]
  <2>1. /\ message_queue'[n].robot \in DOMAIN B \ Known(dm)
        /\ message_queue'[n].plan = B[message_queue'[n].robot]
    BY <1>1, ComingIs DEF PlansOfWave
  <2>2. ASSUME ExecutorPlan, 1 \in Coming, message_queue'[n].robot = message_queue[1].robot
        PROVE  FALSE
    <3>1. message_queue # <<>> /\ message_queue' = Tail(message_queue)
      BY <2>2 DEF ExecutorPlan, HandlePlan, NextMessage
    <3>2. n + 1 \in DOMAIN message_queue /\ n + 1 # 1 /\ message_queue'[n] = message_queue[n + 1]
      BY <1>1, <3>1, TakenFrom DEF Coming
    <3>3. n + 1 \in Coming
      BY <3>2 DEF Coming
    <3> QED BY <1>1, <2>2, <3>2, <3>3 DEF OrderInv, OnePlanEach
  <2>3. message_queue'[n].robot \notin Known(dm')
    BY <1>1, <2>1, <2>2, KnownFrom
  <2> QED BY <2>1, <2>3
<1>3. ASSUME server'.at = "publishing", NEW r \in Robots \cap server'.left
      PROVE  r \in DOMAIN B \ Known(dm') /\ server'.plans[r] = B[r]
  <2>1. server.at = "publishing" /\ server'.left \subseteq server.left /\ server'.plans = server.plans
    BY <1>1, <1>3, PublishingIs DEF WaveSent, Solve
  <2>2. r \in DOMAIN B \ Known(dm) /\ server'.plans[r] = B[r] /\ r \in server.left
    BY <1>3, <2>1 DEF PlansOfWave
  <2>3. ~(1 \in Coming /\ r = message_queue[1].robot)
    BY <1>1, <2>1, <2>2 DEF OrderInv, OnePlanEach
  <2> QED BY <1>1, <2>2, <2>3, KnownFrom
<1> QED BY <1>2, <1>3 DEF PlansOfWave

LEMMA PlacesOfWaveKept ==
  ASSUME RouteInv, NEW B, DOMAIN B \subseteq Robots, Known(dm) \subseteq DOMAIN B, PlacesOfWave(B), [Next]_vars
  PROVE  PlacesOfWave(B)'
<1>1. Known(dm) \subseteq Known(dm') /\ \A r \in Robots \ Known(dm) : at'[r] = at[r]
  BY WayKept
<1>2. \A r \in DOMAIN B \ Known(dm') : at'[r] = WaypointAt(B[r], 0).name
  BY <1>1 DEF PlacesOfWave
<1>3. ASSUME NEW r \in Robots \ DOMAIN B, NEW s \in Robots \ {r}
      PROVE  Apart(B, r, s)'
  <2>1. Apart(B, r, s) /\ at'[r] = at[r] /\ (s \notin DOMAIN B => at'[s] = at[s])
    BY <1>1 DEF PlacesOfWave
  <2> QED BY <2>1 DEF Apart
<1> QED BY <1>2, <1>3 DEF PlacesOfWave

LEMMA PlannedKept ==
  ASSUME TasksOfOneRobot, ~Ros, RouteInv, NEW B, PlannedAs(B), [Next]_vars
  PROVE  PlannedAs(B)'
<1>1. /\ IsBatch(B) /\ InWave(B, dm) /\ WaveSent /\ PlansOfWave(B) /\ PlacesOfWave(B)
      /\ FitInv /\ PlansInv /\ TasksAsked
  BY DEF PlannedAs, RouteInv, FitInv, FreshInv
<1>2. DOMAIN B \subseteq Robots /\ Known(dm) \subseteq DOMAIN B
  BY <1>1 DEF IsBatch, InWave, OnPlansOf
<1>3. InWave(B, dm')
  BY <1>1, InWaveKept
<1>4. WaveSent' /\ PlansOfWave(B)' /\ PlacesOfWave(B)'
  BY <1>1, <1>2, WaveSentKept, PlansOfWaveKept, PlacesOfWaveKept
<1> QED BY <1>1, <1>3, <1>4 DEF PlannedAs

-----------------------------------------------------------------------------
(* A client that asks once, and how its robots come by their plans.          *)

\* A client that announces every robot where it stands, each at a place of its
\* own, and then asks for tasks once.
OneWave(s) ==
  /\ s.starts \in [Robots -> Locations]
  /\ \A r, q \in Robots : s.starts[r] = s.starts[q] => r = q
  /\ \A n \in DOMAIN s.script :
       \/ /\ s.script[n].type = "onboard_server" /\ s.script[n].robot \in Robots
          /\ s.script[n].location = s.starts[s.script[n].robot]
       \/ s.script[n].type = "onboard_executor"
       \/ s.script[n].type = "tasks" /\ n = Len(s.script)
  /\ \A r \in Robots : \E n \in DOMAIN s.script :
       s.script[n].type = "onboard_server" /\ s.script[n].robot = r

OneWaves == \A s \in Scenarios : OneWave(s)

\* What the client has done: until it has asked, the server has nothing to do.
AnnouncedTo(n) ==
  scenario.script[n].type = "onboard_server" => scenario.script[n].robot \in DOMAIN context
ClientInv ==
  /\ sent \in Nat /\ sent <= Len(scenario.script)
  /\ participants["server"] = {}
  /\ DOMAIN context \subseteq Robots
  /\ \A n \in 1 .. sent : AnnouncedTo(n)
  /\ sent < Len(scenario.script) => task_request_queue = <<>> /\ server = Idle
  /\ server # Idle => task_request_queue = <<>>

LEMMA ServerRests ==
  ASSUME ~Ros, server = Idle, [Next]_vars
  PROVE  UNCHANGED server \/ ServerBatch
<1>1. CASE Client
  BY <1>1 DEF Client, SendTasks, OnboardAtServer, OnboardAtExecutor, Discovery,
              OnTaskRequests, AddRobot, serverVars
<1>2. CASE ServerInternal \/ ServerTimeout \/ \E r \in Robots : ServerPublish(r)
  BY <1>2 DEF ServerInternal, ServerTimeout, ServerPublish, PublishPlan, WaitTimesOut, TakeResponse,
              AssignPlanIds, Solve, SupersedeTasks, RecordBatch, Idle
<1>3. CASE ServerCallback
  BY <1>3 DEF ServerCallback, ServerProgress, ServerRecordsEnd, ServerScanFails, OnProgress,
              ScanEnds, Complete, ScanFails
<1>4. CASE ExecutorWorker \/ \E r \in Robots : RobotArrives(r)
  BY <1>4 DEF ExecutorWorker, ExecutorPlan, ExecutorReached, ExecutorRequest, RobotArrives, serverVars
<1>5. CASE UNCHANGED vars
  BY <1>5 DEF vars, serverVars
<1> QED BY <1>1, <1>2, <1>3, <1>4, <1>5 DEF Next, ServerWorker

\* What the client does next.
LEMMA ClientGoesOn ==
  ASSUME TasksOfOneRobot, OneWaves, ~Ros, TasksAsked, ClientInv, ~HasExecutingAgents, Client
  PROVE  /\ sent' = sent + 1 /\ sent' <= Len(scenario.script)
         /\ UNCHANGED <<participants, server, scenario>>
         /\ sent' < Len(scenario.script) => UNCHANGED task_request_queue
         /\ \/ UNCHANGED context /\ Item.type # "onboard_server"
            \/ OnboardAtServer /\ Item.type = "onboard_server" /\ Item.robot \in Robots
               /\ context' = Initialised(Item.robot, Item.location)
               /\ Item.location = scenario.starts[Item.robot]
<1>1. /\ Len(scenario.script) \in Nat /\ DOMAIN scenario.script = 1 .. Len(scenario.script)
      /\ OneWave(scenario) /\ sent \in Nat
  BY JoinedIs DEF TasksOfOneRobot, TasksAsked, OneWaves
<1>2. sent < Len(scenario.script) /\ scenario' = scenario
  BY DEF Client, SendTasks, OnboardAtServer, OnboardAtExecutor, Discovery, NextOnScript
<1>3. sent + 1 \in DOMAIN scenario.script /\ Item = scenario.script[sent + 1] /\ sent + 1 <= Len(scenario.script)
  BY <1>1, <1>2 DEF Item
<1>4. \/ /\ Item.type = "onboard_server" /\ Item.robot \in Robots
         /\ Item.location = scenario.starts[Item.robot]
      \/ Item.type = "onboard_executor"
      \/ Item.type = "tasks" /\ sent + 1 = Len(scenario.script)
  BY <1>1, <1>3 DEF OneWave
<1>5. CASE SendTasks
  <2>1. Item.type = "tasks" /\ sent' = sent + 1 /\ UNCHANGED <<participants, server, context>>
    BY <1>5 DEF SendTasks, NextOnScript, Item, OnTaskRequests, transportVars
  <2>2. ~(sent' < Len(scenario.script))
    BY <1>1, <1>4, <2>1
  <2> QED BY <1>2, <1>3, <2>1, <2>2
<1>6. CASE OnboardAtServer
  <2>1. Item.type = "onboard_server" /\ participants' = participants
    BY <1>6 DEF OnboardAtServer, NextOnScript, Item, Onboard
  <2>2. sent' = sent + 1 /\ AddRobot(Item.robot, Item.location)
    BY <1>6 DEF OnboardAtServer, ClientInv
  <2>3. context' = Initialised(Item.robot, Item.location) /\ UNCHANGED <<server, task_request_queue>>
    BY <2>2 DEF AddRobot
  <2>4. Item.robot \in Robots /\ Item.location = scenario.starts[Item.robot]
    BY <1>4, <2>1
  <2> QED BY <1>2, <1>3, <1>6, <2>1, <2>2, <2>3, <2>4
<1>7. CASE OnboardAtExecutor
  <2>1. /\ Item.type = "onboard_executor" /\ sent' = sent + 1
        /\ UNCHANGED <<participants, server, context, task_request_queue>>
    BY <1>7 DEF OnboardAtExecutor, NextOnScript, Item, Onboard, serverVars
  <2> QED BY <1>2, <1>3, <2>1
<1>8. CASE Discovery
  BY <1>4, <1>8 DEF Discovery, NextOnScript, Item
<1> QED BY <1>5, <1>6, <1>7, <1>8 DEF Client

LEMMA ClientInvKept ==
  ASSUME TasksOfOneRobot, OneWaves, ~Ros, TasksAsked, ClientInv,
         sent < Len(scenario.script) => ~HasExecutingAgents, Entries, [Next]_vars
  PROVE  ClientInv'
<1>1. Len(scenario.script) \in Nat /\ sent \in Nat /\ scenario' = scenario
  BY JoinedIs, ScenarioStays DEF TasksOfOneRobot, TasksAsked
<1>2. DOMAIN context \subseteq DOMAIN context'
  BY EntrySteps
<1>3. CASE Client
  <2>1. sent < Len(scenario.script) /\ server = Idle /\ task_request_queue = <<>>
    <3>1. sent < Len(scenario.script)
      BY <1>3 DEF Client, SendTasks, OnboardAtServer, OnboardAtExecutor, Discovery, NextOnScript
    <3> QED BY <3>1 DEF ClientInv
  <2>2. /\ sent' = sent + 1 /\ sent' <= Len(scenario.script)
        /\ UNCHANGED <<participants, server, scenario>>
        /\ sent' < Len(scenario.script) => UNCHANGED task_request_queue
        /\ \/ UNCHANGED context /\ Item.type # "onboard_server"
           \/ Item.type = "onboard_server" /\ Item.robot \in Robots
              /\ context' = Initialised(Item.robot, Item.location)
    BY <1>3, <2>1, ClientGoesOn
  <2>3. DOMAIN context' \subseteq Robots /\ (Item.type = "onboard_server" => Item.robot \in DOMAIN context')
    BY <2>2 DEF Initialised, ClientInv
  <2>4. ASSUME NEW n \in 1 .. sent' PROVE AnnouncedTo(n)'
    <3>1. n \in 1 .. sent \/ n = sent + 1
      BY <1>1, <2>2
    <3>2. CASE n \in 1 .. sent
      BY <1>1, <1>2, <3>2 DEF ClientInv, AnnouncedTo
    <3>3. CASE n = sent + 1
      BY <1>1, <2>3, <3>3 DEF AnnouncedTo, Item
    <3> QED BY <3>1, <3>2, <3>3
  <2> QED BY <1>1, <2>1, <2>2, <2>3, <2>4 DEF ClientInv
<1>4. CASE UNCHANGED <<sent, participants>> /\ ~Client
  <2>1. UNCHANGED task_request_queue \/ (ServerBatch /\ task_request_queue' = <<>>)
    BY <1>4, RequestSteps
  <2>2. \/ UNCHANGED context
        \/ RecordBatch
        \/ Complete
    BY <1>4, ContextSteps DEF Client
  <2>3. DOMAIN context' = DOMAIN context
    BY <2>2 DEF RecordBatch, Complete
  <2>4. server = Idle => UNCHANGED server \/ ServerBatch
    BY ServerRests
  <2>5. ServerBatch => task_request_queue # <<>> /\ task_request_queue' = <<>> /\ server = Idle
    BY DEF ServerBatch, ProcessBatch
  <2>6. \A n \in 1 .. sent : AnnouncedTo(n)'
    BY <1>1, <2>3 DEF ClientInv, AnnouncedTo
  <2>7. sent' < Len(scenario'.script) => task_request_queue' = <<>> /\ server' = Idle
    BY <1>1, <1>4, <2>1, <2>4, <2>5 DEF ClientInv
  <2>8. server' # Idle => task_request_queue' = <<>>
    BY <2>1, <2>4, <2>5 DEF ClientInv
  <2> QED BY <1>1, <1>4, <2>3, <2>6, <2>7, <2>8 DEF ClientInv
<1> QED BY <1>3, <1>4, RequestSteps

\* Until the wave is planned, all robots stand where they started.
AnswersOfNone ==
  /\ \A n \in DOMAIN responses : responses[n].stationary_agents = {}
  /\ server.at \in {"solving", "identified"} => server.stationary = {}
NobodyExecutes == \A r \in DOMAIN context : context[r].status # "EXECUTING"
Unplanned ==
  /\ Known(dm) = {} /\ Coming = {}
  /\ \A r \in Robots : at[r] = scenario.starts[r]
  /\ server.at \notin {"publishing", "recording"}
  /\ AnswersOfNone
  /\ NobodyExecutes

\* An answer names no stationary agents when no robot is known.
LEMMA NoneIsStationary ==
  ASSUME Sound(dm), Known(dm) = {}, ~CommitCutFails(dm)
  PROVE  StationaryAgents(ComputeCommitCut(dm)) = {}
<1>1. Known(ComputeCommitCut(dm)) = {}
  BY CutIsSound
<1> QED BY <1>1 DEF StationaryAgents

LEMMA AnswersOfNoneKept ==
  ASSUME PlansInv, Known(dm) = {}, AnswersOfNone, [Next]_vars
  PROVE  AnswersOfNone'
<1>1. CASE UNCHANGED responses /\ (UNCHANGED server \/ server'.at \notin {"solving", "identified"})
  BY <1>1 DEF AnswersOfNone
<1>2. IsSequence(responses)
  BY DEF PlansInv, AnswersInv, QueuesTyped
<1>3. CASE TakeResponse
  <2>1. /\ responses # <<>> /\ responses' = Tail(responses) /\ server.at = "waiting"
        /\ server' = server \/ (server'.at = "solving" /\ server'.stationary = Head(responses).stationary_agents)
    BY <1>3 DEF TakeResponse
  <2>2. /\ 1 \in DOMAIN responses /\ Head(responses) = responses[1]
        /\ \A n \in DOMAIN Tail(responses) : \E m \in DOMAIN responses : Tail(responses)[n] = responses[m]
    BY <1>2, <2>1, TakenOut
  <2>3. \A n \in DOMAIN responses' : responses'[n].stationary_agents = {}
    BY <2>1, <2>2 DEF AnswersOfNone
  <2>4. server'.at \in {"solving", "identified"} => server'.stationary = {}
    BY <2>1, <2>2 DEF AnswersOfNone
  <2> QED BY <2>3, <2>4 DEF AnswersOfNone
<1>4. CASE AssignPlanIds
  <2>1. responses' = responses /\ server'.stationary = server.stationary \ DOMAIN server.tasks
        /\ server.at = "solving"
    BY <1>4 DEF AssignPlanIds
  <2> QED BY <2>1 DEF AnswersOfNone
<1>5. CASE ExecutorRequest
  <2>1. server' = server
    BY <1>5 DEF ExecutorRequest
  <2>2. CASE CommitCutFails(dm)
    BY <1>5, <2>1, <2>2 DEF ExecutorRequest, AnswersOfNone
  <2>3. CASE ~CommitCutFails(dm)
    <3> DEFINE answer == CommittedLocationsResponse(Head(message_queue).request_id)
               given == [answer EXCEPT !.committed_locations = CarriedLocations(@)]
    <3>1. responses' = Append(responses, given)
      BY <1>5, <2>3 DEF ExecutorRequest
    <3>2. given.stationary_agents = {}
      BY <2>3, NoneIsStationary DEF CommittedLocationsResponse, PlansInv
    <3> HIDE DEF given
    <3>3. \A n \in DOMAIN Append(responses, given) :
            \/ \E m \in DOMAIN responses : Append(responses, given)[n] = responses[m]
            \/ Append(responses, given)[n] = given
      BY <1>2, PutOne
    <3> QED BY <2>1, <3>1, <3>2, <3>3 DEF AnswersOfNone
  <2> QED BY <2>2, <2>3
<1> QED BY <1>1, <1>3, <1>4, <1>5, AnswerSteps

LEMMA NobodyExecutesKept ==
  ASSUME KnownReports, Known(dm) = {}, server.at # "recording", Entries, NobodyExecutes, [Next]_vars
  PROVE  NobodyExecutes'
<1>1. callback.at # "completing"
  BY DEF KnownReports, Recording
<1>2. UNCHANGED context \/ (OnboardAtServer /\ context' = Initialised(Item.robot, Item.location))
  BY <1>1, ContextSteps DEF RecordBatch, Complete
<1>3. CASE UNCHANGED context
  BY <1>3 DEF NobodyExecutes
<1>4. ASSUME context' = Initialised(Item.robot, Item.location), NEW r \in DOMAIN context'
      PROVE  context'[r].status # "EXECUTING"
  <2>1. CASE r \in DOMAIN context
    <3>1. context'[r].status = context[r].status
      BY <1>4, <2>1 DEF Initialised, Entries, EntryFields
    <3> QED BY <2>1, <3>1 DEF NobodyExecutes
  <2>2. CASE r \notin DOMAIN context
    <3>1. r = Item.robot /\ context'[r].status = "IDLE"
      BY <1>4, <2>2 DEF Initialised
    <3> QED BY <3>1
  <2> QED BY <2>1, <2>2
<1> QED BY <1>2, <1>3, <1>4 DEF NobodyExecutes

LEMMA UnplannedKept ==
  ASSUME ~Ros, RouteInv, Unplanned, [Next]_vars
  PROVE  Unplanned' \/ (Solve /\ server'.at = "publishing")
<1>1. PlansInv /\ KnownReports /\ DeliveredOnce
  BY DEF RouteInv, FitInv, FreshInv
<1>2. Known(dm') = {}
  BY <1>1, KnownFrom DEF Unplanned
<1>3. Coming' = {}
  BY <1>1, ComingIs DEF Unplanned
<1>4. \A r \in Robots : at'[r] = scenario'.starts[r]
  BY WayKept, ScenarioStays DEF Unplanned
<1>5. ASSUME ~(Solve /\ server'.at = "publishing") PROVE server'.at \notin {"publishing", "recording"}
  <2>1. server'.at # "publishing"
    BY <1>1, <1>5, PublishingIs DEF Unplanned
  <2>2. CASE UNCHANGED server \/ server' \in {Idle, Dead}
    BY <2>2 DEF Unplanned, Idle, Dead
  <2>3. CASE ProcessBatch \/ TakeResponse \/ AssignPlanIds
    BY <2>3 DEF ProcessBatch, TakeResponse, AssignPlanIds, Unplanned
  <2>4. CASE Solve
    <3>1. \/ server' = Idle
          \/ server' = Dead
          \/ \E a, b, c, d, e :
               server' = [ at |-> "publishing", tasks |-> a, committed |-> b, plan_ids |-> c,
                           plans |-> d, left |-> e ]
      BY <2>4 DEF Solve, BatchFails
    <3> QED BY <2>1, <3>1 DEF Idle, Dead
  <2>5. ~SupersedeTasks /\ ~\E r \in Robots : ServerPublish(r)
    BY DEF SupersedeTasks, ServerPublish, PublishPlan, Unplanned
  <2> QED BY <2>1, <2>2, <2>3, <2>4, <2>5, ServerSteps
<1>6. AnswersOfNone'
  BY <1>1, AnswersOfNoneKept DEF Unplanned
<1>7. NobodyExecutes'
  BY <1>1, NobodyExecutesKept DEF Unplanned, RouteInv, Entries
<1> QED BY <1>2, <1>3, <1>4, <1>5, <1>6, <1>7 DEF Unplanned

\* What the theorem below needs of the solver besides: its paths are a solution.
SolverSolves ==
  \A starts, goals, obstacles : \A paths \in Solver(starts, goals, obstacles) :
    paths \in [DOMAIN starts -> Seq(Locations)] /\ ConflictFree(paths)

\* When the wave is planned, all robots have been announced.
LEMMA AllAnnounced ==
  ASSUME TasksOfOneRobot, OneWaves, TasksAsked, ClientInv, server # Idle
  PROVE  /\ sent = Len(scenario.script) /\ task_request_queue = <<>>
         /\ DOMAIN context = Robots
<1>1. /\ Len(scenario.script) \in Nat /\ DOMAIN scenario.script = 1 .. Len(scenario.script)
      /\ OneWave(scenario)
  BY JoinedIs DEF TasksOfOneRobot, TasksAsked, OneWaves
<1>2. sent = Len(scenario.script)
  BY <1>1 DEF ClientInv
<1>3. ASSUME NEW r \in Robots PROVE r \in DOMAIN context
  <2>1. PICK n \in 1 .. sent : scenario.script[n].type = "onboard_server" /\ scenario.script[n].robot = r
    BY <1>1, <1>2 DEF OneWave
  <2> QED BY <2>1 DEF ClientInv, AnnouncedTo
<1> QED BY <1>2, <1>3 DEF ClientInv

LEMMA SolveIsInternal ==
  ASSUME [Next]_vars, server.at = "identified", server'.at = "publishing"
  PROVE  UNCHANGED <<dm, message_queue, pending, at, alive, scenario, sent, task_request_queue, context>>
<1>1. server' # server
  OBVIOUS
<1>2. ~Client
  BY <1>1 DEF Client, SendTasks, OnboardAtServer, OnboardAtExecutor, Discovery,
              OnTaskRequests, AddRobot, Dead, serverVars
<1>3. ~ServerBatch /\ ~ServerTimeout /\ ~\E r \in Robots : ServerPublish(r)
  BY DEF ServerBatch, ProcessBatch, ServerTimeout, WaitTimesOut, ServerPublish, PublishPlan, Idle
<1>4. ~ServerCallback
  BY <1>1 DEF ServerCallback, ServerProgress, ServerRecordsEnd, ServerScanFails, OnProgress,
              ScanEnds, Complete, ScanFails
<1>5. ~ExecutorWorker /\ ~\E r \in Robots : RobotArrives(r)
  BY <1>1 DEF ExecutorWorker, ExecutorPlan, ExecutorReached, ExecutorRequest, RobotArrives, serverVars
<1>6. ~UNCHANGED vars
  BY <1>1 DEF vars, serverVars
<1>7. ServerInternal
  BY <1>2, <1>3, <1>4, <1>5, <1>6 DEF Next, ServerWorker
<1>8. ~RecordBatch /\ ~TakeResponse /\ ~AssignPlanIds /\ ~SupersedeTasks
  BY DEF RecordBatch, TakeResponse, AssignPlanIds, SupersedeTasks
<1> QED BY <1>7, <1>8 DEF ServerInternal, Solve, executorVars, systemVars

LEMMA SolutionOfWave ==
  ASSUME SolverReturnsPaths, PathsStartAtStarts, SolverSolves, TasksOfOneRobot, OneWaves,
         RouteInv, ClientInv, Unplanned, Solve, server'.at = "publishing"
  PROVE  \E paths \in Paths :
           /\ ConflictFree(paths)
           /\ \A r \in Robots : paths[r][1] = at[r]
           /\ server'.plans = Generate(paths, server.plan_ids, [r \in Robots |-> 0])
           /\ server'.left = DOMAIN server'.plans
<1> DEFINE Offsets(paths) == [r \in DOMAIN paths |-> OffsetOf(server.committed, r)]
           Plans(paths) == Generate(paths, server.plan_ids, Offsets(paths))
<1>1. PICK paths \in Solutions(server.tasks, server.committed, server.stationary) :
        server'.plans = Plans(paths) /\ server'.left = DOMAIN Plans(paths)
  <2>1. Idle.at # "publishing" /\ Dead.at # "publishing"
    BY DEF Idle, Dead
  <2>2. PICK paths \in Solutions(server.tasks, server.committed, server.stationary) :
          server' = [ at |-> "publishing", tasks |-> server.tasks,
                      committed |-> server.committed, plan_ids |-> server.plan_ids,
                      plans |-> Plans(paths), left |-> DOMAIN Plans(paths) ]
    BY <2>1 DEF Solve, BatchFails
  <2> HIDE DEF Plans
  <2> QED BY <2>2
<1>2. server.at = "identified" /\ server # Idle /\ TasksAsked
  BY DEF Solve, Idle, RouteInv, FitInv, FreshInv
<1>3. DOMAIN context = Robots
  BY <1>2, AllAnnounced
<1>4. server.stationary = {} /\ DOMAIN server.committed = {}
  BY <1>2 DEF Unplanned, AnswersOfNone, RouteInv, FitInv, AnswersMeasured, Measured
<1>5. \A r \in Robots : StartOf(server.committed, r) = at[r] /\ OffsetOf(server.committed, r) = 0
  <2>1. \A r \in Robots : context[r].start_location = at[r]
    BY <1>3 DEF RouteInv, Unplanned
  <2> QED BY <1>4, <2>1 DEF StartOf, OffsetOf
<1>6. paths \in [Robots -> Seq(Locations)] /\ ConflictFree(paths) /\ \A r \in Robots : paths[r] # <<>> /\ paths[r][1] = at[r]
  <2> DEFINE agents == Agents(server.stationary)
             starts == [r \in agents |-> StartOf(server.committed, r)]
             goals == [r \in agents |-> GoalOf(server.tasks, r)]
  <2>1. paths \in Solver(starts, goals, Obstacles(server.stationary))
    BY DEF Solutions
  <2>2. DOMAIN starts = Robots
    BY <1>3, <1>4 DEF Agents
  <2>3. \A r \in Robots : starts[r] = at[r]
    BY <1>5, <2>2
  <2> HIDE DEF starts, goals, agents
  <2>4. paths \in [Robots -> Seq(Locations)] /\ ConflictFree(paths)
    BY <2>1, <2>2 DEF SolverSolves
  <2>5. \A r \in Robots : paths[r] # <<>>
    BY <2>1, <2>2 DEF SolverReturnsPaths
  <2>6. \A r \in Robots : paths[r][1] = starts[r]
    BY <2>1, <2>2 DEF PathsStartAtStarts
  <2> QED BY <2>3, <2>4, <2>5, <2>6
<1>7. paths \in Paths
  BY <1>6 DEF Paths
<1>8. Offsets(paths) = [r \in Robots |-> 0]
  BY <1>5, <1>6
<1>9. server'.plans = Generate(paths, server.plan_ids, [r \in Robots |-> 0])
  BY <1>1, <1>8
<1>10. server'.left = DOMAIN server'.plans
  BY <1>1
<1> QED BY <1>6, <1>7, <1>9, <1>10

\* The plans of a solution, and where robots stand that get one or get none.
LEMMA GeneratedBatch ==
  ASSUME IsFiniteSet(Robots), NEW ps \in Paths, ConflictFree(ps), 
         NEW ids, NEW offset \in [Robots -> Int], NEW g, g = Generate(ps, ids, offset),
         \A r \in DOMAIN g : WellFormed(g[r]),
         \A r, s \in DOMAIN g : ids[r] = ids[s] => r = s
  PROVE  IsBatch(g)
<1>2. \A r \in Robots : offset[r] \in Int
  OBVIOUS
<1>3. \A r \in DOMAIN g : r \in Robots /\ g[r].plan_id = ids[r]
  BY GeneratedFields
<1>4. ASSUME NEW r \in DOMAIN g, NEW k \in Indices(g[r]), NEW x \in WaypointAt(g[r], k).departure_blockers
      PROVE  x.required_progress \in Int
  <2>1. PICK i \in DOMAIN g \ {r} : \E m \in Indices(g[i]) : x.required_progress = m + offset[i]
    BY BlockerFields
  <2>2. PICK m \in Indices(g[i]) : x.required_progress = m + offset[i]
    BY <2>1
  <2>3. m \in Int
    <3>1. Indices(g[i]) = 0 .. Len(ps[i]) - 1
      BY GeneratedFields
    <3> QED BY <3>1
  <2>4. offset[i] \in Int
    BY <1>2, <1>3
  <2> QED BY <2>2, <2>3, <2>4
<1>5. \A r \in DOMAIN g : ProgressIncreases(g[r])
  BY GeneratedProgress
<1>6. VisitsOrdered(g)
  BY GeneratedVisits
<1>7. Attainable(g)
  BY GeneratedAttainable
<1>8. \A r, s \in DOMAIN g : g[r].plan_id = g[s].plan_id => r = s
  BY <1>3
<1> QED BY <1>3, <1>4, <1>5, <1>6, <1>7, <1>8 DEF IsBatch

LEMMA AtMostOne ==
  ASSUME NEW n \in Nat, n >= 1, ~(n > 1)
  PROVE  n = 1
OBVIOUS

LEMMA GeneratedPlaces ==
  ASSUME IsFiniteSet(Robots), NEW ps \in Paths, ConflictFree(ps), 
         NEW ids, NEW offset \in [Robots -> Int], NEW g, g = Generate(ps, ids, offset),
         \A r \in Robots : ps[r][1] = at[r]
  PROVE  PlacesOfWave(g)
<1>2. \A r \in Robots : Len(ps[r]) \in Nat /\ Len(ps[r]) >= 1
  BY PathFields
<1>3. ASSUME NEW r \in Robots, r \notin DOMAIN g PROVE Len(ps[r]) = 1
  <2>1. DOMAIN g = {s \in Robots : Len(ps[s]) > 1}
    BY GeneratedIs
  <2>2. ~(Len(ps[r]) > 1)
    BY <1>3, <2>1
  <2>3. Len(ps[r]) \in Nat /\ Len(ps[r]) >= 1
    BY <1>2
  <2> QED BY <2>2, <2>3, AtMostOne, Zenon
<1>4. ASSUME NEW r \in DOMAIN g PROVE at[r] = WaypointAt(g[r], 0).name
  <2>1. r \in Robots /\ 0 \in 0 .. Len(ps[r]) - 1
    BY GeneratedFields
  <2>2. WaypointAt(g[r], 0).name = ps[r][0 + 1]
    BY <2>1, GeneratedFields
  <2> QED BY <2>1, <2>2
<1>5. ASSUME NEW r \in Robots \ DOMAIN g, NEW s \in Robots \ {r}
      PROVE  Apart(g, r, s)
  <2>1. Len(ps[r]) = 1 /\ 0 \in 0 .. Len(ps[r]) - 1 /\ ps[r][0 + 1] = at[r]
    BY <1>3
  <2>2. ASSUME NEW b \in 0 .. Len(ps[s]) - 1, ps[s][b + 1] = at[r] PROVE FALSE
    <3>1. ps[r][0 + 1] = ps[s][b + 1] /\ 0 <= b /\ r # s
      BY <1>2, <2>1, <2>2
    <3>2. 0 < Len(ps[r]) - 1
      BY <2>1, <3>1, VisitsApart
    <3> QED BY <2>1, <3>2
  <2>3. CASE s \in DOMAIN g
    <3>1. Indices(g[s]) = 0 .. Len(ps[s]) - 1
      BY <2>3, GeneratedFields
    <3>2. \A k \in 0 .. Len(ps[s]) - 1 : WaypointAt(g[s], k).name = ps[s][k + 1]
      BY <2>3, GeneratedFields
    <3> QED BY <2>2, <2>3, <3>1, <3>2 DEF Apart
  <2>4. CASE s \notin DOMAIN g
    <3>1. 0 \in 0 .. Len(ps[s]) - 1 /\ ps[s][0 + 1] = at[s]
      BY <1>2
    <3> QED BY <2>2, <2>4, <3>1 DEF Apart
  <2> QED BY <2>3, <2>4
<1> QED BY <1>4, <1>5 DEF PlacesOfWave

\* The wave is planned: its plans are those of a solution from the starts.
LEMMA WaveIsPlanned ==
  ASSUME SolverReturnsPaths, PathsStartAtStarts, SolverSolves, TasksOfOneRobot, OneWaves,
         IsFiniteSet(Robots), RouteInv, ClientInv, Unplanned,
         [Next]_vars, Solve, server'.at = "publishing"
  PROVE  \E B : PlannedAs(B)'
<1>1. PlansInv /\ TasksAsked /\ DueIsNew
  BY DEF RouteInv, FitInv, FreshInv, IdsInv
<1>2. /\ server.at = "identified" /\ server'.left \subseteq DOMAIN server.tasks
      /\ \A r \in server'.left : server'.plans[r].plan_id = server.plan_ids[r]
  BY <1>1, SolutionIsNamed
<1>3. UNCHANGED <<dm, message_queue, pending, at, alive, scenario, sent, task_request_queue, context>>
  BY <1>2, SolveIsInternal
<1>4. PICK ps \in Paths :
        /\ ConflictFree(ps)
        /\ \A r \in Robots : ps[r][1] = at[r]
        /\ server'.plans = Generate(ps, server.plan_ids, [r \in Robots |-> 0])
        /\ server'.left = DOMAIN server'.plans
  BY SolutionOfWave
<1>5. PICK offset \in [Robots -> Int] : server'.plans = Generate(ps, server.plan_ids, offset)
  <2>1. [r \in Robots |-> 0] \in [Robots -> Int]
    OBVIOUS
  <2> QED BY <1>4, <2>1, Zenon
<1>6. PICK B : B = server'.plans
  OBVIOUS
<1>7. \A r \in DOMAIN B : /\ WellFormed(B[r]) /\ B[r].plan_id = server.plan_ids[r]
                          /\ server.plan_ids[r] \notin Held
  <2>1. Due = DOMAIN server.tasks
    BY <1>2 DEF Due
  <2>2. \A r \in server'.left : WellFormed(server'.plans[r])
    BY <1>1, SolutionIsLeaving
  <2> QED BY <1>1, <1>2, <1>4, <1>6, <2>1, <2>2 DEF DueIsNew
<1>8. \A r, s \in DOMAIN B : server.plan_ids[r] = server.plan_ids[s] => r = s
  <2>1. Due = DOMAIN server.tasks
    BY <1>2 DEF Due
  <2> QED BY <1>1, <1>2, <1>4, <1>6, <2>1 DEF DueIsNew
<1>9. B = Generate(ps, server.plan_ids, offset) /\ \A r \in DOMAIN B : WellFormed(B[r])
  BY <1>5, <1>6, <1>7
<1>10. IsBatch(B)
  BY <1>4, <1>8, <1>9, GeneratedBatch
<1>11. PlacesOfWave(B)'
  <2>1. PlacesOfWave(B)
    BY <1>4, <1>9, GeneratedPlaces
  <2> QED BY <1>3, <2>1 DEF PlacesOfWave, Apart
<1>12. InWave(B, dm)
  <2>1. Known(dm) = {}
    BY DEF Unplanned
  <2>2. \A r \in DOMAIN B : B[r].plan_id \notin dm.completed_plan_ids
    BY <1>7 DEF Held, Executed
  <2> QED BY <2>1, <2>2 DEF InWave, OnPlansOf, AtEndIn, WaveVisitsInOrder
<1>13. InWave(B, dm')
  BY <1>3, <1>12
<1>14. WaveSent'
  <2>1. server # Idle
    BY <1>2 DEF Idle
  <2>2. sent = Len(scenario.script) /\ task_request_queue = <<>>
    BY <1>1, <2>1, AllAnnounced
  <2> QED BY <1>3, <2>2 DEF WaveSent
<1>15. PlansOfWave(B)'
  <2>1. Coming' = {} /\ Known(dm') = {}
    BY <1>3 DEF Unplanned, Coming
  <2> QED BY <1>4, <1>6, <2>1 DEF PlansOfWave
<1> QED BY <1>10, <1>11, <1>13, <1>14, <1>15 DEF PlannedAs

\* From where they are announced, robots go on the plans of the wave.
Planned == \E B : PlannedAs(B)
WaveInv == RouteInv /\ ClientInv /\ (Unplanned \/ Planned)

LEMMA WaveAnnounces ==
  ASSUME TasksOfOneRobot, OneWaves, ~Ros, WaveInv, [Next]_vars
  PROVE  AnnouncedInPlace /\ (sent < Len(scenario.script) => ~HasExecutingAgents)
<1>1. TasksAsked /\ ClientInv /\ Entries
  BY DEF WaveInv, RouteInv, FitInv, FreshInv, Entries
<1>2. CASE Unplanned
  <2>1. ~HasExecutingAgents
    BY <1>2 DEF Unplanned, NobodyExecutes, HasExecutingAgents
  <2>2. OnboardAtServer => Item.location = scenario.starts[Item.robot] /\ Item.robot \in Robots
    <3>1. OnboardAtServer => Client /\ Item.type = "onboard_server"
      BY DEF OnboardAtServer, Client, NextOnScript, Item
    <3> QED BY <1>1, <2>1, <3>1, ClientGoesOn
  <2> QED BY <1>2, <2>1, <2>2 DEF Unplanned, AnnouncedInPlace
<1>3. CASE Planned
  <2>1. sent = Len(scenario.script)
    BY <1>3 DEF Planned, PlannedAs, WaveSent
  <2>2. ~OnboardAtServer
    BY <1>1, <2>1, ClientIsDone DEF Client
  <2>3. ~(sent < Len(scenario.script))
    BY <1>1, <2>1 DEF TasksAsked
  <2> QED BY <2>2, <2>3 DEF AnnouncedInPlace
<1> QED BY <1>2, <1>3 DEF WaveInv

LEMMA WaveNext ==
  ASSUME SolverReturnsPaths, PathsStartAtStarts, PathsFollowMap, SolverSolves, TasksOfOneRobot,
         OneWaves, IsFiniteSet(Robots), ~Ros, WaveInv, [Next]_vars, FitInv'
  PROVE  WaveInv'
<1>1. RouteInv /\ ClientInv /\ TasksAsked /\ Entries
  BY DEF WaveInv, RouteInv, FitInv, FreshInv, Entries
<1>2. AnnouncedInPlace /\ (sent < Len(scenario.script) => ~HasExecutingAgents)
  BY WaveAnnounces
<1>3. RouteInv'
  BY <1>1, <1>2, RouteNext
<1>4. ClientInv'
  BY <1>1, <1>2, ClientInvKept
<1>5. CASE Unplanned
  <2>1. ASSUME Solve, server'.at = "publishing" PROVE \E B : PlannedAs(B)'
    BY <1>1, <1>5, <2>1, WaveIsPlanned
  <2>2. Unplanned' \/ (Solve /\ server'.at = "publishing")
    BY <1>1, <1>5, UnplannedKept
  <2> QED BY <1>3, <1>4, <2>1, <2>2 DEF WaveInv, Planned
<1>6. CASE Planned
  <2>1. PICK B : PlannedAs(B)
    BY <1>6 DEF Planned
  <2>2. PlannedAs(B)'
    BY <1>1, <2>1, PlannedKept
  <2> QED BY <2>2, <1>3, <1>4 DEF WaveInv, Planned
<1> QED BY <1>5, <1>6 DEF WaveInv

\* In a single wave the robots never collide (the purpose of the traffic
\* dependencies, dependency_manager.py and plan_generator.py): no two of them
\* are, or are sent, where the other one is or is sent.  The client announces
\* every robot where it stands, each in a place of its own, and asks once; the
\* solver returns a solution along the map.
THEOREM OneWaveIsCollisionFree ==
  ASSUME SolverReturnsPaths, PathsStartAtStarts, PathsFollowMap, SolverSolves,
         TasksOfOneRobot, OneWaves, IsFiniteSet(Robots), ~Ros
  PROVE  Spec => []NoCollision
<1>1. Init /\ FitInv => WaveInv
  <2> SUFFICES ASSUME Init, FitInv PROVE WaveInv
    OBVIOUS
  <2>1. /\ message_queue = <<>> /\ responses = <<>> /\ server = Idle /\ dm = EmptyManager /\ context = <<>>
        /\ task_request_queue = <<>> /\ sent = 0 /\ participants["server"] = {}
        /\ scenario \in Scenarios
    BY DEF Init, ServerInit, ExecutorInit, TransportInit
  <2>2. DOMAIN <<>> = {} /\ Idle.at = "idle"
    BY DEF Idle
  <2>3. Known(dm) = {} /\ Coming = {}
    BY <2>1, <2>2 DEF Known, EmptyManager, Coming
  <2>4. DOMAIN at = Robots /\ \A r \in Robots : at[r] = scenario.starts[r]
    <3>1. DOMAIN scenario.starts = Robots
      BY <2>1 DEF OneWaves, OneWave
    <3> QED BY <3>1 DEF Init, ExecutorInit
  <2>5. RouteInv
    BY <2>1, <2>2, <2>3, <2>4 DEF RouteInv, InOrder
  <2>6. ClientInv
    <3>1. Len(scenario.script) \in Nat
      BY <2>1, JoinedIs DEF TasksOfOneRobot
    <3>2. sent \in Nat /\ sent <= Len(scenario.script) /\ 1 .. sent = {}
      BY <2>1, <3>1
    <3> QED BY <2>1, <2>2, <3>2 DEF ClientInv
  <2>7. Unplanned
    BY <2>1, <2>2, <2>3, <2>4 DEF Unplanned, AnswersOfNone, NobodyExecutes
  <2> QED BY <2>5, <2>6, <2>7 DEF WaveInv
<1>2. WaveInv /\ [Next]_vars /\ FitInv' => WaveInv'
  BY WaveNext
<1>3. WaveInv => NoCollision
  <2> SUFFICES ASSUME WaveInv PROVE NoCollision
    OBVIOUS
  <2>1. RouteInv /\ KnownReports /\ scenario \in Scenarios
    BY DEF WaveInv, RouteInv, FitInv, FreshInv, TasksAsked
  <2>2. CASE Unplanned
    <3>1. OneWave(scenario)
      BY <2>1 DEF OneWaves
    <3> QED BY <2>1, <2>2, <3>1, StartsAreApart DEF Unplanned, OneWave
  <2>3. CASE Planned
    <3>1. PICK B : PlannedAs(B)
      BY <2>3 DEF Planned
    <3> QED BY <2>1, <3>1, WaveIsApart DEF PlannedAs
  <2> QED BY <2>2, <2>3 DEF WaveInv
<1> QED BY <1>1, <1>2, <1>3, FitInvHolds, PTL DEF Spec

=============================================================================
