--------------------------- MODULE DhtQueryProofs ---------------------------
(***************************************************************************)
(* The safety properties of DhtQuery for any number of parallel requests   *)
(* (TLC checks them for two, and the two liveness properties).             *)
(***************************************************************************)
EXTENDS DhtQuery, TLAPS

\* What a task makes of a message is one of three results; a closed channel,
\* and silence, are an error to every query.
LEMMA ReadType ==
  ASSUME NEW k \in Kinds, NEW m, NEW res
  PROVE  /\ Read(m, res) \in {"full", "empty", "error"}
         /\ Read(Closed, ResponseOf[k]) = "error"
         /\ Read(Nothing, ResponseOf[k]) = "error"
<1>1. ResponseOf[k] \notin {"closed", "nothing"}
  BY DEF Kinds, ResponseOf
<1>2. Closed.res = "closed" /\ Nothing.res = "nothing"
  BY DEF Closed, Nothing, Message
<1>3. QED BY <1>1, <1>2 DEF Read

\* Each task takes the response that belongs to the request it sent, whichever
\* of the five queries it is.
LEMMA TaskTakesItsResponse ==
  ASSUME NEW i, TaskStep(i)
  PROVE  RequestTask(i, ResponseOf[kind])
  BY DEF TaskStep, SendGetRequest, SendGetLinksRequest, SendCountLinksRequest,
     SendGetAgentActivityRequest, SendMustGetAgentActivityRequest, ResponseOf

\* Every query ends its loop with data, and only a count with an empty response.
LEMMA QueryEnds ==
  ASSUME QueryStep
  PROVE  \E ends \in SUBSET {"full", "empty"} :
            /\ Query(ends)
            /\ "full" \in ends
            /\ "empty" \in ends => kind = "count_links"
<1>1. CASE Query({"full"})
  BY <1>1
<1>2. CASE kind = "count_links" /\ Query({"full", "empty"})
  BY <1>2
<1>3. QED
  BY <1>1, <1>2 DEF QueryStep, Get, GetLinks, CountLinks, GetAgentActivity,
     MustGetAgentActivity

\* The markers of a channel, and silence, are no replies; what may be said to a
\* query is a reply.
LEMMA RepliesType ==
  /\ Open \notin Replies /\ Closed \notin Replies /\ Nothing \notin Replies
  /\ Open # Closed
  /\ \A k \in Kinds : RepliesTo(k) \subseteq Replies
<1>1. \A r \in Replies : r.res \notin {"open", "closed", "nothing"}
  BY DEF Replies, Message, Kinds, ResponseOf
<1>2. Open.res = "open" /\ Closed.res = "closed" /\ Nothing.res = "nothing"
  BY DEF Open, Closed, Nothing, Message
<1>3. ASSUME NEW k \in Kinds PROVE RepliesTo(k) \subseteq Replies
  <2>1. "GetRes" = ResponseOf["get"] /\ "GetLinksRes" = ResponseOf["get_links"]
        /\ "get" \in Kinds /\ "get_links" \in Kinds
    BY DEF ResponseOf, Kinds
  <2>2. \A j \in Kinds, full \in BOOLEAN : Message(ResponseOf[j], full) \in Replies
    BY DEF Replies, Message
  <2>3. Message("ErrorRes", FALSE) \in Replies
    BY DEF Replies
  <2>4. QED BY <2>1, <2>2, <2>3 DEF RepliesTo
<1>4. QED BY <1>1, <1>2, <1>3

\* The initial state satisfies the invariant.
LEMMA InitIInv == Init => IInv
  BY ParallelAssumption, RepliesType
  DEF Init, IInv, TypeOK, OpenRequestsAreRoutable, PendingHasTimer, RepliesAreSaid,
      LoopIsHonest, AnswerIsFinal, Requests, Results

\* The steps of the query itself leave tasks, timers and the map alone once
\* the tasks are spawned.
LEMMA QueryIInv ==
  ASSUME IInv, QueryStep \/ Cancel
  PROVE  IInv'
<1> USE ParallelAssumption DEF Requests
<1>0. TypeOK BY DEF IInv
<1>1. ASSUME NEW w \in 0..Parallel, Start(w) PROVE IInv'
  <2>1. TypeOK' BY <1>0, <1>1 DEF TypeOK, Start
  <2>2. OpenRequestsAreRoutable' /\ PendingHasTimer'
    BY <1>0, <1>1 DEF IInv, TypeOK, Start, OpenRequestsAreRoutable, PendingHasTimer
  <2>3. RepliesAreSaid'
    BY <1>0, <1>1 DEF IInv, TypeOK, Start, RepliesAreSaid, Said
  <2>4. LoopIsHonest' /\ AnswerIsFinal'
    BY <1>0, <1>1 DEF IInv, TypeOK, Start, LoopIsHonest, AnswerIsFinal
  <2>5. QED BY <2>1, <2>2, <2>3, <2>4 DEF IInv
<1>2. ASSUME UNCHANGED <<kind, task, timer, chan, result, pending, said>>
      PROVE  OpenRequestsAreRoutable' /\ PendingHasTimer' /\ RepliesAreSaid'
  BY <1>2 DEF IInv, OpenRequestsAreRoutable, PendingHasTimer, RepliesAreSaid, Said
<1>3. ASSUME StartFails PROVE IInv'
  <2>1. TypeOK' BY <1>0, <1>3 DEF TypeOK, StartFails
  <2>2. LoopIsHonest' /\ AnswerIsFinal'
    BY <1>0, <1>3 DEF IInv, TypeOK, StartFails, LoopIsHonest, AnswerIsFinal
  <2>3. QED BY <1>2, <1>3, <2>1, <2>2 DEF IInv, StartFails
<1>4. ASSUME Cancel PROVE IInv'
  <2>1. TypeOK' BY <1>0, <1>4 DEF TypeOK, Cancel
  <2>2. LoopIsHonest' /\ AnswerIsFinal'
    BY <1>0, <1>4 DEF IInv, TypeOK, Cancel, LoopIsHonest, AnswerIsFinal
  <2>3. QED BY <1>2, <1>4, <2>1, <2>2 DEF IInv, Cancel
<1>5. ASSUME NEW ends \in SUBSET {"full", "empty"}, "full" \in ends, AwaitNext(ends)
      PROVE  IInv'
  <2>1. next \in Requests /\ result[next] \in {"empty", "error", "panicked"}
    BY <1>0, <1>5 DEF IInv, TypeOK, AwaitNext, RepliesAreSaid, Results
  <2>2. TypeOK' BY <1>0, <1>5, <2>1 DEF TypeOK, AwaitNext
  <2>3. next' = next + 1 /\ 1..(next' - 1) = 1..(next - 1) \cup {next}
    BY <1>0, <1>5 DEF TypeOK, AwaitNext
  <2>4. LoopIsHonest'
    <3>1. /\ next' <= width' + 1
          /\ \A i \in 1..(next' - 1) : task'[i] = "done" /\ result'[i] # "full"
      BY <1>0, <1>5, <2>3 DEF IInv, TypeOK, AwaitNext, LoopIsHonest
    <3>2. last' = "none" => \A i \in 1..(next' - 1) : result'[i] = "panicked"
      BY <1>0, <1>5, <2>1, <2>3 DEF IInv, TypeOK, AwaitNext, LoopIsHonest
    <3>3. last' = "empty" => \E i \in 1..(next' - 1) : result'[i] = "empty"
      BY <1>0, <1>5, <2>1, <2>3 DEF IInv, TypeOK, AwaitNext, LoopIsHonest
    <3>4. last' = "error" =>
            \A i \in 1..(next' - 1) : result'[i] \in {"error", "panicked"}
      BY <1>0, <1>5, <2>1, <2>3 DEF IInv, TypeOK, AwaitNext, LoopIsHonest
    <3>5. QED BY <3>1, <3>2, <3>3, <3>4 DEF LoopIsHonest
  <2>5. AnswerIsFinal'
    BY <1>0, <1>5 DEF IInv, TypeOK, AwaitNext, AnswerIsFinal
  <2>6. QED BY <1>2, <1>5, <2>2, <2>4, <2>5 DEF IInv, AwaitNext
<1>6. ASSUME NEW ends \in SUBSET {"full", "empty"},
             "empty" \in ends => kind = "count_links", AnswerFound(ends)
      PROVE  IInv'
  <2>1. TypeOK' BY <1>0, <1>6 DEF TypeOK, AnswerFound
  <2>2. LoopIsHonest' /\ AnswerIsFinal'
    BY <1>0, <1>6 DEF IInv, TypeOK, AnswerFound, LoopIsHonest, AnswerIsFinal
  <2>3. QED BY <1>2, <1>6, <2>1, <2>2 DEF IInv, AnswerFound
<1>7. ASSUME AnswerLast PROVE IInv'
  <2>1. TypeOK' BY <1>0, <1>7 DEF TypeOK, AnswerLast
  <2>2. next = width + 1
    BY <1>0, <1>7 DEF IInv, TypeOK, AnswerLast, LoopIsHonest
  <2>3. LoopIsHonest'
    BY <1>0, <1>7 DEF IInv, TypeOK, AnswerLast, LoopIsHonest
  <2>4. AnswerIsFinal'
    BY <1>0, <1>7, <2>2 DEF IInv, TypeOK, AnswerLast, AnswerIsFinal
  <2>5. QED BY <1>2, <1>7, <2>1, <2>3, <2>4 DEF IInv, AnswerLast
<1>8. CASE QueryStep
  <2>1. PICK ends \in SUBSET {"full", "empty"} :
           /\ Query(ends)
           /\ "full" \in ends
           /\ "empty" \in ends => kind = "count_links"
    BY <1>8, QueryEnds
  <2>2. QED BY <1>1, <1>3, <1>5, <1>6, <1>7, <2>1 DEF Query
<1>9. QED BY <1>4, <1>8

\* A step of a request, its timer or the network leaves the query alone, and
\* the tasks that are done as they are.
LEMMA RequestIInv ==
  ASSUME IInv, NEW i \in Requests,
         \/ TaskStep(i) \/ TaskPanics(i) \/ TimerStep(i) \/ RouteResponse(i)
         \/ \E r \in RepliesTo(kind) : PeerReplies(i, r)
  PROVE  IInv'
<1> USE ParallelAssumption
<1>0. TypeOK BY DEF IInv
<1>1. ASSUME NEW r \in {"full", "empty", "error", "panicked"},
             task[i] # "done", Return(i, r), UNCHANGED queryVars
      PROVE  LoopIsHonest' /\ AnswerIsFinal'
  <2>1. \A j \in Requests : task[j] = "done" =>
           task'[j] = "done" /\ result'[j] = result[j]
    BY <1>0, <1>1 DEF TypeOK, Return
  <2>2. \A j \in 1..(next - 1) : j \in Requests
    BY <1>0 DEF TypeOK, Requests
  <2>3. LoopIsHonest'
    BY <1>1, <2>1, <2>2 DEF IInv, LoopIsHonest, queryVars
  <2>4. answer = "found" => next \in Requests
    BY <1>0 DEF IInv, AnswerIsFinal, TypeOK, Requests
  <2>5. AnswerIsFinal'
    BY <1>1, <2>1, <2>4 DEF IInv, AnswerIsFinal, queryVars
  <2>6. QED BY <2>3, <2>5
<1>2. ASSUME UNCHANGED <<queryVars, result>>,
             \A j \in Requests : task[j] = "done" => task'[j] = "done"
      PROVE  LoopIsHonest' /\ AnswerIsFinal'
  <2>1. \A j \in 1..(next - 1) : j \in Requests
    BY <1>0 DEF TypeOK, Requests
  <2>2. LoopIsHonest'
    BY <1>2, <2>1 DEF IInv, LoopIsHonest, queryVars
  <2>3. answer = "found" => next \in Requests
    BY <1>0 DEF IInv, AnswerIsFinal, TypeOK, Requests
  <2>4. AnswerIsFinal'
    BY <1>2, <2>3 DEF IInv, AnswerIsFinal, queryVars
  <2>5. QED BY <2>2, <2>4
<1>3. ASSUME NEW r \in {"full", "empty", "error", "panicked"},
             task[i] # "done", Return(i, r),
             UNCHANGED <<queryVars, timer, chan, pending, said>>,
             r \in {"full", "empty"} => r = Said(i)
      PROVE  IInv'
  <2>1. TypeOK' BY <1>0, <1>3 DEF TypeOK, Return, queryVars, Results
  <2>2. OpenRequestsAreRoutable' /\ PendingHasTimer'
    BY <1>0, <1>3 DEF IInv, TypeOK, Return, OpenRequestsAreRoutable, PendingHasTimer
  <2>3. RepliesAreSaid'
    BY <1>0, <1>3 DEF IInv, TypeOK, Return, RepliesAreSaid, Said, queryVars
  <2>4. QED BY <1>1, <1>3, <2>1, <2>2, <2>3 DEF IInv
<1>4. ASSUME EncodeFails(i) \/ SendFails(i) \/ ReceiveTimesOut(i) \/ TaskPanics(i)
      PROVE  IInv'
  BY <1>3, <1>4 DEF EncodeFails, SendFails, ReceiveTimesOut, TaskPanics
<1>5. ASSUME Receive(i, ResponseOf[kind]) PROVE IInv'
  <2> DEFINE r == Read(chan[i], ResponseOf[kind])
  <2>1. chan[i] \in Replies \cup {Closed} BY <1>0, <1>5 DEF TypeOK, Receive
  <2>2. chan[i] \in Replies => chan[i] = said[i] BY DEF IInv, RepliesAreSaid
  <2>3. kind \in Kinds BY <1>0 DEF TypeOK
  <2>4. r \in {"full", "empty", "error"} BY <2>3, ReadType
  <2>5. chan[i] = Closed => r = "error" BY <2>3, ReadType
  <2>6. r \in {"full", "empty"} => r = Said(i) BY <2>1, <2>2, <2>5 DEF Said
  <2>7. QED BY <1>3, <1>5, <2>4, <2>6 DEF Receive
<1>6. ASSUME RegisterPending(i) PROVE IInv'
  <2>1. TypeOK' BY <1>0, <1>6 DEF TypeOK, RegisterPending, queryVars
  <2>2. OpenRequestsAreRoutable' /\ PendingHasTimer'
    BY <1>0, <1>6 DEF IInv, TypeOK, RegisterPending, OpenRequestsAreRoutable,
       PendingHasTimer
  <2>3. RepliesAreSaid'
    BY <1>0, <1>6 DEF IInv, TypeOK, RegisterPending, RepliesAreSaid, Said, queryVars
  <2>4. LoopIsHonest' /\ AnswerIsFinal'
    BY <1>0, <1>2, <1>6 DEF TypeOK, RegisterPending
  <2>5. QED BY <2>1, <2>2, <2>3, <2>4 DEF IInv
<1>7. ASSUME SendOk(i) PROVE IInv'
  <2>1. TypeOK' BY <1>0, <1>7 DEF TypeOK, SendOk, queryVars
  <2>2. OpenRequestsAreRoutable' /\ PendingHasTimer'
    BY <1>0, <1>7 DEF IInv, TypeOK, SendOk, OpenRequestsAreRoutable, PendingHasTimer
  <2>3. RepliesAreSaid'
    BY <1>0, <1>7 DEF IInv, TypeOK, SendOk, RepliesAreSaid, Said, queryVars
  <2>4. LoopIsHonest' /\ AnswerIsFinal' BY <1>0, <1>2, <1>7 DEF TypeOK, SendOk
  <2>5. QED BY <2>1, <2>2, <2>3, <2>4 DEF IInv
<1>8. ASSUME TimerDue(i) PROVE IInv'
  <2>1. TypeOK' BY <1>0, <1>8 DEF TypeOK, TimerDue, queryVars
  <2>2. OpenRequestsAreRoutable' /\ PendingHasTimer'
    BY <1>0, <1>8 DEF IInv, TypeOK, TimerDue, OpenRequestsAreRoutable, PendingHasTimer
  <2>3. RepliesAreSaid' BY <1>8 DEF IInv, TimerDue, RepliesAreSaid, Said, queryVars
  <2>4. LoopIsHonest' /\ AnswerIsFinal' BY <1>2, <1>8 DEF TimerDue
  <2>5. QED BY <2>1, <2>2, <2>3, <2>4 DEF IInv
<1>9. ASSUME TimerFires(i) PROVE IInv'
  <2>1. TypeOK' BY <1>0, <1>9 DEF TypeOK, TimerFires, queryVars
  <2>2. OpenRequestsAreRoutable' /\ PendingHasTimer'
    BY <1>0, <1>9, RepliesType
    DEF IInv, TypeOK, TimerFires, OpenRequestsAreRoutable, PendingHasTimer
  <2>3. RepliesAreSaid'
    BY <1>0, <1>9, RepliesType DEF IInv, TypeOK, TimerFires, RepliesAreSaid, Said, queryVars
  <2>4. LoopIsHonest' /\ AnswerIsFinal' BY <1>2, <1>9 DEF TimerFires
  <2>5. QED BY <2>1, <2>2, <2>3, <2>4 DEF IInv
<1>10. ASSUME RouteResponse(i) PROVE IInv'
  <2>1. TypeOK' BY <1>0, <1>10 DEF TypeOK, RouteResponse, queryVars
  <2>2. OpenRequestsAreRoutable' /\ PendingHasTimer'
    BY <1>0, <1>10, RepliesType
    DEF IInv, TypeOK, RouteResponse, OpenRequestsAreRoutable, PendingHasTimer
  <2>3. RepliesAreSaid'
    BY <1>0, <1>10 DEF IInv, TypeOK, RouteResponse, RepliesAreSaid, Said, queryVars
  <2>4. LoopIsHonest' /\ AnswerIsFinal' BY <1>2, <1>10 DEF RouteResponse
  <2>5. QED BY <2>1, <2>2, <2>3, <2>4 DEF IInv
<1>11. ASSUME NEW r \in RepliesTo(kind), PeerReplies(i, r) PROVE IInv'
  <2>0. r \in Replies BY <1>0, <1>11, RepliesType DEF TypeOK
  <2>1. TypeOK' BY <1>0, <1>11, <2>0 DEF TypeOK, PeerReplies, queryVars
  <2>2. OpenRequestsAreRoutable' /\ PendingHasTimer'
    BY <1>11 DEF IInv, PeerReplies, OpenRequestsAreRoutable, PendingHasTimer
  <2>3. RepliesAreSaid'
    <3>1. chan[i] \notin Replies
      BY <1>11, RepliesType DEF IInv, RepliesAreSaid, PeerReplies
    <3>2. Said(i) = "error"
      BY <1>0, <1>11, ReadType DEF TypeOK, PeerReplies, Said
    <3>3. result[i] \notin {"full", "empty"}
      BY <1>11, <3>2 DEF IInv, RepliesAreSaid, PeerReplies
    <3>4. QED
      BY <1>0, <1>11, <3>1, <3>3
      DEF IInv, TypeOK, PeerReplies, RepliesAreSaid, Said, queryVars
  <2>4. LoopIsHonest' /\ AnswerIsFinal' BY <1>2, <1>11 DEF PeerReplies
  <2>5. QED BY <2>1, <2>2, <2>3, <2>4 DEF IInv
<1>12. TaskStep(i) => RequestTask(i, ResponseOf[kind])
  BY TaskTakesItsResponse
<1>13. QED
  BY <1>4, <1>5, <1>6, <1>7, <1>8, <1>9, <1>10, <1>11, <1>12 DEF RequestTask, TimerStep

\* Every step keeps the invariant.
LEMMA NextIInv == IInv /\ [Next]_vars => IInv'
<1> SUFFICES ASSUME IInv, [Next]_vars PROVE IInv'
  OBVIOUS
<1>1. CASE UNCHANGED vars
  BY <1>1 DEF vars, queryVars, IInv, TypeOK, OpenRequestsAreRoutable, PendingHasTimer,
     RepliesAreSaid, Said, LoopIsHonest, AnswerIsFinal
<1>2. CASE Next
  BY <1>2, QueryIInv, RequestIInv DEF Next
<1>3. QED BY <1>1, <1>2

\* The inductive invariant holds in every reachable state.
THEOREM InductiveInvariant == Spec => []IInv
  BY InitIInv, NextIInv, PTL DEF Spec

\* The state of a query keeps its types.
THEOREM TypeCorrect == Spec => []TypeOK
  BY InductiveInvariant, PTL DEF IInv

\* No reply that is in time misses its request: register comes before send.
THEOREM RepliesFindTheirRequest == Spec => []OpenRequestsAreRoutable
  BY InductiveInvariant, PTL DEF IInv

\* No entry of the pending map is without a timer that removes it.
THEOREM NothingPendsForever == Spec => []PendingHasTimer
  BY InductiveInvariant, PTL DEF IInv

\* The aggregation of the replies is right: a found answer is its peer's, an
\* empty one was said by a peer, Ok(None) means that nobody was asked or that
\* every task panicked, and an error that no request was answered.
THEOREM AnswersAreRight ==
  Spec => [](AnswerIsGenuine /\ NotFoundIsSaidByAPeer /\ ErrorOnlyIfAllFailed)
<1>1. ASSUME IInv
      PROVE  AnswerIsGenuine /\ NotFoundIsSaidByAPeer /\ ErrorOnlyIfAllFailed
  <2> USE ParallelAssumption
  <2>0. TypeOK /\ LoopIsHonest /\ AnswerIsFinal /\ RepliesAreSaid
    BY <1>1 DEF IInv
  <2>1. \A j \in 1..width : j \in Requests
    BY <2>0 DEF TypeOK, Requests
  <2>2. AnswerIsGenuine
    <3>1. ASSUME answer = "found"
          PROVE  /\ next \in Requests
                 /\ result[next] \in {"full", "empty"}
                 /\ result[next] = "empty" => kind = "count_links"
      BY <2>0, <3>1 DEF TypeOK, AnswerIsFinal, Requests
    <3>2. answer = "found" => Said(next) = result[next]
      BY <2>0, <3>1 DEF RepliesAreSaid
    <3>3. QED BY <3>1, <3>2 DEF AnswerIsGenuine
  <2>3. NotFoundIsSaidByAPeer
    <3>1. ASSUME answer = "empty" PROVE \E j \in 1..width : Said(j) = "empty"
      <4>1. PICK j \in 1..width : result[j] = "empty"
        BY <2>0, <3>1 DEF LoopIsHonest, AnswerIsFinal, TypeOK
      <4>2. QED BY <2>0, <2>1, <4>1 DEF RepliesAreSaid
    <3>2. ASSUME answer = "nothing", NEW j \in 1..width PROVE result[j] = "panicked"
      BY <2>0, <3>2 DEF LoopIsHonest, AnswerIsFinal, TypeOK
    <3>3. QED BY <3>1, <3>2 DEF NotFoundIsSaidByAPeer
  <2>4. ErrorOnlyIfAllFailed
    <3>1. ASSUME NEW j \in 1..width, answer \in {"empty", "error"}
          PROVE  next = width + 1 /\ j \in 1..(next - 1)
      BY <2>0, <3>1 DEF AnswerIsFinal, TypeOK
    <3>2. QED
      BY <2>0, <3>1 DEF ErrorOnlyIfAllFailed, LoopIsHonest, AnswerIsFinal, TypeOK
  <2>5. QED BY <2>2, <2>3, <2>4
<1>2. QED BY <1>1, InductiveInvariant, PTL

\* What a query returns as found is what the peer of that handle replied.
THEOREM FoundIsGenuine == Spec => []AnswerIsGenuine
  BY AnswersAreRight, PTL

\* An empty answer rests on a peer that said so, and Ok(None) after asking
\* anybody means that every task of the query panicked.
THEOREM NotFoundIsSaid == Spec => []NotFoundIsSaidByAPeer
  BY AnswersAreRight, PTL
=============================================================================
