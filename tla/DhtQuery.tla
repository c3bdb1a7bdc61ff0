------------------------------ MODULE DhtQuery ------------------------------
(***************************************************************************)
(* One DHT query of src/dht_query.rs: up to Parallel requests to peers,    *)
(* each in a task of its own with a cleanup timer, the shared map of       *)
(* pending responses that recv_notify routes into, and the loop that       *)
(* awaits the tasks in peer order.  All five queries have this shape: each *)
(* is the loop Query with the results that end it, and its task the        *)
(* RequestTask with the response it takes.                                 *)
(*                                                                         *)
(* Message ids are unique, so a request is named by its place in the list  *)
(* of handles and queries do not disturb each other.  The network may      *)
(* lose, delay and repeat a reply: one that was said may be routed at any  *)
(* later time, any number of times or never.                               *)
(***************************************************************************)
EXTENDS Naturals

CONSTANT Parallel   \* PARALLEL_GET_AGENTS_COUNT

ASSUME ParallelAssumption == Parallel \in Nat \ {0}

VARIABLES kind,     \* which of the five queries it is
          phase,    \* of the query: "new", "await", "answered", "cancelled"
          width,    \* number of requests it spawned
          next,     \* the handle it awaits, or was answered by
          last,     \* last_result
          answer,   \* what it returned
          task,     \* where each request task stands
          timer,    \* its cleanup timer
          chan,     \* its oneshot channel
          result,   \* what the task returned
          pending,  \* PendingDhtResponses: requests whose sender is in the map
          said      \* what the peer replied (external)

queryVars == <<kind, phase, width, next, last, answer>>
vars == <<queryVars, task, timer, chan, result, pending, said>>

Requests == 1..Parallel
\* What a task ends with: Ok(Some(r)) where r has what the query looks for
\* ("full") or not ("empty"), an Err, or a JoinError ("panicked").
Results == {"none", "full", "empty", "error", "panicked"}

\* The response that belongs to each request (holochain_p2p's WireMessage).
ResponseOf == [get |-> "GetRes", get_links |-> "GetLinksRes",
    count_links |-> "CountLinksRes", get_agent_activity |-> "GetAgentActivityRes",
    must_get_agent_activity |-> "MustGetAgentActivityRes"]
Kinds == DOMAIN ResponseOf

\* A WireMessage that carries the id of the request: its variant, and whether
\* its content is what the query looks for.
Message(res, full) == [res |-> res, full |-> full]
Open == Message("open", FALSE)         \* oneshot channel without a value
Closed == Message("closed", FALSE)     \* its sender was dropped
Nothing == Message("nothing", FALSE)   \* the peer has not replied
Replies == {Message(ResponseOf[k], full) : k \in Kinds, full \in BOOLEAN}
           \cup {Message("ErrorRes", FALSE)}

\* What a peer may say to a query of kind k: the response in either form,
\* ErrorRes, or a response to something else (one stands for them all).
RepliesTo(k) ==
    {Message(ResponseOf[k], TRUE), Message(ResponseOf[k], FALSE),
     Message("ErrorRes", FALSE),
     Message(IF k = "get" THEN "GetLinksRes" ELSE "GetRes", TRUE)}

-----------------------------------------------------------------------------
TypeOK ==
    /\ kind \in Kinds
    /\ phase \in {"new", "await", "answered", "cancelled"}
    /\ width \in 0..Parallel
    /\ next \in 1..(Parallel + 1)
    /\ last \in {"none", "empty", "error"}
    /\ answer \in {"none", "found", "empty", "nothing", "error"}
    /\ task \in [Requests -> {"unused", "spawned", "sending", "waiting", "done"}]
    /\ timer \in [Requests -> {"off", "running", "due", "done"}]
    /\ chan \in [Requests -> {Open, Closed} \cup Replies]
    /\ result \in [Requests -> Results]
    /\ pending \subseteq Requests
    /\ said \in [Requests -> {Nothing} \cup Replies]

Init ==
    /\ kind \in Kinds
    /\ phase = "new"
    /\ width = 0
    /\ next = 1
    /\ last = "none"
    /\ answer = "none"
    /\ task = [i \in Requests |-> "unused"]
    /\ timer = [i \in Requests |-> "off"]
    /\ chan = [i \in Requests |-> Open]
    /\ result = [i \in Requests |-> "none"]
    /\ pending = {}
    /\ said = [i \in Requests |-> Nothing]

-----------------------------------------------------------------------------
\* The queries.  `ends' is the set of results that a loop returns at once.

\* The space and the peers of the location are found; at most Parallel of
\* them are asked.  Without peers the answer is Ok(None).
Start(w) ==
    /\ phase = "new"
    /\ width' = w
    /\ task' = [i \in Requests |-> IF i <= w THEN "spawned" ELSE "unused"]
    /\ phase' = IF w = 0 THEN "answered" ELSE "await"
    /\ answer' = IF w = 0 THEN "nothing" ELSE "none"
    /\ UNCHANGED <<kind, next, last, timer, chan, result, pending, said>>

\* get_or_create_space or get_peers_for_location fails.
StartFails ==
    /\ phase = "new"
    /\ phase' = "answered"
    /\ answer' = "error"
    /\ UNCHANGED <<kind, width, next, last, task, timer, chan, result, pending, said>>

\* Faulty: an Err replaces an Ok.
AwaitNextKeepsLatest(ends) ==
    /\ phase = "await" /\ next <= width
    /\ task[next] = "done"
    /\ result[next] \notin ends
    /\ next' = next + 1
    /\ last' = IF result[next] = "panicked" THEN last ELSE result[next]
    /\ UNCHANGED <<kind, phase, width, answer, task, timer, chan, result, pending, said>>

\* The task awaited is done, and does not end the loop: an Ok replaces
\* last_result, an Err only sets it, a JoinError leaves it alone.
AwaitNext(ends) ==
    /\ phase = "await" /\ next <= width
    /\ task[next] = "done"
    /\ result[next] \notin ends
    /\ next' = next + 1
    /\ last' = IF \/ result[next] = "panicked"
                  \/ result[next] = "error" /\ last # "none"
               THEN last
               ELSE result[next]
    /\ UNCHANGED <<kind, phase, width, answer, task, timer, chan, result, pending, said>>

AnswerFound(ends) ==
    /\ phase = "await" /\ next <= width
    /\ task[next] = "done"
    /\ result[next] \in ends
    /\ phase' = "answered"
    /\ answer' = "found"
    /\ UNCHANGED <<kind, width, next, last, task, timer, chan, result, pending, said>>

\* Faulty: errors are swallowed.
AnswerLastIgnoresErrors ==
    /\ phase = "await" /\ next > width
    /\ phase' = "answered"
    /\ answer' = IF last = "empty" THEN "empty" ELSE "nothing"
    /\ UNCHANGED <<kind, width, next, last, task, timer, chan, result, pending, said>>

\* All are awaited: last_result, or Ok(None) if there is none.
AnswerLast ==
    /\ phase = "await" /\ next > width
    /\ phase' = "answered"
    /\ answer' = IF last = "none" THEN "nothing" ELSE last
    /\ UNCHANGED <<kind, width, next, last, task, timer, chan, result, pending, said>>

Query(ends) ==
    \/ \E w \in 0..Parallel : Start(w)
    \/ StartFails
    \/ AwaitNext(ends) \/ AnswerFound(ends) \/ AnswerLast

\* What ends each loop: ops that are not empty (is_wire_ops_empty); links
\* created; any count; a chain status other than Empty; the Activity variant.
Get == kind = "get" /\ Query({"full"})
GetLinks == kind = "get_links" /\ Query({"full"})
CountLinks == kind = "count_links" /\ Query({"full", "empty"})
GetAgentActivity == kind = "get_agent_activity" /\ Query({"full"})
MustGetAgentActivity == kind = "must_get_agent_activity" /\ Query({"full"})

\* The HTTP client goes away and the handler is dropped; the tasks it spawned
\* are not.
Cancel ==
    /\ phase = "await"
    /\ phase' = "cancelled"
    /\ UNCHANGED <<kind, width, next, last, answer, task, timer, chan, result, pending, said>>

-----------------------------------------------------------------------------
\* A request task

Return(i, r) ==
    /\ task' = [task EXCEPT ![i] = "done"]
    /\ result' = [result EXCEPT ![i] = r]

\* What a task that takes the response res makes of a message: any other one,
\* ErrorRes and a closed channel too, is an Err.
Read(m, res) == IF m.res # res THEN "error" ELSE IF m.full THEN "full" ELSE "empty"

\* The request can not be encoded.
EncodeFails(i) ==
    /\ task[i] = "spawned"
    /\ Return(i, "error")
    /\ UNCHANGED <<queryVars, timer, chan, pending, said>>

\* Faulty: the responder is not in the map while the request is sent.
RegisterPendingLate(i) ==
    /\ task[i] = "spawned"
    /\ task' = [task EXCEPT ![i] = "sending"]
    /\ timer' = [timer EXCEPT ![i] = "running"]
    /\ UNCHANGED <<queryVars, chan, result, pending, said>>

\* The responder is registered and the cleanup timer spawned, before anything
\* is sent.
RegisterPending(i) ==
    /\ task[i] = "spawned"
    /\ task' = [task EXCEPT ![i] = "sending"]
    /\ pending' = pending \cup {i}
    /\ timer' = [timer EXCEPT ![i] = "running"]
    /\ UNCHANGED <<queryVars, chan, result, said>>

\* space.send_notify returns; on an error the entry is left to the timer.
SendOk(i) ==
    /\ task[i] = "sending"
    /\ task' = [task EXCEPT ![i] = "waiting"]
    /\ UNCHANGED <<queryVars, timer, chan, result, pending, said>>

SendFails(i) ==
    /\ task[i] = "sending"
    /\ Return(i, "error")
    /\ UNCHANGED <<queryVars, timer, chan, pending, said>>

\* Faulty: a closed channel is not noticed.
ReceiveIgnoresClosed(i, res) ==
    /\ task[i] = "waiting"
    /\ chan[i] \in Replies
    /\ Return(i, Read(chan[i], res))
    /\ UNCHANGED <<queryVars, timer, chan, pending, said>>

\* The channel has a value, or its sender was dropped ("channel closed").
Receive(i, res) ==
    /\ task[i] = "waiting"
    /\ chan[i] # Open
    /\ Return(i, Read(chan[i], res))
    /\ UNCHANGED <<queryVars, timer, chan, pending, said>>

\* The wait began no earlier than the timer, so it can only run out once the
\* timer is due; a channel that is ready is looked at first.
ReceiveTimesOut(i) ==
    /\ task[i] = "waiting"
    /\ chan[i] = Open
    /\ timer[i] \in {"due", "done"}
    /\ Return(i, "error")
    /\ UNCHANGED <<queryVars, timer, chan, pending, said>>

RequestTask(i, res) ==
    \/ EncodeFails(i) \/ RegisterPending(i)
    \/ SendOk(i) \/ SendFails(i)
    \/ Receive(i, res) \/ ReceiveTimesOut(i)

SendGetRequest(i) == kind = "get" /\ RequestTask(i, "GetRes")
SendGetLinksRequest(i) == kind = "get_links" /\ RequestTask(i, "GetLinksRes")
SendCountLinksRequest(i) == kind = "count_links" /\ RequestTask(i, "CountLinksRes")
SendGetAgentActivityRequest(i) ==
    kind = "get_agent_activity" /\ RequestTask(i, "GetAgentActivityRes")
SendMustGetAgentActivityRequest(i) ==
    kind = "must_get_agent_activity" /\ RequestTask(i, "MustGetAgentActivityRes")

\* A panic anywhere in the task: its JoinHandle yields Err.  The entry is left
\* to the timer, and the receiver is gone.
TaskPanics(i) ==
    /\ task[i] \in {"spawned", "sending", "waiting"}
    /\ Return(i, "panicked")
    /\ UNCHANGED <<queryVars, timer, chan, pending, said>>

-----------------------------------------------------------------------------
\* The cleanup timer

TimerDue(i) ==
    /\ timer[i] = "running"
    /\ timer' = [timer EXCEPT ![i] = "due"]
    /\ UNCHANGED <<queryVars, task, chan, result, pending, said>>

\* Faulty: the entry is not removed.
TimerFiresInVain(i) ==
    /\ timer[i] = "due"
    /\ timer' = [timer EXCEPT ![i] = "done"]
    /\ UNCHANGED <<queryVars, task, chan, result, pending, said>>

\* PendingDhtResponses::remove; dropping the sender closes the channel.
TimerFires(i) ==
    /\ timer[i] = "due"
    /\ timer' = [timer EXCEPT ![i] = "done"]
    /\ pending' = pending \ {i}
    /\ chan' = IF i \in pending THEN [chan EXCEPT ![i] = Closed] ELSE chan
    /\ UNCHANGED <<queryVars, task, result, said>>

-----------------------------------------------------------------------------
\* The peer and the network (external), and route_response

PeerReplies(i, r) ==
    /\ task[i] \in {"sending", "waiting", "done"} /\ timer[i] # "off"
    /\ said[i] = Nothing
    /\ said' = [said EXCEPT ![i] = r]
    /\ UNCHANGED <<queryVars, task, timer, chan, result, pending>>

\* Faulty: the reply goes to some pending request, whatever its msg_id.
RouteResponseToAny(i) ==
    /\ said[i] # Nothing
    /\ \E j \in pending :
          /\ pending' = pending \ {j}
          /\ chan' = IF task[j] = "done" THEN chan ELSE [chan EXCEPT ![j] = said[i]]
    /\ UNCHANGED <<queryVars, task, timer, result, said>>

\* A reply without a pending entry is dropped, and so is one whose receiver
\* is gone (tx.send fails).
RouteResponse(i) ==
    /\ said[i] # Nothing
    /\ i \in pending
    /\ pending' = pending \ {i}
    /\ chan' = IF task[i] = "done" THEN chan ELSE [chan EXCEPT ![i] = said[i]]
    /\ UNCHANGED <<queryVars, task, timer, result, said>>

-----------------------------------------------------------------------------
QueryStep == Get \/ GetLinks \/ CountLinks \/ GetAgentActivity \/ MustGetAgentActivity

TaskStep(i) ==
    \/ SendGetRequest(i) \/ SendGetLinksRequest(i) \/ SendCountLinksRequest(i)
    \/ SendGetAgentActivityRequest(i) \/ SendMustGetAgentActivityRequest(i)

TimerStep(i) == TimerDue(i) \/ TimerFires(i)

Next ==
    \/ QueryStep \/ Cancel
    \/ \E i \in Requests :
          \/ TaskStep(i) \/ TaskPanics(i) \/ TimerStep(i)
          \/ \E r \in RepliesTo(kind) : PeerReplies(i, r)
          \/ RouteResponse(i)

\* tokio runs every task that is ready and time passes; send_notify and the
\* lookup of space and peers are taken to return.  Nothing is assumed of peers
\* and network, nor that a task panics.
Fairness ==
    /\ WF_vars(QueryStep)
    /\ \A i \in Requests : WF_vars(TaskStep(i)) /\ WF_vars(TimerStep(i))

Spec == Init /\ [][Next]_vars /\ Fairness

-----------------------------------------------------------------------------
\* Properties

\* A reply that arrives before the deadline of an open request finds its
\* sender in the map, also when it overtakes the return of send_notify.
OpenRequestsAreRoutable ==
    \A i \in Requests :
        /\ task[i] \in {"sending", "waiting"}
        /\ chan[i] = Open
        /\ timer[i] # "done"
        => i \in pending

\* Every entry of the map has a timer that will still remove it, on every
\* path out of the request (send error, timeout, cancelled query).
PendingHasTimer ==
    \A i \in pending : timer[i] \in {"running", "due"}

\* What the peer of i said to this query.
Said(i) == Read(said[i], ResponseOf[kind])

\* A found answer is what that very peer replied to this very request, and
\* only a count may be returned that is empty.
AnswerIsGenuine ==
    answer = "found" =>
        Said(next) \in {"full"} \cup (IF kind = "count_links" THEN {"empty"} ELSE {})

\* An empty answer is what a peer said.  Ok(None), the answer of a query that
\* had nobody to ask, is also given by one that asked, but only if every one
\* of its tasks panicked: a request that failed is not reported as "no data".
NotFoundIsSaidByAPeer ==
    /\ answer = "empty" => \E i \in 1..width : Said(i) = "empty"
    /\ answer = "nothing" => \A i \in 1..width : result[i] = "panicked"

\* A query fails only if none of its requests was answered, and misses
\* nothing: no response with data lies in a task it awaited and passed over.
ErrorOnlyIfAllFailed ==
    /\ answer = "error" => \A i \in 1..width : result[i] \in {"error", "panicked"}
    /\ answer = "empty" => \A i \in 1..width : result[i] # "full"

\* Every query is answered, unless its client goes away, whatever the peers do.
QueryIsAnswered ==
    (phase = "await") ~> (phase \in {"answered", "cancelled"})

\* Every entry leaves the map of pending responses.
PendingDrains ==
    \A i \in Requests : (i \in pending) ~> (i \notin pending)

-----------------------------------------------------------------------------
\* What makes the safety properties inductive

\* What a channel holds, and what a task returned, was said by its peer.
RepliesAreSaid ==
    \A i \in Requests :
        /\ chan[i] \in Replies => chan[i] = said[i]
        /\ result[i] \in {"full", "empty"} => result[i] = Said(i)
        /\ task[i] = "done" => result[i] # "none"

\* last_result summarises the handles before next, which are all done.
LoopIsHonest ==
    /\ next <= width + 1
    /\ \A i \in 1..(next - 1) : task[i] = "done" /\ result[i] # "full"
    /\ last = "none" => \A i \in 1..(next - 1) : result[i] = "panicked"
    /\ last = "empty" => \E i \in 1..(next - 1) : result[i] = "empty"
    /\ last = "error" => \A i \in 1..(next - 1) : result[i] \in {"error", "panicked"}

\* Only the last step of the query sets its answer.
AnswerIsFinal ==
    /\ phase = "new" => width = 0 /\ next = 1 /\ last = "none"
    /\ phase # "answered" => answer = "none"
    /\ answer = "found" =>
          /\ next <= width /\ task[next] = "done"
          /\ result[next] \in {"full", "empty"}
          /\ result[next] = "empty" => kind = "count_links"
    /\ answer = "empty" \/ (answer \in {"nothing", "error"} /\ width > 0) =>
          /\ next = width + 1
          /\ last = IF answer = "nothing" THEN "none" ELSE answer

IInv ==
    /\ TypeOK
    /\ OpenRequestsAreRoutable
    /\ PendingHasTimer
    /\ RepliesAreSaid
    /\ LoopIsHonest
    /\ AnswerIsFinal
=============================================================================
