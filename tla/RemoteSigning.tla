---------------------------- MODULE RemoteSigning ---------------------------
(***************************************************************************)
(* The remote signing protocol: AgentProxyManager asks a browser for a     *)
(* signature (src/agent_proxy.rs), through the bounded queue and the send  *)
(* task of one of its connections, and the connection task reads the       *)
(* answer (src/routes/websocket.rs).                                       *)
(*                                                                         *)
(* The callers are kitsune2's background tasks and the connection tasks    *)
(* themselves, which await agent_leave, and in it the signature of the     *)
(* tombstone, inline.  A browser may stop reading (stalled) while its TCP  *)
(* connection stays up.                                                    *)
(*                                                                         *)
(* The requests are those of one agent.  Its registrations are abstracted  *)
(* to what Websocket guarantees of them: they may lead to any connection   *)
(* whose loop has not ended (RoutedToOwner), or to none.  Request ids are  *)
(* unique, and Requests bounds their number.                               *)
(***************************************************************************)
EXTENDS Naturals, Sequences

CONSTANTS Conns,       \* WebSocket connections
          NoConn,      \* the caller is kitsune2; no connection was found
          Requests,    \* sign requests, each made once
          NoRequest,   \* a connection task is in no agent_leave
          Capacity     \* mpsc::channel(32)

ASSUME SigningAssumption ==
    /\ NoConn \notin Conns
    /\ NoRequest \notin Requests
    /\ Requests \cap {"reply", "signal"} = {}
    /\ Capacity \in Nat \ {0}

VARIABLES conn,      \* connection task: see States
          busy,      \* the request a connection task awaits in agent_leave
          sendTask,  \* "up", or "down": the receiver of the queue is dropped
          queue,     \* outgoing messages: sign requests, replies and signals
          seen,      \* sign requests a browser has received (external)
          stalled,   \* browsers that stopped reading and writing (external)
          pc,        \* of a request: "idle", "send", "wait", "remove", "done"
          owner,     \* the connection task that made it, or NoConn
          to,        \* the connection that was found for it
          pending,   \* pending_signs
          chan,      \* its oneshot channel
          outcome,   \* what it returns
          from,      \* history: the connection task that delivered its answer
          garbled    \* history: requests whose agent info was not serialised

connVars == <<conn, busy>>
wireVars == <<sendTask, queue, seen, stalled>>
reqVars == <<pc, owner, to, pending, chan, outcome, from, garbled>>
vars == <<connVars, wireVars, reqVars>>

Answers == {"signed", "refused"}

Messages == Requests \cup {"reply", "signal"}

\* Of a connection task: waiting for a frame or a timer, awaiting a call in a
\* handler (agent_leave, send_remote_signals), awaiting a place for its reply,
\* past its loop, gone.
States == {"loop", "leave", "signals", "reply", "cleanup", "closed"}

TypeOK ==
    /\ conn \in [Conns -> States]
    /\ busy \in [Conns -> Requests \cup {NoRequest}]
    /\ sendTask \in [Conns -> {"up", "down"}]
    /\ queue \in [Conns -> Seq(Messages)]
    /\ \A c \in Conns : Len(queue[c]) <= Capacity
    /\ seen \in [Conns -> SUBSET Requests]
    /\ stalled \subseteq Conns
    /\ pc \in [Requests -> {"idle", "send", "wait", "remove", "done"}]
    /\ owner \in [Requests -> Conns \cup {NoConn}]
    /\ to \in [Requests -> Conns \cup {NoConn}]
    /\ pending \subseteq Requests
    /\ chan \in [Requests -> {"open"} \cup Answers]
    /\ outcome \in [Requests -> {"none", "failed"} \cup Answers]
    /\ from \in [Requests -> Conns \cup {NoConn}]
    /\ garbled \subseteq Requests

Init ==
    /\ conn = [c \in Conns |-> "loop"]
    /\ busy = [c \in Conns |-> NoRequest]
    /\ sendTask = [c \in Conns |-> "up"]
    /\ queue = [c \in Conns |-> <<>>]
    /\ seen = [c \in Conns |-> {}]
    /\ stalled = {}
    /\ pc = [r \in Requests |-> "idle"]
    /\ owner = [r \in Requests |-> NoConn]
    /\ to = [r \in Requests |-> NoConn]
    /\ pending = {}
    /\ chan = [r \in Requests |-> "open"]
    /\ outcome = [r \in Requests |-> "none"]
    /\ from = [r \in Requests |-> NoConn]
    /\ garbled = {}

HasRoom(c) == sendTask[c] = "up" /\ Len(queue[c]) < Capacity

-----------------------------------------------------------------------------
\* request_agent_info_signature

\* The connections that find_sender_for_agent may give.
Registrable == {c \in Conns : conn[c] \in {"loop", "leave", "signals", "reply"}}

\* Faulty: nothing is inserted into pending_signs.
AskWithoutInsert(r, o) ==
    /\ pc[r] = "idle"
    /\ owner' = [owner EXCEPT ![r] = o]
    /\ \E c \in Registrable : to' = [to EXCEPT ![r] = c]
    /\ pc' = [pc EXCEPT ![r] = "send"]
    /\ UNCHANGED <<pending, chan, outcome, from, garbled>>

\* find_sender_for_agent and the insert into pending_signs; without a sender
\* the request fails at once, and so it does, past the insert, when the agent
\* info can not be serialised.
Ask(r, o) ==
    /\ pc[r] = "idle"
    /\ owner' = [owner EXCEPT ![r] = o]
    /\ \/ \E c \in Registrable :
             /\ to' = [to EXCEPT ![r] = c]
             /\ pending' = pending \cup {r}
             /\ \/ pc' = [pc EXCEPT ![r] = "send"] /\ UNCHANGED <<outcome, garbled>>
                \/ /\ pc' = [pc EXCEPT ![r] = "done"]
                   /\ outcome' = [outcome EXCEPT ![r] = "failed"]
                   /\ garbled' = garbled \cup {r}
       \/ /\ pc' = [pc EXCEPT ![r] = "done"]
          /\ outcome' = [outcome EXCEPT ![r] = "failed"]
          /\ UNCHANGED <<to, pending, garbled>>
    /\ UNCHANGED <<chan, from>>

\* kitsune2 has an agent info to sign.
BackgroundSign(r) ==
    /\ Ask(r, NoConn)
    /\ UNCHANGED <<connVars, wireVars>>

\* sender.send(sign_request).await, which has no timeout.
Enqueue(r) ==
    /\ pc[r] = "send"
    /\ HasRoom(to[r])
    /\ queue' = [queue EXCEPT ![to[r]] = Append(@, r)]
    /\ pc' = [pc EXCEPT ![r] = "wait"]
    /\ UNCHANGED <<connVars, sendTask, seen, stalled, owner, to, pending, chan,
                   outcome, from, garbled>>

\* Faulty: the entry is left in pending_signs.
SendFailsForgotten(r) ==
    /\ pc[r] = "send"
    /\ sendTask[to[r]] = "down"
    /\ pc' = [pc EXCEPT ![r] = "done"]
    /\ outcome' = [outcome EXCEPT ![r] = "failed"]
    /\ UNCHANGED <<connVars, wireVars, owner, to, pending, chan, from, garbled>>

\* The receiver is gone: the request is taken back.
SendFails(r) ==
    /\ pc[r] = "send"
    /\ sendTask[to[r]] = "down"
    /\ pc' = [pc EXCEPT ![r] = "done"]
    /\ outcome' = [outcome EXCEPT ![r] = "failed"]
    /\ pending' = pending \ {r}
    /\ UNCHANGED <<connVars, wireVars, owner, to, chan, from, garbled>>

\* The answer is there (deliver_signature is the only one to drop the sender).
Answered(r) ==
    /\ pc[r] = "wait"
    /\ chan[r] # "open"
    /\ pc' = [pc EXCEPT ![r] = "remove"]
    /\ outcome' = [outcome EXCEPT ![r] = chan[r]]
    /\ UNCHANGED <<connVars, wireVars, owner, to, pending, chan, from, garbled>>

\* Faulty: only the end of the connection ends the wait.
TimesOutOnClose(r) ==
    /\ pc[r] = "wait"
    /\ chan[r] = "open"
    /\ sendTask[to[r]] = "down"
    /\ pc' = [pc EXCEPT ![r] = "remove"]
    /\ outcome' = [outcome EXCEPT ![r] = "failed"]
    /\ UNCHANGED <<connVars, wireVars, owner, to, pending, chan, from, garbled>>

\* sign_timeout; a channel that is ready is looked at first.
TimesOut(r) ==
    /\ pc[r] = "wait"
    /\ chan[r] = "open"
    /\ pc' = [pc EXCEPT ![r] = "remove"]
    /\ outcome' = [outcome EXCEPT ![r] = "failed"]
    /\ UNCHANGED <<connVars, wireVars, owner, to, pending, chan, from, garbled>>

\* The clean-up after the wait, whatever its result.
RemovePending(r) ==
    /\ pc[r] = "remove"
    /\ pc' = [pc EXCEPT ![r] = "done"]
    /\ pending' = pending \ {r}
    /\ UNCHANGED <<connVars, wireVars, owner, to, chan, outcome, from, garbled>>

-----------------------------------------------------------------------------
\* Signals

\* try_send under the read lock of the registrations; a signal for a full queue
\* is dropped, and so is one for an agent that is not registered.
SendSignal(c) ==
    /\ c \in Registrable
    /\ queue' = [queue EXCEPT ![c] = IF HasRoom(c) THEN Append(@, "signal") ELSE @]
    /\ UNCHANGED <<connVars, sendTask, seen, stalled, reqVars>>

\* recv_notify spawns a task for every RemoteSignalEvt of a batch.
HandleWireMessage(c) == SendSignal(c)

\* POST /test/signal.
TestSignal(c) == SendSignal(c)

-----------------------------------------------------------------------------
\* A message of the browser, which the connection task takes when it is free

\* Faulty: frames are handled while agent_leave runs.
TakesInLeave(c) == conn[c] \in {"loop", "leave"} /\ c \notin stalled

\* The loop of c takes a frame of its browser.
Takes(c) == conn[c] = "loop" /\ c \notin stalled

\* Authentication, register, ping: messages that are answered.
Request(c) ==
    /\ Takes(c)
    /\ conn' = [conn EXCEPT ![c] = "reply"]
    /\ UNCHANGED <<busy, wireVars, reqVars>>

\* agent_leave asks for the signature of a tombstone if kitsune2 had the agent;
\* the cell is not registered any more, another one on c may be.
AgentLeave(c) ==
    \/ /\ UNCHANGED <<busy, reqVars>>
    \/ \E r \in Requests :
          /\ busy' = [busy EXCEPT ![c] = r]
          /\ Ask(r, c)

Unregister(c) ==
    /\ Takes(c)
    /\ conn' = [conn EXCEPT ![c] = "leave"]
    /\ AgentLeave(c)
    /\ UNCHANGED <<wireVars>>

SendRemoteSignal(c) ==
    /\ Takes(c)
    /\ conn' = [conn EXCEPT ![c] = "signals"]
    /\ UNCHANGED <<busy, wireVars, reqVars>>

\* send_remote_signals, the next of the list: to a browser of this linker if
\* is_registered finds one, over kitsune2 or nowhere otherwise.
NextSignal(c) ==
    /\ conn[c] = "signals"
    /\ \E d \in Conns : SendSignal(d)

\* Nothing is replied.
SignalsSent(c) ==
    /\ conn[c] = "signals"
    /\ conn' = [conn EXCEPT ![c] = "loop"]
    /\ UNCHANGED <<busy, wireVars, reqVars>>

\* SignResponse and deliver_signature: the request is looked up by its id alone,
\* whichever connection names it, and to whichever connection it was sent.  An
\* answer nobody waits for (unknown, repeated, too late) is dropped.
SignResponse(c, r, v) ==
    /\ Takes(c)
    /\ pending' = pending \ {r}
    /\ IF r \in pending /\ pc[r] \in {"send", "wait"}
       THEN /\ chan' = [chan EXCEPT ![r] = v]
            /\ from' = [from EXCEPT ![r] = c]
       ELSE UNCHANGED <<chan, from>>
    /\ UNCHANGED <<connVars, wireVars, pc, owner, to, outcome, garbled>>

-----------------------------------------------------------------------------
\* The connection task goes on by itself

\* Faulty: the cleanup does not go on after a leave.
LeaveReturnsToHandler(c) ==
    /\ conn[c] = "leave"
    /\ busy[c] # NoRequest => pc[busy[c]] = "done"
    /\ busy' = [busy EXCEPT ![c] = NoRequest]
    /\ conn' = [conn EXCEPT ![c] = "reply"]
    /\ UNCHANGED <<wireVars, reqVars>>

\* agent_leave returns, in the handler of Unregister or in the cleanup.
LeaveReturns(c) ==
    /\ busy[c] # NoRequest \/ conn[c] = "leave"
    /\ busy[c] # NoRequest => pc[busy[c]] = "done"
    /\ busy' = [busy EXCEPT ![c] = NoRequest]
    /\ conn' = [conn EXCEPT ![c] = IF @ = "leave" THEN "reply" ELSE @]
    /\ UNCHANGED <<wireVars, reqVars>>

\* tx.send(resp).await
Reply(c) ==
    /\ conn[c] = "reply"
    /\ HasRoom(c)
    /\ queue' = [queue EXCEPT ![c] = Append(@, "reply")]
    /\ conn' = [conn EXCEPT ![c] = "loop"]
    /\ UNCHANGED <<busy, sendTask, seen, stalled, reqVars>>

\* The loop ends: unregister_all comes first (Registrable).
EndLoop(c) ==
    /\ conn' = [conn EXCEPT ![c] = "cleanup"]
    /\ UNCHANGED <<busy, wireVars, reqVars>>

ReplyFails(c) ==
    /\ conn[c] = "reply"
    /\ sendTask[c] = "down"
    /\ EndLoop(c)

\* Close frame, socket error, end of stream.
Break(c) ==
    /\ conn[c] = "loop"
    /\ EndLoop(c)

\* The heartbeat or idle timeout; only the loop looks at them.
HeartbeatTimeout(c) ==
    /\ c \in stalled
    /\ Break(c)

\* One cell after the other; how many there are is left open.
CleanupLeave(c) ==
    /\ conn[c] = "cleanup"
    /\ busy[c] = NoRequest
    /\ UNCHANGED <<conn, wireVars>>
    /\ AgentLeave(c)

\* send_task.abort() drops the receiver and what is in the queue.
CleanupFinish(c) ==
    /\ conn[c] = "cleanup"
    /\ busy[c] = NoRequest
    /\ conn' = [conn EXCEPT ![c] = "closed"]
    /\ sendTask' = [sendTask EXCEPT ![c] = "down"]
    /\ queue' = [queue EXCEPT ![c] = <<>>]
    /\ UNCHANGED <<busy, seen, stalled, reqVars>>

-----------------------------------------------------------------------------
\* The send task and the browser

Forward(c) ==
    /\ sendTask[c] = "up"
    /\ c \notin stalled
    /\ queue[c] # <<>>
    /\ queue' = [queue EXCEPT ![c] = Tail(@)]
    /\ seen' = [seen EXCEPT ![c] = @ \cup ({Head(queue[c])} \cap Requests)]
    /\ UNCHANGED <<connVars, sendTask, stalled, reqVars>>

\* sender.send fails and the task ends.
SocketFails(c) ==
    /\ sendTask[c] = "up"
    /\ queue[c] # <<>>
    /\ sendTask' = [sendTask EXCEPT ![c] = "down"]
    /\ queue' = [queue EXCEPT ![c] = <<>>]
    /\ UNCHANGED <<connVars, seen, stalled, reqVars>>

Stall(c) ==
    /\ conn[c] # "closed"
    /\ stalled' = stalled \cup {c}
    /\ UNCHANGED <<connVars, sendTask, queue, seen, reqVars>>

-----------------------------------------------------------------------------
RequestStep(r) ==
    Enqueue(r) \/ SendFails(r) \/ Answered(r) \/ TimesOut(r) \/ RemovePending(r)

ClientMessage(c) ==
    \/ Request(c) \/ Unregister(c) \/ SendRemoteSignal(c)
    \/ \E r \in Requests, v \in Answers : SignResponse(c, r, v)

ConnStep(c) ==
    \/ LeaveReturns(c) \/ SignalsSent(c) \/ Reply(c) \/ ReplyFails(c)
    \/ CleanupLeave(c) \/ CleanupFinish(c)

Next ==
    \/ \E r \in Requests :
          RequestStep(r) \/ BackgroundSign(r)
    \/ \E c \in Conns :
          \/ ClientMessage(c) \/ ConnStep(c) \/ Break(c)
          \/ Forward(c) \/ SocketFails(c) \/ Stall(c)
          \/ NextSignal(c) \/ HandleWireMessage(c) \/ TestSignal(c)

\* tokio runs every task that is ready, its timers pass, and a bounded channel
\* serves its waiting senders in turn (hence SF for Enqueue).  A browser that
\* is not stalled reads.  No browser has to answer.
Fairness ==
    /\ \A r \in Requests : WF_vars(RequestStep(r)) /\ SF_vars(Enqueue(r))
    /\ \A c \in Conns :
          WF_vars(ConnStep(c)) /\ WF_vars(Forward(c)) /\ WF_vars(HeartbeatTimeout(c))

Spec == Init /\ [][Next]_vars /\ Fairness

-----------------------------------------------------------------------------
\* Properties

\* r is in the queue of c, or its browser has it.
Reached(r, c) == r \in seen[c] \/ \E i \in 1..Len(queue[c]) : queue[c][i] = r

\* A request that is over leaves no entry in pending_signs, whichever of its
\* ends it took, except the one: its agent info could not be serialised, after
\* the insert and before anything was sent.
PendingIsLive ==
    \A r \in pending : pc[r] \in {"send", "wait", "remove"} \/ r \in garbled

\* Whenever a browser can answer a request that still waits, the answer finds
\* it in pending_signs (deliver_signature against the order of insert and send).
AnswerFindsRequest ==
    \A c \in Conns : \A r \in seen[c] :
        pc[r] = "wait" /\ chan[r] = "open" => r \in pending /\ to[r] = c

\* A connection task that waits in agent_leave gets no signature over its own
\* connection: it reads no frame, so a tombstone that is signed was delivered
\* by another connection.  (What Websocket assumes of TombstoneSigned.)
LeaverNeverDelivers ==
    \A r \in Requests :
        owner[r] # NoConn /\ outcome[r] = "signed" => from[r] \in Conns \ {owner[r]}

\* A connection whose browser stalled while its task waits outside the loop
\* that checks the heartbeat, for a queue or for a request.
Stuck(c) == c \in stalled /\ (conn[c] = "reply" \/ busy[c] # NoRequest)

\* Every request ends, unless the connection it was sent to is stuck for good:
\* the wait for a place in its queue has no timeout.
RequestEnds ==
    \A r \in Requests :
        [](pc[r] = "send" => <>(pc[r] = "done") \/ <>[]Stuck(to[r]))

\* Every cleanup comes to its end, unless a stuck connection holds it up: its
\* leaves wait for signatures that other connections have to deliver.
CleanupEnds ==
    \A c \in Conns :
        [](conn[c] = "cleanup" => <>(conn[c] = "closed") \/ <>[](\E o \in Conns : Stuck(o)))

-----------------------------------------------------------------------------
\* What makes the invariants inductive

\* What a browser or a queue holds was sent to it, and asked before.
SentIsAsked ==
    \A r \in Requests, c \in Conns :
        Reached(r, c) => to[r] = c /\ pc[r] \in {"wait", "remove", "done"}

\* A request under way has a connection, and its sender is in pending_signs
\* until it is answered.
OpenIsPending ==
    \A r \in Requests :
        /\ pc[r] \in {"send", "wait", "remove"} => to[r] \in Conns
        /\ pc[r] \in {"send", "wait"} /\ chan[r] = "open" => r \in pending
        /\ pc[r] = "idle" => chan[r] = "open"
        /\ pc[r] \in {"idle", "send", "wait"} => outcome[r] = "none"

\* A connection task that made a request waits for it, outside the loop.
OwnersWait ==
    /\ \A c \in Conns : busy[c] # NoRequest => conn[c] \in {"leave", "cleanup"}
    /\ \A r \in Requests :
          owner[r] # NoConn /\ pc[r] \in {"send", "wait", "remove"} => busy[owner[r]] = r

\* An answer was delivered by a connection other than the one that waits for it.
DeliveredByOther ==
    \A r \in Requests :
        /\ chan[r] # "open" => from[r] \in Conns \ {owner[r]}
        /\ outcome[r] = "signed" => chan[r] = "signed"

IInv ==
    /\ TypeOK
    /\ SentIsAsked
    /\ PendingIsLive
    /\ OpenIsPending
    /\ OwnersWait
    /\ DeliveredByOther
=============================================================================
