------------------------ MODULE RemoteSigningProofs -------------------------
(***************************************************************************)
(* The invariants of RemoteSigning for any number of connections and       *)
(* requests and any capacity of the queues.                                *)
(***************************************************************************)
EXTENDS RemoteSigning, TLAPS

USE SigningAssumption

\* The initial state satisfies the invariant.
LEMMA InitIInv == Init => IInv
  BY DEF Init, IInv, TypeOK, SentIsAsked, Reached, PendingIsLive, OpenIsPending,
         OwnersWait, DeliveredByOther, Answers, States

-----------------------------------------------------------------------------
\* What the queues do to who is reached

\* A message appended to one queue reaches nobody else.
LEMMA AppendReaches ==
  ASSUME TypeOK, NEW c \in Conns, NEW m \in Messages,
         queue' = [queue EXCEPT ![c] = Append(@, m)], seen' = seen
  PROVE  /\ queue' \in [Conns -> Seq(Messages)]
         /\ Len(queue'[c]) = Len(queue[c]) + 1
         /\ \A o \in Conns \ {c} : queue'[o] = queue[o]
         /\ \A r \in Requests, o \in Conns :
               Reached(r, o)' => Reached(r, o) \/ (r = m /\ o = c)
<1>1. queue[c] \in Seq(Messages) BY DEF TypeOK
<1>2. /\ Append(queue[c], m) \in Seq(Messages)
      /\ Len(Append(queue[c], m)) = Len(queue[c]) + 1
      /\ \A i \in 1..Len(queue[c]) : Append(queue[c], m)[i] = queue[c][i]
      /\ Append(queue[c], m)[Len(queue[c]) + 1] = m
  BY <1>1
<1>3. queue'[c] = Append(queue[c], m) /\ \A o \in Conns \ {c} : queue'[o] = queue[o]
  BY DEF TypeOK
<1>4. queue' \in [Conns -> Seq(Messages)]
  BY <1>2 DEF TypeOK
<1>5. ASSUME NEW r \in Requests, NEW o \in Conns, Reached(r, o)'
      PROVE  Reached(r, o) \/ (r = m /\ o = c)
  <2>1. CASE o # c BY <1>3, <1>5, <2>1 DEF Reached
  <2>2. CASE o = c
    <3>1. CASE r \in seen[c] BY <2>2, <3>1 DEF Reached
    <3>2. CASE r \notin seen[c]
      <4>1. PICK i \in 1..(Len(queue[c]) + 1) : Append(queue[c], m)[i] = r
        BY <1>2, <1>3, <1>5, <2>2, <3>2 DEF Reached
      <4>2. CASE i = Len(queue[c]) + 1 BY <1>2, <2>2, <4>1, <4>2
      <4>3. CASE i # Len(queue[c]) + 1
        <5>1. i \in 1..Len(queue[c]) BY <1>1, <4>3
        <5>2. QED BY <1>2, <2>2, <4>1, <5>1 DEF Reached
      <4>4. QED BY <4>2, <4>3
    <3>3. QED BY <3>1, <3>2
  <2>3. QED BY <2>1, <2>2
<1>6. QED BY <1>2, <1>3, <1>4, <1>5

\* The send task moves a message on to the browser; nobody new is reached.
LEMMA ForwardReaches ==
  ASSUME TypeOK, NEW c \in Conns, Forward(c)
  PROVE  /\ queue' \in [Conns -> Seq(Messages)]
         /\ \A o \in Conns : Len(queue'[o]) <= Capacity
         /\ \A r \in Requests, o \in Conns : Reached(r, o)' => Reached(r, o)
<1>1. /\ queue[c] \in Seq(Messages) /\ queue[c] # <<>>
      /\ Len(queue[c]) <= Capacity
  BY DEF TypeOK, Forward
<1>2. /\ Tail(queue[c]) \in Seq(Messages)
      /\ Len(Tail(queue[c])) = Len(queue[c]) - 1
      /\ \A i \in 1..(Len(queue[c]) - 1) : Tail(queue[c])[i] = queue[c][i + 1]
      /\ Head(queue[c]) = queue[c][1] /\ Len(queue[c]) >= 1
  BY <1>1
<1>3. /\ queue'[c] = Tail(queue[c]) /\ \A o \in Conns \ {c} : queue'[o] = queue[o]
      /\ seen'[c] \subseteq seen[c] \cup {Head(queue[c])}
      /\ \A o \in Conns \ {c} : seen'[o] = seen[o]
  BY DEF TypeOK, Forward
<1>4. queue' \in [Conns -> Seq(Messages)]
  BY <1>2 DEF TypeOK, Forward
<1>5. ASSUME NEW r \in Requests, NEW o \in Conns, Reached(r, o)'
      PROVE  Reached(r, o)
  <2>1. CASE o # c BY <1>3, <1>5, <2>1 DEF Reached
  <2>2. CASE o = c /\ r \in seen'[c]
    BY <1>1, <1>2, <1>3, <2>2 DEF Reached
  <2>3. CASE o = c /\ r \notin seen'[c]
    <3>1. PICK i \in 1..(Len(queue[c]) - 1) : Tail(queue[c])[i] = r
      BY <1>2, <1>3, <1>5, <2>3 DEF Reached
    <3>2. i + 1 \in 1..Len(queue[c]) BY <1>1, <3>1
    <3>3. QED BY <1>2, <2>3, <3>1, <3>2 DEF Reached
  <2>4. QED BY <2>1, <2>2, <2>3
<1>6. ASSUME NEW o \in Conns PROVE Len(queue'[o]) <= Capacity
  <2>1. CASE o = c
    <3>1. Len(queue[c]) \in Nat /\ Capacity \in Nat BY <1>1
    <3>2. Len(queue'[c]) = Len(queue[c]) - 1 BY <1>2, <1>3
    <3>3. QED BY <1>1, <2>1, <3>1, <3>2
  <2>2. CASE o # c BY <1>3, <2>2 DEF TypeOK
  <2>3. QED BY <2>1, <2>2
<1>7. QED BY <1>4, <1>5, <1>6

\* A queue that is dropped reaches nobody.
LEMMA DropReaches ==
  ASSUME TypeOK, NEW c \in Conns, queue' = [queue EXCEPT ![c] = <<>>], seen' = seen
  PROVE  /\ queue' \in [Conns -> Seq(Messages)]
         /\ \A o \in Conns : Len(queue'[o]) <= Capacity
         /\ \A r \in Requests, o \in Conns : Reached(r, o)' => Reached(r, o)
  BY DEF TypeOK, Reached

-----------------------------------------------------------------------------
\* Steps that leave the requests alone

\* The parts of the invariant about requests survive when no request changes
\* and nobody new is reached.
LEMMA RequestsKept ==
  ASSUME IInv, UNCHANGED reqVars,
         \A r \in Requests, c \in Conns : Reached(r, c)' => Reached(r, c)
  PROVE  SentIsAsked' /\ PendingIsLive' /\ OpenIsPending' /\ DeliveredByOther'
  BY DEF IInv, TypeOK, reqVars, SentIsAsked, PendingIsLive, OpenIsPending, DeliveredByOther

\* Nobody new is reached when queues and browsers do not change.
LEMMA NothingMoves ==
  ASSUME UNCHANGED <<queue, seen>>
  PROVE  \A r \in Requests, c \in Conns : Reached(r, c)' = Reached(r, c)
  BY DEF Reached

\* A signal finds a place or is dropped, and changes nothing else.
LEMMA SignalIInv ==
  ASSUME IInv, NEW c \in Conns, SendSignal(c)
  PROVE  IInv'
<1>0. TypeOK /\ OwnersWait BY DEF IInv
<1>1. CASE ~HasRoom(c)
  <2>1. UNCHANGED queue BY <1>0, <1>1 DEF SendSignal, TypeOK
  <2>2. TypeOK' BY <1>0, <2>1 DEF TypeOK, SendSignal, connVars, reqVars
  <2>3. OwnersWait' BY <1>0 DEF OwnersWait, SendSignal, connVars, reqVars
  <2>4. QED BY <2>1, <2>2, <2>3, NothingMoves, RequestsKept DEF IInv, SendSignal
<1>2. CASE HasRoom(c)
  <2>1. /\ "signal" \in Messages /\ seen' = seen
        /\ queue' = [queue EXCEPT ![c] = Append(@, "signal")]
    BY <1>0, <1>2 DEF SendSignal, Messages, TypeOK
  <2>2. /\ queue' \in [Conns -> Seq(Messages)]
        /\ Len(queue'[c]) = Len(queue[c]) + 1
        /\ \A o \in Conns \ {c} : queue'[o] = queue[o]
        /\ \A r \in Requests, o \in Conns :
              Reached(r, o)' => Reached(r, o) \/ (r = "signal" /\ o = c)
    BY ONLY <1>0, <2>1, AppendReaches
  <2>3. Len(queue[c]) < Capacity /\ Len(queue[c]) \in Nat
    BY <1>0, <1>2 DEF HasRoom, TypeOK
  <2>4. ASSUME NEW o \in Conns PROVE Len(queue'[o]) <= Capacity
    <3>1. CASE o = c BY <2>2, <2>3, <3>1
    <3>2. CASE o # c BY <1>0, <2>2, <3>2 DEF TypeOK
    <3>3. QED BY <3>1, <3>2
  <2>5. \A r \in Requests, o \in Conns : Reached(r, o)' => Reached(r, o)
    BY <2>2
  <2>6. TypeOK' BY <1>0, <2>2, <2>4 DEF TypeOK, SendSignal, connVars, reqVars
  <2>7. OwnersWait' BY <1>0 DEF OwnersWait, SendSignal, connVars, reqVars
  <2>8. QED BY <2>5, <2>6, <2>7, RequestsKept DEF IInv, SendSignal
<1>3. QED BY <1>1, <1>2

\* The connection task, the send task and the browser keep the invariant.
LEMMA WireIInv ==
  ASSUME IInv, NEW c \in Conns,
         \/ Request(c) \/ SendRemoteSignal(c) \/ SignalsSent(c)
         \/ LeaveReturns(c) \/ Reply(c) \/ ReplyFails(c) \/ Break(c)
         \/ CleanupFinish(c) \/ Forward(c) \/ SocketFails(c) \/ Stall(c)
  PROVE  IInv'
<1>0. TypeOK /\ OwnersWait BY DEF IInv
<1>1. CASE Request(c) \/ SendRemoteSignal(c) \/ SignalsSent(c)
  <2>1. PICK s \in {"reply", "signals", "loop"} :
           /\ conn[c] \in {"loop", "signals"} /\ conn' = [conn EXCEPT ![c] = s]
           /\ UNCHANGED <<busy, wireVars, reqVars>>
    BY <1>1 DEF Request, SendRemoteSignal, SignalsSent, Takes
  <2>2. TypeOK' BY <1>0, <2>1 DEF TypeOK, States, wireVars, reqVars
  <2>3. OwnersWait' BY <1>0, <2>1 DEF TypeOK, OwnersWait, reqVars
  <2>4. QED BY <2>1, <2>2, <2>3, NothingMoves, RequestsKept DEF IInv, wireVars
<1>2. CASE LeaveReturns(c)
  <2>1. TypeOK' BY <1>0, <1>2 DEF TypeOK, States, LeaveReturns, wireVars, reqVars
  <2>2. OwnersWait' BY <1>0, <1>2 DEF TypeOK, OwnersWait, LeaveReturns, wireVars, reqVars
  <2>3. QED BY <1>2, <2>1, <2>2, NothingMoves, RequestsKept DEF IInv, LeaveReturns, wireVars
<1>3. CASE Reply(c)
  <2>1. /\ queue' \in [Conns -> Seq(Messages)]
        /\ Len(queue'[c]) = Len(queue[c]) + 1
        /\ \A o \in Conns \ {c} : queue'[o] = queue[o]
        /\ \A r \in Requests, o \in Conns : Reached(r, o)' => Reached(r, o)
    <3>1. /\ "reply" \in Messages /\ seen' = seen
          /\ queue' = [queue EXCEPT ![c] = Append(@, "reply")]
      BY <1>3 DEF Reply, Messages
    <3>2. \A r \in Requests : r # "reply" OBVIOUS
    <3>3. /\ queue' \in [Conns -> Seq(Messages)]
          /\ Len(queue'[c]) = Len(queue[c]) + 1
          /\ \A o \in Conns \ {c} : queue'[o] = queue[o]
          /\ \A r \in Requests, o \in Conns :
                Reached(r, o)' => Reached(r, o) \/ (r = "reply" /\ o = c)
      BY ONLY <1>0, <3>1, AppendReaches
    <3>4. QED BY <3>2, <3>3
  <2>2. Len(queue[c]) < Capacity /\ Len(queue[c]) \in Nat
    BY <1>0, <1>3 DEF Reply, HasRoom, TypeOK
  <2>3. ASSUME NEW o \in Conns PROVE Len(queue'[o]) <= Capacity
    <3>1. CASE o = c BY <2>1, <2>2, <3>1
    <3>2. CASE o # c BY <1>0, <2>1, <3>2 DEF TypeOK
    <3>3. QED BY <3>1, <3>2
  <2>4. TypeOK' BY <1>0, <1>3, <2>1, <2>3 DEF TypeOK, States, Reply, reqVars
  <2>5. OwnersWait' BY <1>0, <1>3 DEF TypeOK, OwnersWait, Reply, reqVars
  <2>6. QED BY <1>3, <2>1, <2>4, <2>5, RequestsKept DEF IInv, Reply
<1>4. CASE ReplyFails(c) \/ Break(c)
  <2>1. TypeOK' BY <1>0, <1>4 DEF TypeOK, States, ReplyFails, Break, EndLoop, wireVars, reqVars
  <2>2. OwnersWait'
    BY <1>0, <1>4 DEF TypeOK, OwnersWait, ReplyFails, Break, EndLoop, wireVars, reqVars
  <2>3. QED
    BY <1>4, <2>1, <2>2, NothingMoves, RequestsKept
    DEF IInv, ReplyFails, Break, EndLoop, wireVars
<1>5. CASE CleanupFinish(c)
  <2>1. /\ queue' \in [Conns -> Seq(Messages)]
        /\ \A o \in Conns : Len(queue'[o]) <= Capacity
        /\ \A r \in Requests, o \in Conns : Reached(r, o)' => Reached(r, o)
    BY <1>0, <1>5, DropReaches DEF CleanupFinish
  <2>2. TypeOK' BY <1>0, <1>5, <2>1 DEF TypeOK, States, CleanupFinish, reqVars
  <2>3. OwnersWait' BY <1>0, <1>5 DEF TypeOK, OwnersWait, CleanupFinish, reqVars
  <2>4. QED BY <1>5, <2>1, <2>2, <2>3, RequestsKept DEF IInv, CleanupFinish
<1>6. CASE Forward(c)
  <2>1. /\ queue' \in [Conns -> Seq(Messages)]
        /\ \A o \in Conns : Len(queue'[o]) <= Capacity
        /\ \A r \in Requests, o \in Conns : Reached(r, o)' => Reached(r, o)
    BY <1>0, <1>6, ForwardReaches
  <2>2. TypeOK' BY <1>0, <1>6, <2>1 DEF TypeOK, Forward, connVars, reqVars
  <2>3. OwnersWait' BY <1>0, <1>6 DEF OwnersWait, Forward, connVars, reqVars
  <2>4. QED BY <1>6, <2>1, <2>2, <2>3, RequestsKept DEF IInv, Forward
<1>7. CASE SocketFails(c)
  <2>1. /\ queue' \in [Conns -> Seq(Messages)]
        /\ \A o \in Conns : Len(queue'[o]) <= Capacity
        /\ \A r \in Requests, o \in Conns : Reached(r, o)' => Reached(r, o)
    BY <1>0, <1>7, DropReaches DEF SocketFails
  <2>2. TypeOK' BY <1>0, <1>7, <2>1 DEF TypeOK, SocketFails, connVars, reqVars
  <2>3. OwnersWait' BY <1>0, <1>7 DEF OwnersWait, SocketFails, connVars, reqVars
  <2>4. QED BY <1>7, <2>1, <2>2, <2>3, RequestsKept DEF IInv, SocketFails
<1>8. CASE Stall(c)
  <2>1. TypeOK' BY <1>0, <1>8 DEF TypeOK, Stall, connVars, reqVars
  <2>2. OwnersWait' BY <1>0, <1>8 DEF OwnersWait, Stall, connVars, reqVars
  <2>3. QED BY <1>8, <2>1, <2>2, NothingMoves, RequestsKept DEF IInv, Stall
<1>9. QED BY <1>1, <1>2, <1>3, <1>4, <1>5, <1>6, <1>7, <1>8

-----------------------------------------------------------------------------
\* The life of a request

\* A new request keeps the invariant, whoever makes it: kitsune2, or a
\* connection task that was in no request and is now outside its loop.
LEMMA AskIInv ==
  ASSUME IInv, NEW r \in Requests, NEW o \in Conns \cup {NoConn}, Ask(r, o),
         UNCHANGED wireVars,
         \/ o = NoConn /\ UNCHANGED connVars
         \/ /\ o \in Conns /\ busy[o] = NoRequest
            /\ busy' = [busy EXCEPT ![o] = r]
            /\ \E s \in {"leave", "cleanup"} : conn' = [conn EXCEPT ![o] = s]
  PROVE  IInv'
<1>0. TypeOK /\ SentIsAsked /\ PendingIsLive /\ OpenIsPending /\ OwnersWait /\ DeliveredByOther
  BY DEF IInv
<1>1. \A q \in Requests, c \in Conns : Reached(q, c)' = Reached(q, c)
  BY NothingMoves DEF wireVars
<1>2. /\ pc[r] = "idle" /\ pc'[r] \in {"send", "done"} /\ chan' = chan
      /\ pc'[r] = "send" => r \in pending' /\ to'[r] \in Conns /\ outcome'[r] = "none"
      /\ outcome'[r] # "signed" /\ chan[r] = "open" /\ from' = from
      /\ r \in pending' => pc'[r] = "send" \/ r \in garbled'
      /\ garbled' \subseteq garbled \cup {r} /\ garbled \subseteq garbled'
      /\ pending' \subseteq pending \cup {r} /\ pending \subseteq pending'
      /\ owner'[r] = o
      /\ \A q \in Requests \ {r} : /\ pc'[q] = pc[q] /\ to'[q] = to[q]
                                   /\ owner'[q] = owner[q] /\ outcome'[q] = outcome[q]
  <2>1. /\ pc[r] = "idle" /\ chan' = chan /\ from' = from /\ owner'[r] = o
        /\ \A q \in Requests \ {r} : owner'[q] = owner[q]
        /\ chan[r] = "open" /\ outcome[r] = "none"
        /\ r \in pending => r \in garbled
    BY <1>0 DEF Ask, TypeOK, OpenIsPending, PendingIsLive
  <2>2. PICK p \in {"send", "done"} : pc' = [pc EXCEPT ![r] = p]
    BY DEF Ask
  <2>3. /\ pc'[r] \in {"send", "done"}
        /\ \A q \in Requests \ {r} : pc'[q] = pc[q]
    BY <1>0, <2>2 DEF TypeOK
  <2>4. /\ outcome'[r] \in {"none", "failed"}
        /\ \A q \in Requests \ {r} : outcome'[q] = outcome[q] /\ to'[q] = to[q]
    BY <1>0, <2>1 DEF Ask, TypeOK
  <2>5. pc'[r] = "send" => r \in pending' /\ to'[r] \in Conns /\ outcome'[r] = "none"
    BY <1>0, <2>1 DEF Ask, TypeOK, Registrable
  <2>6. /\ r \in pending' => pc'[r] = "send" \/ r \in garbled'
        /\ garbled' \subseteq garbled \cup {r} /\ garbled \subseteq garbled'
        /\ pending' \subseteq pending \cup {r} /\ pending \subseteq pending'
    BY <1>0, <2>1 DEF Ask, TypeOK
  <2>7. QED BY <2>1, <2>3, <2>4, <2>5, <2>6
<1>3. TypeOK'
  <2>1. /\ pc' \in [Requests -> {"idle", "send", "wait", "remove", "done"}]
        /\ to' \in [Requests -> Conns \cup {NoConn}]
        /\ owner' \in [Requests -> Conns \cup {NoConn}]
        /\ pending' \subseteq Requests
    <3>1. pc' \in [Requests -> {"idle", "send", "wait", "remove", "done"}]
      <4>1. PICK p \in {"send", "done"} : pc' = [pc EXCEPT ![r] = p]
        BY DEF Ask
      <4>2. QED BY <1>0, <4>1 DEF TypeOK
    <3>2. to' \in [Requests -> Conns \cup {NoConn}]
      <4>1. to' = to \/ \E c \in Conns : to' = [to EXCEPT ![r] = c]
        BY DEF Ask, Registrable
      <4>2. QED BY <1>0, <4>1 DEF TypeOK
    <3>3. owner' \in [Requests -> Conns \cup {NoConn}]
      BY <1>0 DEF Ask, TypeOK
    <3>4. QED BY <1>0, <1>2, <3>1, <3>2, <3>3 DEF TypeOK
  <2>2. outcome' \in [Requests -> {"none", "failed"} \cup Answers]
    BY <1>0 DEF Ask, TypeOK
  <2>3. /\ conn' \in [Conns -> States]
        /\ busy' \in [Conns -> Requests \cup {NoRequest}]
    <3>1. CASE UNCHANGED connVars BY <1>0, <3>1 DEF TypeOK, connVars
    <3>2. CASE o \in Conns /\ busy' = [busy EXCEPT ![o] = r]
      <4>1. busy' \in [Conns -> Requests \cup {NoRequest}] BY <1>0, <3>2 DEF TypeOK
      <4>2. PICK s \in {"leave", "cleanup"} :
               conn' = [conn EXCEPT ![o] = s] \/ UNCHANGED conn
        BY DEF connVars
      <4>3. QED BY <1>0, <4>1, <4>2 DEF TypeOK, States
    <3>3. QED BY <3>1, <3>2
  <2>4. QED BY <1>0, <1>2, <2>1, <2>2, <2>3 DEF TypeOK, wireVars
<1>4. \A c \in Conns : ~Reached(r, c)
  BY <1>0, <1>2 DEF SentIsAsked
<1>5. SentIsAsked'
  BY <1>0, <1>1, <1>2, <1>4 DEF SentIsAsked
<1>6. PendingIsLive'
  <2> SUFFICES ASSUME NEW q \in pending'
               PROVE  pc'[q] \in {"send", "wait", "remove"} \/ q \in garbled'
    BY DEF PendingIsLive
  <2>1. CASE q = r BY <1>2, <2>1
  <2>2. CASE q # r
    <3>1. q \in pending /\ q \in Requests /\ pc'[q] = pc[q]
      BY <1>0, <1>2, <2>2 DEF TypeOK
    <3>2. QED BY <1>0, <1>2, <3>1 DEF PendingIsLive
  <2>3. QED BY <2>1, <2>2
<1>7. OpenIsPending'
  BY <1>0, <1>2 DEF OpenIsPending
<1>8. OwnersWait'
  <2>1. CASE o = NoConn
    BY <1>0, <1>2, <2>1 DEF OwnersWait, TypeOK, connVars
  <2>2. CASE o \in Conns
    <3>1. /\ busy[o] = NoRequest /\ busy'[o] = r /\ conn'[o] \in {"leave", "cleanup"}
          /\ \A c \in Conns \ {o} : busy'[c] = busy[c] /\ conn'[c] = conn[c]
      BY <1>0, <2>2 DEF TypeOK
    <3>2. \A c \in Conns : busy'[c] # NoRequest => conn'[c] \in {"leave", "cleanup"}
      BY <1>0, <3>1 DEF OwnersWait
    <3>3. ASSUME NEW q \in Requests, owner'[q] # NoConn,
                 pc'[q] \in {"send", "wait", "remove"}
          PROVE  busy'[owner'[q]] = q
      <4>1. CASE q = r BY <1>2, <3>1, <4>1
      <4>2. CASE q # r
        <5>1. busy[owner[q]] = q /\ owner[q] \in Conns /\ owner'[q] = owner[q]
          BY <1>0, <1>2, <3>3, <4>2 DEF OwnersWait, TypeOK
        <5>2. owner[q] # o BY <3>1, <5>1
        <5>3. QED BY <3>1, <5>1, <5>2
      <4>3. QED BY <4>1, <4>2
    <3>4. QED BY <3>2, <3>3 DEF OwnersWait
  <2>3. QED BY <2>1, <2>2
<1>9. DeliveredByOther'
  BY <1>0, <1>2 DEF DeliveredByOther
<1>10. QED BY <1>3, <1>5, <1>6, <1>7, <1>8, <1>9 DEF IInv

\* Every step of a request keeps the invariant.
LEMMA RequestIInv ==
  ASSUME IInv, NEW r \in Requests, RequestStep(r)
  PROVE  IInv'
<1>0. TypeOK /\ SentIsAsked /\ PendingIsLive /\ OpenIsPending /\ OwnersWait /\ DeliveredByOther
  BY DEF IInv
<1>1. CASE Enqueue(r)
  <2>0. to[r] \in Conns /\ pc[r] = "send"
    BY <1>0, <1>1 DEF Enqueue, OpenIsPending
  <2>1. /\ queue' \in [Conns -> Seq(Messages)]
        /\ Len(queue'[to[r]]) = Len(queue[to[r]]) + 1
        /\ \A o \in Conns \ {to[r]} : queue'[o] = queue[o]
        /\ \A q \in Requests, o \in Conns :
              Reached(q, o)' => Reached(q, o) \/ (q = r /\ o = to[r])
    <3>1. seen' = seen /\ queue' = [queue EXCEPT ![to[r]] = Append(@, r)]
          /\ r \in Messages
      BY <1>1 DEF Enqueue, Messages
    <3>2. QED BY ONLY <1>0, <2>0, <3>1, AppendReaches
  <2>2. Len(queue[to[r]]) < Capacity /\ Len(queue[to[r]]) \in Nat
    BY <1>0, <1>1, <2>0 DEF Enqueue, HasRoom, TypeOK
  <2>3. ASSUME NEW o \in Conns PROVE Len(queue'[o]) <= Capacity
    <3>1. CASE o = to[r] BY <2>1, <2>2, <3>1
    <3>2. CASE o # to[r] BY <1>0, <2>1, <3>2 DEF TypeOK
    <3>3. QED BY <3>1, <3>2
  <2>4. TypeOK' BY <1>0, <1>1, <2>1, <2>3 DEF TypeOK, Enqueue, connVars
  <2>5. SentIsAsked' BY <1>0, <1>1, <2>1 DEF TypeOK, SentIsAsked, Enqueue
  <2>6. PendingIsLive' BY <1>0, <1>1, <2>0, <2>1 DEF TypeOK, PendingIsLive, Enqueue
  <2>7. OpenIsPending' BY <1>0, <1>1, <2>0 DEF TypeOK, OpenIsPending, Enqueue
  <2>8. OwnersWait' /\ DeliveredByOther'
    BY <1>0, <1>1 DEF TypeOK, OwnersWait, DeliveredByOther, Enqueue, connVars
  <2>9. QED BY <2>4, <2>5, <2>6, <2>7, <2>8 DEF IInv
<1>2. CASE SendFails(r)
  <2>1. \A q \in Requests, c \in Conns : Reached(q, c)' = Reached(q, c)
    BY <1>2, NothingMoves DEF SendFails, wireVars
  <2>2. TypeOK' BY <1>0, <1>2 DEF TypeOK, SendFails, connVars, wireVars
  <2>3. SentIsAsked' BY <1>0, <1>2, <2>1 DEF TypeOK, SentIsAsked, SendFails
  <2>4. PendingIsLive' BY <1>0, <1>2, <2>1 DEF TypeOK, PendingIsLive, SendFails
  <2>5. OpenIsPending' BY <1>0, <1>2 DEF TypeOK, OpenIsPending, SendFails
  <2>6. OwnersWait' /\ DeliveredByOther'
    BY <1>0, <1>2 DEF TypeOK, OwnersWait, DeliveredByOther, SendFails, connVars
  <2>7. QED BY <2>2, <2>3, <2>4, <2>5, <2>6 DEF IInv
<1>3. CASE Answered(r) \/ TimesOut(r)
  <2>1. \A q \in Requests, c \in Conns : Reached(q, c)' = Reached(q, c)
    BY <1>3, NothingMoves DEF Answered, TimesOut, wireVars
  <2>2. PICK x \in {"failed"} \cup Answers :
           /\ pc[r] = "wait" /\ pc' = [pc EXCEPT ![r] = "remove"]
           /\ outcome' = [outcome EXCEPT ![r] = x]
           /\ x = "signed" => chan[r] = "signed"
           /\ UNCHANGED <<conn, busy, sendTask, queue, seen, stalled, owner, to,
                          pending, chan, from, garbled>>
    BY <1>0, <1>3 DEF TypeOK, Answered, TimesOut, connVars, wireVars
  <2>3. TypeOK' BY <1>0, <2>2 DEF TypeOK
  <2>4. SentIsAsked' BY <1>0, <2>1, <2>2 DEF TypeOK, SentIsAsked
  <2>5. PendingIsLive' BY <1>0, <2>1, <2>2 DEF TypeOK, PendingIsLive
  <2>6. OpenIsPending' BY <1>0, <2>2 DEF TypeOK, OpenIsPending
  <2>7. OwnersWait' /\ DeliveredByOther'
    BY <1>0, <2>2 DEF TypeOK, OwnersWait, DeliveredByOther
  <2>8. QED BY <2>3, <2>4, <2>5, <2>6, <2>7 DEF IInv
<1>4. CASE RemovePending(r)
  <2>1. \A q \in Requests, c \in Conns : Reached(q, c)' = Reached(q, c)
    BY <1>4, NothingMoves DEF RemovePending, wireVars
  <2>2. TypeOK' BY <1>0, <1>4 DEF TypeOK, RemovePending, connVars, wireVars
  <2>3. SentIsAsked' BY <1>0, <1>4, <2>1 DEF TypeOK, SentIsAsked, RemovePending
  <2>4. PendingIsLive' BY <1>0, <1>4, <2>1 DEF TypeOK, PendingIsLive, RemovePending
  <2>5. OpenIsPending' BY <1>0, <1>4 DEF TypeOK, OpenIsPending, RemovePending
  <2>6. OwnersWait' /\ DeliveredByOther'
    BY <1>0, <1>4 DEF TypeOK, OwnersWait, DeliveredByOther, RemovePending, connVars
  <2>7. QED BY <2>2, <2>3, <2>4, <2>5, <2>6 DEF IInv
<1>5. QED BY <1>1, <1>2, <1>3, <1>4 DEF RequestStep

\* An answer goes to a request that another task waits for: the connection task
\* that reads it is in its loop, so it waits for none.
LEMMA SignResponseIInv ==
  ASSUME IInv, NEW c \in Conns, NEW r \in Requests, NEW v \in Answers,
         SignResponse(c, r, v)
  PROVE  IInv'
<1>0. TypeOK /\ SentIsAsked /\ PendingIsLive /\ OpenIsPending /\ OwnersWait /\ DeliveredByOther
  BY DEF IInv
<1>1. \A q \in Requests, o \in Conns : Reached(q, o)' = Reached(q, o)
  BY NothingMoves DEF SignResponse, wireVars
<1>2. v # "open" BY DEF Answers
<1>3. TypeOK'
  <2>1. /\ chan' \in [Requests -> {"open"} \cup Answers]
        /\ from' \in [Requests -> Conns \cup {NoConn}]
    <3>1. \/ UNCHANGED <<chan, from>>
          \/ chan' = [chan EXCEPT ![r] = v] /\ from' = [from EXCEPT ![r] = c]
      BY DEF SignResponse
    <3>2. CASE UNCHANGED <<chan, from>>
      BY <1>0, <3>2 DEF TypeOK
    <3>3. CASE chan' = [chan EXCEPT ![r] = v] /\ from' = [from EXCEPT ![r] = c]
      <4>1. chan \in [Requests -> {"open"} \cup Answers] BY <1>0 DEF TypeOK
      <4>2. from \in [Requests -> Conns \cup {NoConn}] BY <1>0 DEF TypeOK
      <4>3. QED BY <3>3, <4>1, <4>2
    <3>4. QED BY <3>1, <3>2, <3>3
  <2>2. QED BY <1>0, <2>1 DEF TypeOK, SignResponse, connVars, wireVars
<1>4. SentIsAsked' BY <1>0, <1>1 DEF SentIsAsked, SignResponse
<1>5. PendingIsLive' BY <1>0 DEF TypeOK, PendingIsLive, SignResponse
<1>6. OpenIsPending'
  <2>1. /\ pc' = pc /\ to' = to /\ outcome' = outcome /\ pending' = pending \ {r}
        /\ \A q \in Requests \ {r} : chan'[q] = chan[q]
        /\ pc[r] \in {"send", "wait"} /\ r \in pending => chan'[r] = v
        /\ ~(pc[r] \in {"send", "wait"} /\ r \in pending) => chan'[r] = chan[r]
    BY <1>0 DEF SignResponse, TypeOK
  <2>2. QED BY <1>0, <1>2, <2>1 DEF OpenIsPending
<1>7. OwnersWait' BY <1>0 DEF OwnersWait, SignResponse, connVars
<1>8. pc[r] \in {"send", "wait"} => owner[r] # c
  BY <1>0 DEF SignResponse, Takes, OwnersWait, TypeOK
<1>9. DeliveredByOther'
  <2>1. CASE r \in pending /\ pc[r] \in {"send", "wait"}
    <3>1. /\ chan'[r] = v /\ from'[r] = c /\ owner' = owner /\ outcome' = outcome
          /\ \A q \in Requests \ {r} : chan'[q] = chan[q] /\ from'[q] = from[q]
      BY <1>0, <2>1 DEF TypeOK, SignResponse
    <3>2. outcome[r] # "signed"
      BY <1>0, <2>1 DEF OpenIsPending
    <3>3. QED BY <1>0, <1>8, <2>1, <3>1, <3>2 DEF DeliveredByOther
  <2>2. CASE ~(r \in pending /\ pc[r] \in {"send", "wait"})
    BY <1>0, <2>2 DEF DeliveredByOther, SignResponse
  <2>3. QED BY <2>1, <2>2
<1>10. QED BY <1>3, <1>4, <1>5, <1>6, <1>7, <1>9 DEF IInv

\* Unregister and the leaves of the cleanup.
LEMMA LeaveIInv ==
  ASSUME IInv, NEW c \in Conns, Unregister(c) \/ CleanupLeave(c)
  PROVE  IInv'
<1>0. TypeOK /\ OwnersWait BY DEF IInv
<1>1. UNCHANGED wireVars /\ AgentLeave(c) /\ busy[c] = NoRequest
      /\ \E s \in {"leave", "cleanup"} : conn' = [conn EXCEPT ![c] = s]
  BY <1>0 DEF Unregister, CleanupLeave, Takes, OwnersWait, TypeOK
<1>2. CASE UNCHANGED <<busy, reqVars>>
  <2>1. TypeOK' BY <1>0, <1>1, <1>2 DEF TypeOK, States, wireVars, reqVars
  <2>2. OwnersWait' BY <1>0, <1>1, <1>2 DEF TypeOK, OwnersWait, reqVars
  <2>3. QED BY <1>1, <1>2, <2>1, <2>2, NothingMoves, RequestsKept DEF IInv, wireVars
<1>3. ASSUME NEW r \in Requests, busy' = [busy EXCEPT ![c] = r], Ask(r, c)
      PROVE  IInv'
  BY <1>1, <1>3, AskIInv
<1>4. QED BY <1>1, <1>2, <1>3 DEF AgentLeave

-----------------------------------------------------------------------------
\* Every step keeps the invariant.
LEMMA NextIInv == IInv /\ [Next]_vars => IInv'
<1> SUFFICES ASSUME IInv, [Next]_vars PROVE IInv'
  OBVIOUS
<1>1. CASE UNCHANGED vars
  <2>1. UNCHANGED reqVars /\ UNCHANGED <<queue, seen>>
    BY <1>1 DEF vars, wireVars
  <2>2. TypeOK' /\ OwnersWait'
    BY <1>1 DEF IInv, TypeOK, OwnersWait, vars, connVars, wireVars, reqVars
  <2>3. QED BY <2>1, <2>2, NothingMoves, RequestsKept DEF IInv
<1>2. ASSUME NEW r \in Requests, BackgroundSign(r) PROVE IInv'
  BY <1>2, AskIInv DEF BackgroundSign
<1>3. QED
  BY <1>1, <1>2, WireIInv, SignalIInv, RequestIInv, SignResponseIInv, LeaveIInv
  DEF Next, ClientMessage, ConnStep, NextSignal, HandleWireMessage, TestSignal

\* IInv is an invariant of the protocol.
LEMMA InvariantHolds == Spec => []IInv
<1>1. Init => IInv BY InitIInv
<1>2. IInv /\ [Next]_vars => IInv' BY NextIInv
<1>3. QED BY <1>1, <1>2, PTL DEF Spec

\* The state of the protocol keeps its types; no queue exceeds its capacity.
THEOREM TypeCorrect == Spec => []TypeOK
<1>1. IInv => TypeOK BY DEF IInv
<1>2. QED BY <1>1, InvariantHolds, PTL

\* No end of a request leaves an entry in pending_signs, but for the failed
\* serialisation.
THEOREM NothingLeaks == Spec => []PendingIsLive
<1>1. IInv => PendingIsLive BY DEF IInv
<1>2. QED BY <1>1, InvariantHolds, PTL

\* An answer in time finds its request, on the connection it was sent to.
THEOREM AnswersAreRouted == Spec => []AnswerFindsRequest
<1>1. IInv => AnswerFindsRequest
  BY DEF IInv, TypeOK, AnswerFindsRequest, SentIsAsked, OpenIsPending, Reached
<1>2. QED BY <1>1, InvariantHolds, PTL

\* No connection task that waits in agent_leave reads the signature it waits for.
THEOREM NoSelfService == Spec => []LeaverNeverDelivers
<1>1. IInv => LeaverNeverDelivers
  BY DEF IInv, DeliveredByOther, LeaverNeverDelivers
<1>2. QED BY <1>1, InvariantHolds, PTL
=============================================================================
