--------------------------- MODULE PublishProofs ----------------------------
(***************************************************************************)
(* What the temporary op store keeps under any number of publish requests: *)
(* an op can be fetched for all of its time to live and for less than a    *)
(* round of the cleanup task longer.  And what a request may be believed:  *)
(* its count is exact and its success is true, for all bodies and peers.   *)
(***************************************************************************)
EXTENDS Publish, FiniteSetTheorems, SequenceTheorems, TLAPS

-----------------------------------------------------------------------------
\* The store

\* The initial state satisfies the invariant.
LEMMA StoreInitIInv == TempOpStoreInit => StoreIInv
  BY TempOpStoreAssumption
  DEF TempOpStoreInit, StoreIInv, TempOpStoreTypeOK, Stored, Absent

\* Storing an op starts its time anew.
LEMMA StoreOpIInv ==
  ASSUME StoreIInv, NEW o, StoreOp(o)
  PROVE  StoreIInv'
<1>1. ASSUME NEW p \in Ops
      PROVE  /\ age'[p] = IF p = o THEN 0 ELSE age[p]
             /\ since'[p] = IF p = o THEN 0 ELSE since[p]
  BY DEF StoreOp, StoreIInv, TempOpStoreTypeOK
<1>2. TempOpStoreTypeOK'
  <2>1. 0 \in 0..OP_TTL /\ 0 \in -1..(OP_TTL + CLEANUP_INTERVAL)
    BY TempOpStoreAssumption
  <2>2. /\ age' \in [Ops -> -1..(OP_TTL + CLEANUP_INTERVAL)]
        /\ since' \in [Ops -> 0..OP_TTL]
    <3> DEFINE Ages == -1..(OP_TTL + CLEANUP_INTERVAL)
               Times == 0..OP_TTL
    <3>1. age \in [Ops -> Ages] /\ since \in [Ops -> Times]
      BY DEF StoreIInv, TempOpStoreTypeOK
    <3>2. 0 \in Ages /\ 0 \in Times BY <2>1
    <3> HIDE DEF Ages, Times
    <3>3. age' \in [Ops -> Ages] /\ since' \in [Ops -> Times]
      BY <3>1, <3>2 DEF StoreOp
    <3>4. QED BY <3>3 DEF Ages, Times
  <2>3. QED BY <2>2 DEF StoreOp, StoreIInv, TempOpStoreTypeOK
<1>3. QED
  BY TempOpStoreAssumption, <1>1, <1>2
  DEF StoreOp, StoreIInv, TempOpStoreTypeOK, Stored, Absent

\* A round of the cleanup task leaves only what is within its time.
LEMMA CleanupIInv ==
  ASSUME StoreIInv, CleanupTask
  PROVE  StoreIInv'
<1>1. ASSUME NEW o \in Ops
      PROVE  age'[o] = IF age[o] < OP_TTL THEN age[o] ELSE -1
  BY DEF CleanupTask, Retain, Absent
<1>2. TempOpStoreTypeOK'
  BY TempOpStoreAssumption, <1>1
  DEF CleanupTask, Retain, Absent, StoreIInv, TempOpStoreTypeOK
<1>3. ASSUME NEW o \in Ops, since'[o] < OP_TTL PROVE age'[o] = since'[o]
  BY <1>1, <1>3 DEF CleanupTask, StoreIInv, TempOpStoreTypeOK
<1>4. ASSUME NEW o \in Ops, age'[o] # -1
      PROVE  age'[o] + sleep' < OP_TTL + CLEANUP_INTERVAL
  BY TempOpStoreAssumption, <1>1, <1>4 DEF CleanupTask, StoreIInv, TempOpStoreTypeOK
<1>5. QED BY <1>2, <1>3, <1>4 DEF StoreIInv, Stored, Absent

\* Time adds to the age what it takes from the sleep.
LEMMA TickIInv ==
  ASSUME StoreIInv, Tick
  PROVE  StoreIInv'
<1> USE TempOpStoreAssumption
<1>1. ASSUME NEW o \in Ops
      PROVE  /\ age[o] \in -1..(OP_TTL + CLEANUP_INTERVAL) /\ since[o] \in 0..OP_TTL
             /\ age[o] # -1 => /\ age[o] + sleep < OP_TTL + CLEANUP_INTERVAL
                               /\ age'[o] = age[o] + 1
             /\ age[o] = -1 => age'[o] = -1
             /\ since'[o] = IF since[o] < OP_TTL THEN since[o] + 1 ELSE since[o]
             /\ since[o] < OP_TTL => age[o] = since[o]
  BY DEF Tick, StoreIInv, TempOpStoreTypeOK, Stored, Absent
<1>2. sleep \in 1..CLEANUP_INTERVAL /\ sleep' = sleep - 1
  BY DEF Tick, StoreIInv, TempOpStoreTypeOK
<1>3. TempOpStoreTypeOK'
  <2>1. sleep' \in 0..CLEANUP_INTERVAL BY <1>2
  <2>2. ASSUME NEW o \in Ops
        PROVE  /\ age'[o] \in -1..(OP_TTL + CLEANUP_INTERVAL)
               /\ since'[o] \in 0..OP_TTL
    BY <1>1, <1>2
  <2>3. /\ age' = [o \in Ops |-> age'[o]]
        /\ since' = [o \in Ops |-> since'[o]]
    BY DEF Tick
  <2>4. QED BY <2>1, <2>2, <2>3 DEF TempOpStoreTypeOK
<1>4. ASSUME NEW o \in Ops, since'[o] < OP_TTL PROVE age'[o] = since'[o]
  BY <1>1, <1>4
<1>5. ASSUME NEW o \in Ops, age'[o] # -1
      PROVE  age'[o] + sleep' < OP_TTL + CLEANUP_INTERVAL
  BY <1>1, <1>2, <1>5
<1>6. QED BY <1>3, <1>4, <1>5 DEF StoreIInv, Stored, Absent

\* Every step keeps the invariant; of a request only ProcessSignedOp touches
\* the store.
LEMMA StoreNextIInv ==
  ASSUME StoreIInv, [Next]_vars
  PROVE  StoreIInv'
<1>1. ASSUME UNCHANGED storeVars PROVE StoreIInv'
  BY <1>1 DEF storeVars, StoreIInv, TempOpStoreTypeOK, Stored
<1>2. ASSUME NEW x \in Handlers, ProcessSignedOp(x) PROVE StoreIInv'
  BY <1>2, StoreOpIInv DEF ProcessSignedOp
<1>3. QED
  BY <1>1, <1>2, CleanupIInv, TickIInv
  DEF Next, vars, DhtPublish, HandlerStep, ProcessFails, OpsByLoc, PublishOpsFails, PublishOps,
      SendTo, SendToFails, GroupDone, Respond, Drop

\* The inductive invariant holds in every reachable state.
THEOREM StoreInductive == Spec => []StoreIInv
<1>1. Init => StoreIInv BY StoreInitIInv DEF Init
<1>2. QED BY <1>1, StoreNextIInv, PTL DEF Spec

\* The store keeps its types.
THEOREM StoreTypeCorrect == Spec => []TempOpStoreTypeOK
<1>1. StoreIInv => TempOpStoreTypeOK BY DEF StoreIInv
<1>2. QED BY <1>1, StoreInductive, PTL

\* For every time to live and cleanup interval, an op that was stored less than
\* OP_TTL ago is served, however often and by whomever it was stored before.
THEOREM FreshOpsAreThere == Spec => []FreshOpsAreServed
<1>1. StoreIInv => FreshOpsAreServed
  BY DEF StoreIInv, TempOpStoreTypeOK, FreshOpsAreServed, RetrieveOps, Stored, Absent
<1>2. QED BY <1>1, StoreInductive, PTL

\* No record outlives its time by a round of the cleanup task.
THEOREM NothingStaysLong == Spec => []OldOpsAreRemoved
<1>1. ASSUME StoreIInv PROVE OldOpsAreRemoved
  <2>1. ASSUME NEW o \in Stored PROVE age[o] < OP_TTL + CLEANUP_INTERVAL
    <3>1. age[o] \in -1..(OP_TTL + CLEANUP_INTERVAL) /\ sleep \in 0..CLEANUP_INTERVAL
      BY <1>1 DEF StoreIInv, TempOpStoreTypeOK, Stored
    <3>2. age[o] + sleep < OP_TTL + CLEANUP_INTERVAL BY <1>1 DEF StoreIInv
    <3>3. QED BY TempOpStoreAssumption, <3>1, <3>2
  <2>2. QED BY <2>1 DEF OldOpsAreRemoved
<1>2. QED BY <1>1, StoreInductive, PTL

-----------------------------------------------------------------------------
\* The requests

\* A request that changes its state to one that is in order leaves all in order.
LEMMA SetKeeps ==
  ASSUME HandlersIInv, NEW x \in Handlers, NEW r, HandlerOK(x, r), Set(x, r)
  PROVE  HandlersIInv'
  BY DEF HandlersIInv, Set

\* The places of a list that satisfy a condition are finitely many.
LEMMA SomePlacesAreFinite ==
  ASSUME NEW T, NEW s \in Seq(T), NEW P \in SUBSET DOMAIN s
  PROVE  IsFiniteSet(P) /\ Cardinality(P) \in Nat
<1>1. Len(s) \in Nat /\ DOMAIN s = 1..Len(s) OBVIOUS
<1>2. IsFiniteSet(1..Len(s)) BY <1>1, FS_Interval
<1>3. IsFiniteSet(P) BY <1>1, <1>2, FS_Subset
<1>4. QED BY <1>3, FS_CardinalityType

\* Moving the head of one list to the end of another keeps the two together.
LEMMA HeadMoves ==
  ASSUME NEW T, NEW s \in Seq(T), NEW t \in Seq(T), t # <<>>
  PROVE  Append(s, Head(t)) \o Tail(t) = s \o t
<1> DEFINE a == Append(s, Head(t)) \o Tail(t)
           b == s \o t
<1>1. /\ Len(s) \in Nat /\ Len(t) \in Nat \ {0}
      /\ Head(t) \in T /\ Head(t) = t[1] /\ Tail(t) \in Seq(T) /\ Len(Tail(t)) = Len(t) - 1
      /\ \A i \in 1..(Len(t) - 1) : Tail(t)[i] = t[i + 1]
  BY HeadTailProperties, EmptySeq, LenProperties
<1>2. /\ Append(s, Head(t)) \in Seq(T) /\ Len(Append(s, Head(t))) = Len(s) + 1
      /\ \A i \in 1..Len(s) : Append(s, Head(t))[i] = s[i]
      /\ Append(s, Head(t))[Len(s) + 1] = t[1]
  BY <1>1, AppendProperties
<1>3. /\ a \in Seq(T) /\ Len(a) = Len(s) + 1 + (Len(t) - 1)
      /\ \A i \in 1..(Len(s) + 1 + (Len(t) - 1)) :
            a[i] = IF i <= Len(s) + 1 THEN Append(s, Head(t))[i] ELSE Tail(t)[i - (Len(s) + 1)]
  BY <1>1, <1>2, ConcatProperties
<1>4. /\ b \in Seq(T) /\ Len(b) = Len(s) + Len(t)
      /\ \A i \in 1..(Len(s) + Len(t)) : b[i] = IF i <= Len(s) THEN s[i] ELSE t[i - Len(s)]
  BY ConcatProperties
<1> HIDE DEF a, b
<1>5. Len(a) = Len(b) BY <1>1, <1>3, <1>4
<1>6. ASSUME NEW i \in 1..Len(a) PROVE a[i] = b[i]
  <2>1. i \in 1..(Len(s) + Len(t)) /\ i \in 1..(Len(s) + 1 + (Len(t) - 1))
    BY <1>1, <1>3
  <2>2. CASE i <= Len(s) BY <1>1, <1>2, <1>3, <1>4, <2>1, <2>2
  <2>3. CASE i = Len(s) + 1 BY <1>1, <1>2, <1>3, <1>4, <2>1, <2>3
  <2>4. CASE i > Len(s) + 1
    <3>1. i - (Len(s) + 1) \in 1..(Len(t) - 1) /\ i - (Len(s) + 1) + 1 = i - Len(s)
      BY <1>1, <2>1, <2>4
    <3>2. a[i] = t[i - Len(s)] BY <1>1, <1>3, <2>1, <2>4, <3>1
    <3>3. b[i] = t[i - Len(s)] BY <1>1, <1>4, <2>1, <2>4
    <3>4. QED BY <3>2, <3>3
  <2>5. QED BY <1>1, <2>1, <2>2, <2>3, <2>4
<1>7. a = b BY <1>3, <1>4, <1>5, <1>6, SeqEqual
<1>8. QED BY <1>7 DEF a, b

\* A request that has not arrived is in order.
LEMMA NewHandlerOK ==
  ASSUME NEW x \in Handlers
  PROVE  HandlerOK(x, NewHandler)
<1>1. NewHandler \in HandlerStates
  BY EmptySeq DEF NewHandler, HandlerStates
<1>2. /\ NewHandler.pc = "idle" /\ NewHandler.processed = <<>> /\ NewHandler.failed = 0
      /\ NewHandler.published = 0 /\ NewHandler.told = {}
  BY DEF NewHandler
<1>3. QED BY <1>1, <1>2 DEF HandlerOK

\* The request arrives.
LEMMA DhtPublishOK ==
  ASSUME HandlersIInv, NEW x \in Handlers, DhtPublish(x)
  PROVE  HandlersIInv'
<1> DEFINE z == h[x]
           r == [z EXCEPT !.pc = "store", !.todo = Body[x]]
<1>1. HandlerOK(x, z) /\ z \in HandlerStates /\ z.pc = "idle"
  BY DEF HandlersIInv, HandlerOK, DhtPublish
<1>2. Set(x, r) BY DEF DhtPublish
<1> HIDE DEF z
<1>3. r \in HandlerStates
  BY <1>1, PublishAssumption DEF HandlerStates
<1>4. /\ r.pc = "store" /\ r.todo = Body[x] /\ r.processed = z.processed
      /\ r.failed = z.failed /\ r.published = z.published /\ r.told = z.told
  BY <1>1 DEF HandlerStates
<1> HIDE DEF r
<1>5. HandlerOK(x, r) 
  <2>1. r.processed \o r.todo = Body[x] BY <1>1, <1>4, PublishAssumption DEF HandlerOK
  <2>2. QED BY <1>1, <1>3, <1>4, <2>1 DEF HandlerOK
<1>6. QED BY <1>2, <1>5, SetKeeps

\* Phase 1 takes the ops one by one.
LEMMA ProcessOK ==
  ASSUME HandlersIInv, NEW x \in Handlers, ProcessSignedOp(x) \/ ProcessFails(x)
  PROVE  HandlersIInv'
<1> DEFINE z == h[x]
           r == [z EXCEPT !.todo = Tail(@), !.processed = Append(@, Head(z.todo))]
           f == [z EXCEPT !.todo = Tail(@), !.failed = @ + 1]
<1>1. /\ HandlerOK(x, z) /\ z \in HandlerStates /\ z.pc = "store" /\ z.todo # <<>>
      /\ z.todo \in Seq(Ops) /\ z.processed \in Seq(Ops)
  BY DEF HandlersIInv, HandlerOK, ProcessSignedOp, ProcessFails, HandlerStates
<1>2. Set(x, r) \/ Set(x, f) BY DEF ProcessSignedOp, ProcessFails
<1> HIDE DEF z
<1>3. Head(z.todo) \in Ops /\ Tail(z.todo) \in Seq(Ops) BY <1>1
<1>4. r \in HandlerStates /\ f \in HandlerStates
  <2>1. Append(z.processed, Head(z.todo)) \in Seq(Ops) BY <1>1, <1>3
  <2>2. z.failed + 1 \in Nat BY <1>1 DEF HandlerStates
  <2>3. r \in HandlerStates BY <1>1, <1>3, <2>1 DEF HandlerStates
  <2>4. f \in HandlerStates BY <1>1, <1>3, <2>2 DEF HandlerStates
  <2>5. QED BY <2>3, <2>4
<1>5. /\ r.pc = "store" /\ r.todo = Tail(z.todo)
      /\ r.processed = Append(z.processed, Head(z.todo))
      /\ r.failed = z.failed /\ r.published = z.published /\ r.told = z.told
      /\ f.pc = "store" /\ f.failed = z.failed + 1
      /\ f.published = z.published /\ f.told = z.told
  BY <1>1 DEF HandlerStates
<1> HIDE DEF r, f
<1>6. HandlerOK(x, r)
  <2>1. r.processed \o r.todo = z.processed \o z.todo BY <1>1, <1>5, HeadMoves
  <2>2. QED BY <1>1, <1>4, <1>5, <2>1 DEF HandlerOK
<1>7. HandlerOK(x, f)
  <2>1. f.failed # 0 BY <1>1, <1>5 DEF HandlerStates
  <2>2. QED BY <1>1, <1>4, <1>5, <2>1 DEF HandlerOK
<1>8. QED BY <1>2, <1>6, <1>7, SetKeeps

\* Phase 2 begins with nothing counted.
LEMMA OpsByLocOK ==
  ASSUME HandlersIInv, NEW x \in Handlers, OpsByLoc(x)
  PROVE  HandlersIInv'
<1> DEFINE z == h[x]
           g == {l \in Locs : At(z.processed, l) # {}}
           r == [z EXCEPT !.pc = "publish", !.groups = g]
<1>1. /\ HandlerOK(x, z) /\ z \in HandlerStates /\ z.pc = "store" /\ z.todo = <<>>
      /\ z.processed \in Seq(Ops)
  BY DEF HandlersIInv, HandlerOK, OpsByLoc, HandlerStates
<1>2. Set(x, r) BY DEF OpsByLoc
<1>3. g \in SUBSET Locs OBVIOUS
<1> HIDE DEF z, g
<1>4. r \in HandlerStates BY <1>1, <1>3 DEF HandlerStates
<1>5. /\ r.pc = "publish" /\ r.groups = g /\ r.processed = z.processed
      /\ r.failed = z.failed /\ r.published = z.published /\ r.told = z.told
  BY <1>1 DEF HandlerStates
<1> HIDE DEF r
<1>6. r.failed = 0 => r.processed = Body[x]
  <2>1. z.processed \o z.todo = z.processed BY <1>1, ConcatEmptySeq
  <2>2. QED BY <1>1, <1>5, <2>1 DEF HandlerOK
<1>7. r.told = {} /\ r.published = 0 BY <1>1, <1>5 DEF HandlerOK
<1>8. Counted(r) = {} BY <1>5, <1>7 DEF Counted
<1>9. HandlerOK(x, r) BY <1>4, <1>5, <1>6, <1>7, <1>8, FS_EmptySet DEF HandlerOK
<1>10. QED BY <1>2, <1>9, SetKeeps

\* A group is taken up, or given up: its ops are not counted yet, nor was a peer
\* told of them.
LEMMA PublishOpsOK ==
  ASSUME HandlersIInv, NEW x \in Handlers, NEW l \in Locs,
         PublishOpsFails(x, l) \/ \E urls \in UrlSets : PublishOps(x, l, urls)
  PROVE  HandlersIInv'
<1> DEFINE z == h[x]
           f == [z EXCEPT !.groups = @ \ {l}]
           r(urls) == [z EXCEPT !.pc = "send", !.groups = @ \ {l}, !.loc = l,
                                !.urls = urls, !.sent = FALSE]
<1>1. /\ HandlerOK(x, z) /\ z \in HandlerStates /\ z.pc = "publish" /\ l \in z.groups
      /\ z.groups \ {l} \in SUBSET Locs
  BY DEF HandlersIInv, HandlerOK, PublishOpsFails, PublishOps, HandlerStates
<1>2. Set(x, f) \/ \E urls \in UrlSets : Set(x, r(urls)) BY DEF PublishOpsFails, PublishOps
<1> HIDE DEF z
<1>3. l \notin z.told BY <1>1 DEF HandlerOK
<1>4. HandlerOK(x, f)
  <2>1. f \in HandlerStates BY <1>1 DEF HandlerStates
  <2>2. /\ f.pc = "publish" /\ f.groups = z.groups \ {l} /\ f.processed = z.processed
        /\ f.failed = z.failed /\ f.published = z.published /\ f.told = z.told
    BY <1>1 DEF HandlerStates
  <2> HIDE DEF f
  <2>3. Counted(f) = Counted(z) BY <1>1, <2>2 DEF Counted
  <2>4. f.told \cap f.groups = {} BY <1>1, <2>2 DEF HandlerOK
  <2>5. QED BY <1>1, <2>1, <2>2, <2>3, <2>4 DEF HandlerOK
<1>5. ASSUME NEW urls \in UrlSets PROVE HandlerOK(x, r(urls))
  <2> DEFINE s == r(urls)
  <2>1. urls \in SUBSET Urls BY DEF UrlSets, PublishUrls, Urls
  <2>2. s \in HandlerStates BY <1>1, <2>1 DEF HandlerStates
  <2>3. /\ s.pc = "send" /\ s.groups = z.groups \ {l} /\ s.loc = l /\ s.sent = FALSE
        /\ s.processed = z.processed
        /\ s.failed = z.failed /\ s.published = z.published /\ s.told = z.told
    BY <1>1 DEF HandlerStates
  <2> HIDE DEF s
  <2>4. s.told \ {s.loc} = z.told BY <1>3, <2>3
  <2>5. Counted(s) = Counted(z) BY <1>1, <2>3, <2>4 DEF Counted
  <2>6. s.told \cap s.groups = {} BY <1>1, <2>3 DEF HandlerOK
  <2>7. HandlerOK(x, s) BY <1>1, <1>3, <2>2, <2>3, <2>5, <2>6 DEF HandlerOK
  <2>8. QED BY <2>7 DEF s
<1> HIDE DEF f, r
<1>6. QED BY <1>2, <1>4, <1>5, SetKeeps

\* A peer is told, or can not be told.
LEMMA SendOK ==
  ASSUME HandlersIInv, NEW x \in Handlers, NEW url, SendTo(x, url) \/ SendToFails(x, url)
  PROVE  HandlersIInv'
<1> DEFINE z == h[x]
           f == [z EXCEPT !.urls = @ \ {url}]
           r == [z EXCEPT !.urls = @ \ {url}, !.sent = TRUE, !.told = @ \cup {z.loc}]
<1>1. /\ HandlerOK(x, z) /\ z \in HandlerStates /\ z.pc = "send"
      /\ z.urls \ {url} \in SUBSET Urls
  BY DEF HandlersIInv, HandlerOK, SendTo, SendToFails, HandlerStates
<1>2. Set(x, f) \/ Set(x, r) BY DEF SendTo, SendToFails
<1> HIDE DEF z
<1>3. HandlerOK(x, f)
  <2>1. f \in HandlerStates BY <1>1 DEF HandlerStates
  <2>2. /\ f.pc = "send" /\ f.groups = z.groups /\ f.processed = z.processed
        /\ f.failed = z.failed /\ f.published = z.published /\ f.told = z.told
        /\ f.loc = z.loc /\ f.sent = z.sent
    BY <1>1 DEF HandlerStates
  <2> HIDE DEF f
  <2>3. Counted(f) = Counted(z) BY <1>1, <2>2 DEF Counted
  <2>4. QED BY <1>1, <2>1, <2>2, <2>3 DEF HandlerOK
<1>4. HandlerOK(x, r)
  <2>1. z.told \cup {z.loc} \in SUBSET Locs
    BY <1>1 DEF HandlerStates, HandlerOK
  <2>2. r \in HandlerStates BY <1>1, <2>1 DEF HandlerStates
  <2>3. /\ r.pc = "send" /\ r.groups = z.groups /\ r.processed = z.processed
        /\ r.failed = z.failed /\ r.published = z.published
        /\ r.told = z.told \cup {z.loc} /\ r.loc = z.loc /\ r.sent = TRUE
    BY <1>1 DEF HandlerStates
  <2> HIDE DEF r
  <2>4. r.told \ {r.loc} = z.told \ {z.loc} BY <2>3
  <2>5. Counted(r) = Counted(z) BY <1>1, <2>3, <2>4 DEF Counted
  <2>6. r.told \cap r.groups = {} BY <1>1, <2>3 DEF HandlerOK
  <2>7. QED BY <1>1, <2>2, <2>3, <2>5, <2>6 DEF HandlerOK
<1> HIDE DEF f, r
<1>5. QED BY <1>2, <1>3, <1>4, SetKeeps

\* When a group is done, its ops are added to the count if a peer was told:
\* they are none of those counted before.
LEMMA GroupDoneOK ==
  ASSUME HandlersIInv, NEW x \in Handlers, GroupDone(x)
  PROVE  HandlersIInv'
<1> DEFINE z == h[x]
           n == z.published + IF z.sent THEN Cardinality(At(z.processed, z.loc)) ELSE 0
           r == [z EXCEPT !.pc = "publish", !.loc = 0, !.sent = FALSE, !.published = n]
<1>1. /\ HandlerOK(x, z) /\ z \in HandlerStates /\ z.pc = "send" /\ z.processed \in Seq(Ops)
  BY DEF HandlersIInv, HandlerOK, GroupDone, HandlerStates
<1>2. Set(x, r) BY DEF GroupDone
<1> HIDE DEF z
<1>3. /\ IsFiniteSet(At(z.processed, z.loc)) /\ Cardinality(At(z.processed, z.loc)) \in Nat
      /\ IsFiniteSet(Counted(z)) /\ Cardinality(Counted(z)) \in Nat
  <2>1. At(z.processed, z.loc) \in SUBSET DOMAIN z.processed BY DEF At
  <2>2. Counted(z) \in SUBSET DOMAIN z.processed BY DEF Counted
  <2>3. QED BY <1>1, <2>1, <2>2, SomePlacesAreFinite
<1>4. z.published = Cardinality(Counted(z)) BY <1>1 DEF HandlerOK
<1>5. n \in Nat BY <1>3, <1>4
<1> HIDE DEF n
<1>6. r \in HandlerStates BY <1>1, <1>5 DEF HandlerStates
<1>7. /\ r.pc = "publish" /\ r.groups = z.groups /\ r.processed = z.processed
      /\ r.failed = z.failed /\ r.published = n /\ r.told = z.told
  BY <1>1 DEF HandlerStates
<1> HIDE DEF r
<1>8. n = Cardinality(Counted(r))
  <2>1. CASE z.sent
    <3>1. z.loc \in z.told BY <1>1, <2>1 DEF HandlerOK
    <3>2. Counted(r) = Counted(z) \cup At(z.processed, z.loc)
      BY <1>1, <1>7, <3>1 DEF Counted, At
    <3>3. Counted(z) \cap At(z.processed, z.loc) = {} BY <1>1 DEF Counted, At
    <3>4. Cardinality(Counted(r)) =
            Cardinality(Counted(z)) + Cardinality(At(z.processed, z.loc)) - Cardinality({})
      BY <1>3, <3>2, <3>3, FS_Union
    <3>5. Cardinality({}) = 0 BY FS_EmptySet
    <3>6. QED BY <1>3, <1>4, <2>1, <3>4, <3>5 DEF n
  <2>2. CASE ~z.sent
    <3>1. z.told \ {z.loc} = z.told BY <1>1, <2>2 DEF HandlerOK
    <3>2. Counted(r) = Counted(z) BY <1>1, <1>7, <3>1 DEF Counted
    <3>3. QED BY <1>3, <1>4, <2>2, <3>2 DEF n
  <2>3. QED BY <2>1, <2>2
<1>9. HandlerOK(x, r) BY <1>1, <1>6, <1>7, <1>8 DEF HandlerOK
<1>10. QED BY <1>2, <1>9, SetKeeps

\* The response is made, and delivered or dropped.
LEMMA RespondOK ==
  ASSUME HandlersIInv, NEW x \in Handlers, Respond(x) \/ Drop(x)
  PROVE  HandlersIInv'
<1> DEFINE z == h[x]
           r == [z EXCEPT !.pc = "done"]
           f == [NewHandler EXCEPT !.pc = "closed"]
<1>1. HandlerOK(x, z) /\ z \in HandlerStates BY DEF HandlersIInv, HandlerOK
<1>2. (z.pc = "publish" /\ Set(x, r)) \/ Set(x, f) BY DEF Respond, Drop
<1> HIDE DEF z
<1>3. ASSUME z.pc = "publish" PROVE HandlerOK(x, r)
  <2>1. r \in HandlerStates BY <1>1 DEF HandlerStates
  <2>2. /\ r.pc = "done" /\ r.groups = z.groups /\ r.processed = z.processed
        /\ r.failed = z.failed /\ r.published = z.published /\ r.told = z.told
    BY <1>1 DEF HandlerStates
  <2> HIDE DEF r
  <2>3. Counted(r) = Counted(z) BY <1>3, <2>2 DEF Counted
  <2>4. QED BY <1>1, <1>3, <2>1, <2>2, <2>3 DEF HandlerOK
<1>4. HandlerOK(x, f)
  <2>1. NewHandler \in HandlerStates BY NewHandlerOK DEF HandlerOK
  <2>2. f \in HandlerStates /\ f.pc = "closed" BY <2>1 DEF HandlerStates
  <2> HIDE DEF f
  <2>3. QED BY <2>2 DEF HandlerOK
<1> HIDE DEF f, r
<1>5. QED BY <1>2, <1>3, <1>4, SetKeeps

\* Every step keeps the invariant.
LEMMA HandlersNextIInv ==
  ASSUME HandlersIInv, [Next]_vars
  PROVE  HandlersIInv'
<1>1. ASSUME UNCHANGED h PROVE HandlersIInv'
  BY <1>1 DEF HandlersIInv
<1>2. QED
  BY <1>1, DhtPublishOK, ProcessOK, OpsByLocOK, PublishOpsOK, SendOK, GroupDoneOK, RespondOK
  DEF Next, vars, HandlerStep

\* The inductive invariant of the requests holds in every reachable state.
THEOREM HandlersInductive == Spec => []HandlersIInv
<1>1. Init => HandlersIInv BY NewHandlerOK DEF Init, HandlersIInv
<1>2. QED BY <1>1, HandlersNextIInv, PTL DEF Spec

\* The response counts exactly the ops that a peer was told of, for all bodies,
\* locations and peers.
THEOREM CountIsExact == Spec => []PublishedWasAnnounced
<1>1. ASSUME HandlersIInv PROVE PublishedWasAnnounced
  BY <1>1 DEF HandlersIInv, HandlerOK, Counted, PublishedWasAnnounced
<1>2. QED BY <1>1, HandlersInductive, PTL

\* A response of success stands for a request all of whose ops were stored and,
\* unless it had none, announced to some peer.
THEOREM SuccessIsTrue == Spec => []SuccessIsHonest
<1>1. ASSUME HandlersIInv PROVE SuccessIsHonest
  <2> SUFFICES ASSUME NEW x \in Handlers, h[x].pc = "done", Success(x)
               PROVE  h[x].processed = Body[x] /\ (Body[x] # <<>> => h[x].told # {})
    BY DEF SuccessIsHonest
  <2>1. /\ h[x].processed = Body[x] /\ h[x].published = Cardinality(Counted(h[x]))
    BY <1>1 DEF HandlersIInv, HandlerOK, Success
  <2>2. ASSUME Body[x] # <<>> PROVE h[x].told # {}
    <3>1. Cardinality(Counted(h[x])) > 0 BY <2>1, <2>2 DEF Success
    <3>2. Counted(h[x]) # {} BY <3>1, FS_EmptySet
    <3>3. QED BY <3>2 DEF Counted
  <2>3. QED BY <2>1, <2>2
<1>2. QED BY <1>1, HandlersInductive, PTL
=============================================================================
