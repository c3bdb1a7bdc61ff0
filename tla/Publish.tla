------------------------------ MODULE Publish -------------------------------
(***************************************************************************)
(* POST /dht/{dna_hash}/publish (src/routes/publish.rs) and publish_ops of *)
(* src/gateway_kitsune.rs, over the store of module TempOpStore: every op  *)
(* of the request is stored, then the ops are announced to the peers near  *)
(* their basis location, one group per location and one peer at a time.    *)
(* Requests run concurrently, share the store and may be dropped with      *)
(* their client at any await.                                              *)
(***************************************************************************)
EXTENDS TempOpStore, Sequences, FiniteSets

CONSTANTS Handlers,   \* requests
          Body,       \* the list of ops each of them carries
          Loc,        \* basis location of each op
          Infos       \* agent infos that peer stores hold: url and is_tombstone

NoUrl == "none"

ASSUME PublishAssumption ==
    /\ Body \in [Handlers -> Seq(Ops)]
    /\ DOMAIN Loc = Ops

VARIABLES h    \* the local state of each request

vars == <<storeVars, h>>

Locs == {Loc[o] : o \in Ops}
Urls == {i.url : i \in Infos} \ {NoUrl}

\* The ops of a list that have location l, by their place in it.
At(list, l) == {i \in DOMAIN list : Loc[list[i]] = l}

-----------------------------------------------------------------------------
NewHandler ==
    [pc |-> "idle",
     todo |-> <<>>,         \* ops not yet processed
     processed |-> <<>>,    \* processed_ops; queued is its length
     failed |-> 0, published |-> 0,
     groups |-> {},         \* locations of ops_by_loc not yet published
     loc |-> 0,             \* the one that publish_ops works on
     urls |-> {},           \* peers it has not tried
     sent |-> FALSE,        \* its success_count is not 0
     told |-> {}]           \* history: locations whose ops some peer was told

Init ==
    /\ TempOpStoreInit
    /\ h = [x \in Handlers |-> NewHandler]

Set(x, r) == h' = [h EXCEPT ![x] = r]

\* The request arrives and its DNA hash parses (else nothing happens).
DhtPublish(x) ==
    /\ h[x].pc = "idle"
    /\ Set(x, [h[x] EXCEPT !.pc = "store", !.todo = Body[x]])
    /\ UNCHANGED storeVars

\* Phase 1.  One op is decoded and stored ...
ProcessSignedOp(x) ==
    /\ h[x].pc = "store" /\ h[x].todo # <<>>
    /\ StoreOp(Head(h[x].todo))
    /\ Set(x, [h[x] EXCEPT !.todo = Tail(@),
                           !.processed = Append(@, Head(h[x].todo))])

\* ... or it is refused: base64, length of the signature, DhtOp, a WarrantOp,
\* or no TempOpStore.
ProcessFails(x) ==
    /\ h[x].pc = "store" /\ h[x].todo # <<>>
    /\ Set(x, [h[x] EXCEPT !.todo = Tail(@), !.failed = @ + 1])
    /\ UNCHANGED storeVars

\* Phase 2.  ops_by_loc; a HashMap, so groups come in any order.
OpsByLoc(x) ==
    /\ h[x].pc = "store" /\ h[x].todo = <<>>
    /\ Set(x, [h[x] EXCEPT !.pc = "publish",
                           !.groups = {l \in Locs : At(h[x].processed, l) # {}}])
    /\ UNCHANGED storeVars

\* Unique URLs of the agents that are no tombstones.
PublishUrls(infos) == {i.url : i \in {j \in infos : ~j.is_tombstone}} \ {NoUrl}

UrlSets == {PublishUrls(infos) : infos \in SUBSET Infos}

\* publish_ops has its space and finds the agents near l, with these URLs ...
PublishOps(x, l, urls) ==
    /\ h[x].pc = "publish" /\ l \in h[x].groups
    /\ Set(x, [h[x] EXCEPT !.pc = "send", !.groups = @ \ {l}, !.loc = l,
                           !.urls = urls, !.sent = FALSE])
    /\ UNCHANGED storeVars

\* ... or fails before it tries a peer.
PublishOpsFails(x, l) ==
    /\ h[x].pc = "publish" /\ l \in h[x].groups
    /\ Set(x, [h[x] EXCEPT !.groups = @ \ {l}])
    /\ UNCHANGED storeVars

\* One peer is told of the ops of the group, or can not be told.
SendTo(x, url) ==
    /\ h[x].pc = "send" /\ url \in h[x].urls
    /\ Set(x, [h[x] EXCEPT !.urls = @ \ {url}, !.sent = TRUE,
                           !.told = @ \cup {h[x].loc}])
    /\ UNCHANGED storeVars

SendToFails(x, url) ==
    /\ h[x].pc = "send" /\ url \in h[x].urls
    /\ Set(x, [h[x] EXCEPT !.urls = @ \ {url}])
    /\ UNCHANGED storeVars

\* Faulty: Ok(0) counts as published.
GroupDoneAnyhow(x) ==
    /\ h[x].pc = "send" /\ h[x].urls = {}
    /\ Set(x, [h[x] EXCEPT !.pc = "publish", !.loc = 0, !.sent = FALSE,
                  !.published = @ + Cardinality(At(h[x].processed, h[x].loc))])
    /\ UNCHANGED storeVars

\* The ops of a group count as published if some peer was told.
GroupDone(x) ==
    /\ h[x].pc = "send" /\ h[x].urls = {}
    /\ Set(x, [h[x] EXCEPT !.pc = "publish",
                  !.loc = 0, !.sent = FALSE,
                  !.published = @ + IF h[x].sent
                                    THEN Cardinality(At(h[x].processed, h[x].loc)) ELSE 0])
    /\ UNCHANGED storeVars

Respond(x) ==
    /\ h[x].pc = "publish" /\ h[x].groups = {}
    /\ Set(x, [h[x] EXCEPT !.pc = "done"])
    /\ UNCHANGED storeVars

\* The response is delivered, or the client went away before; what was stored
\* and announced stays so.
Drop(x) ==
    /\ h[x].pc \in {"store", "publish", "send", "done"}
    /\ Set(x, [NewHandler EXCEPT !.pc = "closed"])
    /\ UNCHANGED storeVars

\* Faulty: one op that reached the store is enough.
SuccessIfStored(x) == h[x].failed = 0 \/ h[x].published > 0

\* PublishResponse::success
Success(x) ==
    h[x].failed = 0 /\ (h[x].processed = <<>> \/ h[x].published > 0)

-----------------------------------------------------------------------------
HandlerStep(x) ==
    \/ ProcessSignedOp(x) \/ ProcessFails(x) \/ OpsByLoc(x)
    \/ \E l \in Locs :
          PublishOpsFails(x, l) \/ \E urls \in UrlSets : PublishOps(x, l, urls)
    \/ \E url \in Urls : SendTo(x, url) \/ SendToFails(x, url)
    \/ GroupDone(x) \/ Respond(x)

Next ==
    \/ Tick /\ UNCHANGED h
    \/ CleanupTask /\ UNCHANGED h
    \/ \E x \in Handlers :
          DhtPublish(x) \/ HandlerStep(x) \/ Drop(x)

\* Time passes, tokio runs the tasks that are ready, and the calls into
\* kitsune2 return.
Fairness ==
    /\ WF_vars(Tick /\ UNCHANGED h)
    /\ WF_vars(CleanupTask /\ UNCHANGED h)
    /\ \A x \in Handlers : WF_vars(HandlerStep(x))

Spec == Init /\ [][Next]_vars /\ Fairness

-----------------------------------------------------------------------------
\* Properties

\* Every op that was stored less than OP_TTL ago, by whichever request, is
\* served to a peer that fetches it: publishing an op again starts its time anew.
FreshOpsAreServed ==
    {o \in Ops : since[o] < OP_TTL} \subseteq RetrieveOps(Ops)

\* No op stays longer than a round of the cleanup task after its time.
OldOpsAreRemoved ==
    \A o \in Stored : age[o] < OP_TTL + CLEANUP_INTERVAL

\* The count in the response is the number of the request's ops that a peer was
\* told of, whatever order the groups came in and whichever peers failed.
PublishedWasAnnounced ==
    \A x \in Handlers : h[x].pc = "done" =>
        h[x].published =
            Cardinality({i \in DOMAIN h[x].processed : Loc[h[x].processed[i]] \in h[x].told})

\* A success was told to some peer, and all of its ops went into the store.
SuccessIsHonest ==
    \A x \in Handlers : h[x].pc = "done" /\ Success(x) =>
        /\ h[x].processed = Body[x]
        /\ Body[x] # <<>> => h[x].told # {}

\* Once nobody publishes, the store empties.
StoreDrains == <>[](Stored = {})

-----------------------------------------------------------------------------
\* What makes the first two inductive: a record of a fresh op has the op's age,
\* and what a record is over its time is no more than the task has slept.
StoreIInv ==
    /\ TempOpStoreTypeOK
    /\ \A o \in Ops : since[o] < OP_TTL => age[o] = since[o]
    /\ \A o \in Stored : age[o] + sleep < OP_TTL + CLEANUP_INTERVAL

\* The local state of a request.
HandlerStates ==
    [pc : {"idle", "store", "publish", "send", "done", "closed"},
     todo : Seq(Ops), processed : Seq(Ops), failed : Nat, published : Nat,
     groups : SUBSET Locs, loc : Locs \cup {0}, urls : SUBSET Urls, sent : BOOLEAN,
     told : SUBSET Locs]

\* The ops that the count of request state r stands for: those of the locations
\* told, but for the one that publish_ops is still at.
Counted(r) ==
    LET settled == IF r.pc = "send" THEN r.told \ {r.loc} ELSE r.told
    IN  {i \in DOMAIN r.processed : Loc[r.processed[i]] \in settled}

\* What makes the other two inductive: in phase 1 nothing is counted and no op is
\* lost unless it is counted as failed; in phase 2 the count is exact, and no
\* location is told of before its turn.
HandlerOK(x, r) ==
    /\ r \in HandlerStates
    /\ r.pc = "idle" => r.processed = <<>> /\ r.failed = 0
    /\ r.pc \in {"idle", "store"} => r.published = 0 /\ r.told = {}
    /\ r.pc = "store" /\ r.failed = 0 => r.processed \o r.todo = Body[x]
    /\ r.pc \in {"publish", "send", "done"} =>
          /\ r.failed = 0 => r.processed = Body[x]
          /\ r.published = Cardinality(Counted(r))
          /\ r.told \cap r.groups = {}
    /\ r.pc = "send" => /\ r.loc \in Locs \ r.groups
                        /\ r.sent <=> r.loc \in r.told

HandlersIInv ==
    /\ DOMAIN h = Handlers
    /\ \A x \in Handlers : HandlerOK(x, h[x])
=============================================================================
