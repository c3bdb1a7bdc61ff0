------------------------------ MODULE DhtRoutes ------------------------------
(***************************************************************************)
(* The DHT endpoints of src/routes/dht.rs: what they make of a request and *)
(* of the wire ops that the query of module DhtQuery found.  One entry and *)
(* the links of one base are followed at the peer that answers; the peer   *)
(* learns of more creates and deletes while a client asks, and got keeps   *)
(* what the client was told about the present ops.                         *)
(*                                                                         *)
(* An action hash names its action, so reconstructing an action from its   *)
(* wire form and hashing it yields the hash of what the author signed if   *)
(* every field is restored: only the tag of a link can go wrong, and the   *)
(* hash of a link is therefore the link itself.  Updates are converted     *)
(* like deletes and left out.                                              *)
(***************************************************************************)
EXTENDS Integers, Sequences, FiniteSets

CONSTANTS Creates,     \* action hashes of the creates of the entry
          MaxDeletes   \* bound: delete actions of the entry

ASSUME RoutesAssumption == IsFiniteSet(Creates) /\ MaxDeletes \in Nat

VARIABLES ops,   \* WireEntryOps of the entry, as the peer has them
          got    \* the last answer of each endpoint about them

vars == <<ops, got>>

Endpoints == {"record", "details", "record_of", "details_of", "links", "count_links",
              "agent_activity", "must_get_agent_activity"}
Unasked == [code |-> "unasked", body |-> {}]

\* The endpoints whose answers a client puts side by side; the answer of any
\* other one is looked at alone.
Together == {"record", "details"}

\* The creates of a WireEntryOps have distinct hashes; a status may be missing.
Statuses == {"Valid", "Rejected", "None"}
WireCreate(c, s) == [hash |-> c, status |-> s]
Judged == {WireCreate(c, s) : c \in Creates, s \in Statuses}
Distinct(creates) ==
    \A i, j \in DOMAIN creates : creates[i].hash = creates[j].hash => i = j

\* The links of the base, all of them of one zome: type and tag.
Links == [type : {0, 1}, tag : {"", "a"}]
NoTag == "none"

\* What the client asks for of the links; a missing parameter is -1 or NoTag.
Queries == [zome : {-1, 0}, type : {-1, 0, 1, 256}, tag : {NoTag, "", "a"}]

-----------------------------------------------------------------------------
\* Wire ops to records

IsValid(create) == create.status \in {"Valid", "None"}

Deleted(o) == {o.deletes[i] : i \in DOMAIN o.deletes}

\* Faulty: deletes are not looked at.
UsableIgnoresDeletes(o) == {i \in DOMAIN o.creates : IsValid(o.creates[i])}

\* The creates a record may be built from.
Usable(o) ==
    {i \in DOMAIN o.creates :
        IsValid(o.creates[i]) /\ o.creates[i].hash \notin Deleted(o)}

\* wire_entry_ops_to_record: the first of them, or null.  A record is the set
\* of its action hash.
WireEntryOpsToRecord(o) ==
    IF ~o.entry THEN {}
    ELSE {o.creates[i].hash : i \in {j \in Usable(o) : \A k \in Usable(o) : j <= k}}

\* A WireRecordOps is an optional Judged action and the deletes that name it;
\* wire_record_ops_to_record looks at the action only.
WireRecordOpsToRecord(r) == {create.hash : create \in r.action}

-----------------------------------------------------------------------------
\* Wire ops to details

WireRecordOpsToDetails(r) ==
    {[record |-> WireRecordOpsToRecord(r),
      status |-> IF create.status = "None" THEN "Valid" ELSE create.status,
      deletes |-> r.deletes] : create \in r.action}

\* Faulty: as many deletes as creates leave the entry Live.
EntryDhtStatusOffByOne(actions, deletes) ==
    IF actions # {} /\ Cardinality(actions) < Len(deletes) THEN "Dead" ELSE "Live"

EntryDhtStatus(actions, deletes) ==
    IF actions # {} /\ ~(Len(deletes) < Cardinality(actions)) THEN "Dead" ELSE "Live"

\* The places in creates stand for the actions.
WireEntryOpsToDetails(o) ==
    LET actions == {i \in DOMAIN o.creates : IsValid(o.creates[i])}
    IN  IF ~o.entry THEN {}
        ELSE {[actions |-> {o.creates[i].hash : i \in actions},
               rejected |-> {o.creates[i].hash : i \in DOMAIN o.creates \ actions},
               deletes |-> o.deletes,
               entry_dht_status |-> EntryDhtStatus(actions, o.deletes)]}

-----------------------------------------------------------------------------
\* Links

\* The type filter of a request: both, a zome alone, or all; link_type is cut
\* to eight bits.  A type without a zome is malformed.
TypeQuery(q) == IF q.type = -1 THEN {0, 1} ELSE {q.type % 256}
Malformed(q) == q.zome = -1 /\ q.type # -1

\* The peer returns the links that match (external): a tag is a prefix.  On the
\* wire any tag may be left out; a peer does so where it takes the request to
\* name it, and nothing in the message says that it was right.
Matches(q) == {l \in Links : l.type \in TypeQuery(q) /\ q.tag \in {NoTag, "", l.tag}}
WireTags(l) == {l.tag, NoTag}

\* Faulty: the tag of the request is preferred.
TagFromQuery(wire, q) == IF q.tag # NoTag THEN q.tag ELSE wire

RestoredTag(wire, q) ==
    IF wire # NoTag THEN wire ELSE IF q.tag # NoTag THEN q.tag ELSE ""

\* wire_link_ops_to_links: every create, whatever the deletes say.
WireLinkOpsToLinks(tags, q) ==
    {[asked |-> q, link |-> l, wire |-> tags[l],
      create_link_hash |-> [type |-> l.type, tag |-> RestoredTag(tags[l], q)]]
        : l \in Matches(q)}

-----------------------------------------------------------------------------
\* The endpoints

TypeOK ==
    /\ ops.entry \in BOOLEAN
    /\ ops.creates \in Seq(Judged) /\ Distinct(ops.creates)
    /\ ops.deletes \in Seq(Creates) /\ Len(ops.deletes) <= MaxDeletes
    /\ DOMAIN got = Endpoints

Init ==
    /\ ops = [entry |-> FALSE, creates |-> <<>>, deletes |-> <<>>]
    /\ got = [e \in Endpoints |-> Unasked]

\* The peer integrates an op (external); what the client was told of the old
\* ops is forgotten.
Learn(o) ==
    /\ ops' = o
    /\ got' = [e \in Endpoints |-> Unasked]

LearnCreate(c, s) ==
    /\ c \notin {ops.creates[i].hash : i \in DOMAIN ops.creates}
    /\ Learn([entry |-> TRUE, creates |-> Append(ops.creates, WireCreate(c, s)),
              deletes |-> ops.deletes])

LearnDelete(c) ==
    /\ Len(ops.deletes) < MaxDeletes
    /\ Learn([entry |-> ops.entry, creates |-> ops.creates,
              deletes |-> Append(ops.deletes, c)])

Answered(e, code, body) ==
    /\ got' = [x \in Endpoints |->
                  IF x = e THEN [code |-> code, body |-> body]
                  ELSE IF {x, e} \subseteq Together THEN got[x] ELSE Unasked]
    /\ UNCHANGED ops

\* parse_dna_hash, parse_any_dht_hash and the others: the request is malformed
\* (the query is also, if a link type comes without its zome).
RequestMalformed(e) == Answered(e, "malformed", {})

\* Without dht_query, or when the query fails.
QueryFails(e) == Answered(e, "error", {})

\* Ok(None): null, the empty list, or 0.  The code is kept apart only to tell
\* it from an answer made of the ops.
NothingFound(e) == Answered(e, "none", {})

\* /record and /details of the entry hash (WireOps::Entry) ...
DhtGetRecord == Answered("record", "ok", WireEntryOpsToRecord(ops))
DhtGetDetails == Answered("details", "ok", WireEntryOpsToDetails(ops))

\* ... and of an action hash (WireOps::Record).
RecordOps(c) ==
    [action |-> {create \in {ops.creates[i] : i \in DOMAIN ops.creates} : create.hash = c},
     deletes |-> Cardinality({i \in DOMAIN ops.deletes : ops.deletes[i] = c})]

DhtGetRecordOf(c) == Answered("record_of", "ok", WireRecordOpsToRecord(RecordOps(c)))
DhtGetDetailsOf(c) == Answered("details_of", "ok", WireRecordOpsToDetails(RecordOps(c)))

DhtGetLinks(q) ==
    /\ ~Malformed(q)
    /\ \E tags \in [Links -> {NoTag, "", "a"}] :
          /\ \A l \in Links : tags[l] \in WireTags(l)
          /\ Answered("links", "ok", WireLinkOpsToLinks(tags, q))

DhtCountLinks(q) ==
    /\ ~Malformed(q)
    /\ Answered("count_links", "ok", {Cardinality(Matches(q))})

\* Passed on as they are; the options only ask the peer for less.
DhtGetAgentActivity == Answered("agent_activity", "ok", {"activity"})
DhtMustGetAgentActivity == Answered("must_get_agent_activity", "ok", {"activity"})

-----------------------------------------------------------------------------
Next ==
    \/ \E c \in Creates : (\E s \in Statuses : LearnCreate(c, s)) \/ LearnDelete(c)
    \/ \E e \in Endpoints : RequestMalformed(e) \/ QueryFails(e) \/ NothingFound(e)
    \/ DhtGetRecord \/ DhtGetDetails
    \/ \E c \in Creates : DhtGetRecordOf(c) \/ DhtGetDetailsOf(c)
    \/ \E q \in Queries : DhtGetLinks(q) \/ DhtCountLinks(q)
    \/ DhtGetAgentActivity \/ DhtMustGetAgentActivity

Spec == Init /\ [][Next]_vars

-----------------------------------------------------------------------------
\* Properties

\* An entry that /record no longer serves, though it has accepted creates, is
\* Dead in /details: the number of deletes never falls short of what the set of
\* deleted hashes says.
UnservedEntryIsDead ==
    got["record"].code = "ok" /\ got["record"].body = {} =>
        \A d \in got["details"].body : d.actions # {} => d.entry_dht_status = "Dead"

\* The other way, for ops in which each delete names an accepted create of its
\* own: an entry that is served is not Dead.  (Two deletes of one create, or the
\* delete of a rejected one, make an entry Dead that /record serves.)
OneDeleteEach ==
    \A i \in DOMAIN ops.deletes :
        /\ \A j \in DOMAIN ops.deletes : ops.deletes[i] = ops.deletes[j] => i = j
        /\ \E k \in DOMAIN ops.creates :
              IsValid(ops.creates[k]) /\ ops.creates[k].hash = ops.deletes[i]
ServedEntryIsLive ==
    got["record"].body # {} /\ OneDeleteEach =>
        \A d \in got["details"].body : d.entry_dht_status = "Live"

\* The links returned are of the type asked for, and each carries the hash of
\* its own create action, the one that deleting it needs, unless its tag was
\* left out by the peer and is not the very tag the request names.  (A type of
\* 256 or more is cut to eight bits and asks for another type.)
LinksMatchTheQuery ==
    \A l \in got["links"].body :
        /\ l.create_link_hash # l.link => l.wire = NoTag /\ l.asked.tag # l.link.tag
        /\ l.asked.type \in 0..255 => l.link.type = l.asked.type

-----------------------------------------------------------------------------
\* What makes them inductive: the answers kept are about the present ops.
AnswersAreOfTheOps ==
    /\ got["record"].body =
          IF got["record"].code = "ok" THEN WireEntryOpsToRecord(ops) ELSE {}
    /\ got["details"].body \in {{}, WireEntryOpsToDetails(ops)}

RoutesIInv == TypeOK /\ AnswersAreOfTheOps /\ LinksMatchTheQuery
=============================================================================
