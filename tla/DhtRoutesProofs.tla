-------------------------- MODULE DhtRoutesProofs ---------------------------
(***************************************************************************)
(* What a client may conclude from the answers of the DHT endpoints, for   *)
(* every number of creates and deletes: /record and /details agree on      *)
(* whether an entry is alive, and a link comes with its own hash.          *)
(***************************************************************************)
EXTENDS DhtRoutes, FiniteSetTheorems, WellFoundedInduction, TLAPS

-----------------------------------------------------------------------------
\* What the operators on wire ops compute

\* A set of natural numbers that has a member has a least one.
LEMMA LeastExists ==
  ASSUME NEW S, S \subseteq Nat, S # {}
  PROVE  \E n \in S : \A m \in S : n <= m
<1>1. PICK n \in S : \A m \in S : ~(<<m, n>> \in OpToRel(<, Nat))
  BY NatLessThanWellFounded, WFMin
<1>2. ASSUME NEW m \in S PROVE n <= m
  <2>1. m \in Nat /\ n \in Nat OBVIOUS
  <2>2. ~(m < n) BY <1>1, <2>1 DEF OpToRel
  <2>3. QED BY <2>1, <2>2
<1>3. QED BY <1>2

\* The places of a list, and how many there are.
LEMMA PlacesAreFinite ==
  ASSUME NEW T, NEW s \in Seq(T)
  PROVE  /\ DOMAIN s \subseteq Nat /\ IsFiniteSet(DOMAIN s)
         /\ Cardinality(DOMAIN s) = Len(s) /\ Len(s) \in Nat
<1>1. Len(s) \in Nat /\ DOMAIN s = 1..Len(s) OBVIOUS
<1>2. /\ IsFiniteSet(1..Len(s))
      /\ Cardinality(1..Len(s)) = IF 1 > Len(s) THEN 0 ELSE Len(s) - 1 + 1
  BY <1>1, FS_Interval
<1>3. QED BY <1>1, <1>2

\* wire_entry_ops_to_record yields null only when no create is usable: the
\* first usable one exists if any does.
LEMMA NullMeansNoneUsable ==
  ASSUME NEW o, o.creates \in Seq(Judged), o.entry, WireEntryOpsToRecord(o) = {}
  PROVE  Usable(o) = {}
<1> SUFFICES ASSUME Usable(o) # {} PROVE FALSE
  OBVIOUS
<1>1. Usable(o) \subseteq Nat BY PlacesAreFinite DEF Usable
<1>2. PICK n \in Usable(o) : \A m \in Usable(o) : n <= m BY <1>1, LeastExists
<1>3. o.creates[n].hash \in WireEntryOpsToRecord(o) BY <1>2 DEF WireEntryOpsToRecord
<1>4. QED BY <1>3

\* The creates that make the actions of /details.
Accepted(o) == {i \in DOMAIN o.creates : IsValid(o.creates[i])}

\* There are finitely many of them.
LEMMA AcceptedIsFinite ==
  ASSUME NEW o, o.creates \in Seq(Judged)
  PROVE  IsFiniteSet(Accepted(o)) /\ Cardinality(Accepted(o)) \in Nat
<1>1. IsFiniteSet(DOMAIN o.creates) BY PlacesAreFinite
<1>2. Accepted(o) \in SUBSET DOMAIN o.creates BY DEF Accepted
<1>3. IsFiniteSet(Accepted(o)) BY <1>1, <1>2, FS_Subset
<1>4. QED BY <1>3, FS_CardinalityType

\* Where every accepted create is deleted there are at least as many deletes
\* as accepted creates: their hashes are distinct.
LEMMA DeletesCoverCreates ==
  ASSUME NEW o, o.creates \in Seq(Judged), Distinct(o.creates), o.deletes \in Seq(Creates),
         Usable(o) = {}
  PROVE  Cardinality(Accepted(o)) <= Len(o.deletes)
<1> DEFINE D == DOMAIN o.deletes
           f == [i \in Accepted(o) |-> CHOOSE j \in D : o.deletes[j] = o.creates[i].hash]
<1>1. ASSUME NEW i \in Accepted(o) PROVE f[i] \in D /\ o.deletes[f[i]] = o.creates[i].hash
  <2>1. o.creates[i].hash \in Deleted(o) BY DEF Accepted, Usable
  <2>2. \E j \in D : o.deletes[j] = o.creates[i].hash BY <2>1 DEF Deleted
  <2>3. QED BY <2>2
<1> HIDE DEF f
<1>2. \A i, j \in Accepted(o) : f[i] = f[j] => i = j
  <2> SUFFICES ASSUME NEW i \in Accepted(o), NEW j \in Accepted(o), f[i] = f[j]
               PROVE  i = j
    OBVIOUS
  <2>1. o.creates[i].hash = o.creates[j].hash BY <1>1
  <2>2. QED BY <2>1 DEF Distinct, Accepted
<1>3. f \in [Accepted(o) -> D] BY <1>1 DEF f
<1>4. f \in Injection(Accepted(o), D) BY <1>2, <1>3 DEF Injection, IsInjective
<1>5. IsFiniteSet(D) /\ Cardinality(D) = Len(o.deletes) BY PlacesAreFinite
<1>6. QED BY <1>4, <1>5, FS_Injection

\* Where each delete names an accepted create of its own and one of these is
\* usable, there are fewer deletes than accepted creates.
LEMMA DeletesLeaveOne ==
  ASSUME NEW o, o.creates \in Seq(Judged), o.deletes \in Seq(Creates),
         \A i \in DOMAIN o.deletes :
            /\ \A j \in DOMAIN o.deletes : o.deletes[i] = o.deletes[j] => i = j
            /\ \E k \in DOMAIN o.creates :
                  IsValid(o.creates[k]) /\ o.creates[k].hash = o.deletes[i],
         NEW u \in Usable(o)
  PROVE  Len(o.deletes) < Cardinality(Accepted(o))
<1> DEFINE D == DOMAIN o.deletes
           A == Accepted(o) \ {u}
           f == [i \in D |-> CHOOSE k \in A : o.creates[k].hash = o.deletes[i]]
<1>1. ASSUME NEW i \in D PROVE f[i] \in A /\ o.creates[f[i]].hash = o.deletes[i]
  <2>1. PICK k \in Accepted(o) : o.creates[k].hash = o.deletes[i] BY DEF Accepted
  <2>2. k # u BY <2>1 DEF Usable, Deleted
  <2>3. \E m \in A : o.creates[m].hash = o.deletes[i] BY <2>1, <2>2
  <2>4. QED BY <2>3
<1> HIDE DEF f
<1>2. f \in Injection(D, A)
  <2>1. f \in [D -> A] BY <1>1 DEF f
  <2>2. ASSUME NEW i \in D, NEW j \in D, f[i] = f[j] PROVE i = j
    <3>1. o.deletes[i] = o.deletes[j] BY <1>1, <2>2
    <3>2. QED BY <3>1
  <2>3. QED BY <2>1, <2>2 DEF Injection, IsInjective
<1>3. IsFiniteSet(Accepted(o)) /\ Cardinality(Accepted(o)) \in Nat BY AcceptedIsFinite
<1>4. u \in Accepted(o) BY DEF Usable, Accepted
<1>5. IsFiniteSet(A) /\ Cardinality(A) = Cardinality(Accepted(o)) - 1
  BY <1>3, <1>4, FS_RemoveElement
<1>6. Cardinality(D) <= Cardinality(A) BY <1>2, <1>5, FS_Injection
<1>7. Cardinality(D) = Len(o.deletes) /\ Len(o.deletes) \in Nat BY PlacesAreFinite
<1>8. QED BY <1>3, <1>5, <1>6, <1>7

-----------------------------------------------------------------------------
\* The answers

\* A create that is learned has a new hash.
LEMMA LearnTypeOK ==
  ASSUME TypeOK, NEW c \in Creates,
         (\E s \in Statuses : LearnCreate(c, s)) \/ LearnDelete(c)
  PROVE  TypeOK' /\ got' = [e \in Endpoints |-> Unasked]
<1>1. ASSUME NEW s \in Statuses, LearnCreate(c, s) PROVE TypeOK' /\ got' = [e \in Endpoints |-> Unasked]
  <2> DEFINE new == WireCreate(c, s)
  <2>1. new \in Judged /\ new.hash = c BY DEF WireCreate, Judged
  <2> HIDE DEF new
  <2>2. /\ ops'.entry = TRUE /\ ops'.deletes = ops.deletes
        /\ ops'.creates = Append(ops.creates, new)
        /\ got' = [e \in Endpoints |-> Unasked]
    BY <1>1 DEF LearnCreate, Learn, new
  <2>3. ops'.creates \in Seq(Judged) BY <2>1, <2>2 DEF TypeOK
  <2>4. Distinct(ops'.creates)
    <3>1. \A i \in DOMAIN ops.creates : ops.creates[i].hash # c BY <1>1 DEF LearnCreate
    <3>2. ASSUME NEW i \in DOMAIN ops'.creates
          PROVE  \/ i \in DOMAIN ops.creates /\ ops'.creates[i] = ops.creates[i]
                 \/ i = Len(ops.creates) + 1 /\ ops'.creates[i] = new
      BY <2>1, <2>2 DEF TypeOK
    <3>3. QED BY <2>1, <3>1, <3>2 DEF TypeOK, Distinct
  <2>5. QED BY <2>2, <2>3, <2>4 DEF TypeOK
<1>2. ASSUME LearnDelete(c) PROVE TypeOK' /\ got' = [e \in Endpoints |-> Unasked]
  <2>1. /\ ops'.entry = ops.entry /\ ops'.creates = ops.creates
        /\ ops'.deletes = Append(ops.deletes, c) /\ Len(ops.deletes) < MaxDeletes
        /\ got' = [e \in Endpoints |-> Unasked]
    BY <1>2 DEF LearnDelete, Learn
  <2>2. ops'.deletes \in Seq(Creates) /\ Len(ops'.deletes) <= MaxDeletes
    BY <2>1, RoutesAssumption DEF TypeOK
  <2>3. QED BY <2>1, <2>2 DEF TypeOK
<1>3. QED BY <1>1, <1>2

\* An answer changes what the client was told by its own endpoint; of others
\* it keeps or forgets what they said.
LEMMA AnsweredKeeps ==
  ASSUME RoutesIInv, NEW e \in Endpoints, NEW code, NEW body, Answered(e, code, body),
         e = "record" => body = IF code = "ok" THEN WireEntryOpsToRecord(ops) ELSE {},
         e = "details" => body \in {{}, WireEntryOpsToDetails(ops)},
         e = "links" => \A l \in body :
            /\ l.create_link_hash # l.link => l.wire = NoTag /\ l.asked.tag # l.link.tag
            /\ l.asked.type \in 0..255 => l.link.type = l.asked.type
  PROVE  RoutesIInv'
<1>1. ops' = ops BY DEF Answered
<1>2. ASSUME NEW x \in Endpoints
      PROVE  \/ x = e /\ got'[x].code = code /\ got'[x].body = body
             \/ x # e /\ got'[x] = got[x]
             \/ x # e /\ got'[x].code = "unasked" /\ got'[x].body = {}
  BY DEF Answered, Unasked
<1>3. {"record", "details", "links"} \subseteq Endpoints BY DEF Endpoints
<1>4. TypeOK' BY <1>1 DEF RoutesIInv, TypeOK, Answered
<1>5. AnswersAreOfTheOps'
  <2>1. WireEntryOpsToRecord(ops)' = WireEntryOpsToRecord(ops)
        /\ WireEntryOpsToDetails(ops)' = WireEntryOpsToDetails(ops)
    BY <1>1
  <2>2. got'["record"].body =
          IF got'["record"].code = "ok" THEN WireEntryOpsToRecord(ops) ELSE {}
    BY <1>2, <1>3 DEF RoutesIInv, AnswersAreOfTheOps
  <2>3. got'["details"].body \in {{}, WireEntryOpsToDetails(ops)}
    BY <1>2, <1>3 DEF RoutesIInv, AnswersAreOfTheOps
  <2>4. QED BY <2>1, <2>2, <2>3 DEF AnswersAreOfTheOps
<1>6. LinksMatchTheQuery'
  <2>1. \/ e = "links" /\ got'["links"].body = body
        \/ got'["links"].body \in {got["links"].body, {}}
    BY <1>2, <1>3
  <2>2. QED BY <2>1 DEF RoutesIInv, LinksMatchTheQuery
<1>7. QED BY <1>4, <1>5, <1>6 DEF RoutesIInv

\* A link type that fits into eight bits is not changed by cutting it.
LEMMA CutToEightBits ==
  ASSUME NEW t \in {-1, 0, 1, 256}, t \in 0..255
  PROVE  t # -1 /\ t % 256 = t
  OBVIOUS

\* A tag that came over the wire, or that the request names, is restored to what
\* the author signed, and a link matches the type of the request.
LEMMA LinksAreRestored ==
  ASSUME NEW q \in Queries, NEW tags \in [Links -> {NoTag, "", "a"}],
         \A l \in Links : tags[l] \in WireTags(l),
         NEW r \in WireLinkOpsToLinks(tags, q)
  PROVE  /\ r.create_link_hash # r.link => r.wire = NoTag /\ r.asked.tag # r.link.tag
         /\ r.asked.type \in 0..255 => r.link.type = r.asked.type
<1>1. PICK l \in Matches(q) :
        r = [asked |-> q, link |-> l, wire |-> tags[l],
             create_link_hash |-> [type |-> l.type, tag |-> RestoredTag(tags[l], q)]]
  BY DEF WireLinkOpsToLinks
<1>2. /\ l \in Links /\ l.type \in TypeQuery(q) /\ tags[l] \in WireTags(l)
      /\ l.type \in {0, 1} /\ l.tag \in {"", "a"} /\ l = [type |-> l.type, tag |-> l.tag]
  BY DEF Matches, Links
<1>3. tags[l] # NoTag \/ q.tag = l.tag => RestoredTag(tags[l], q) = l.tag
  BY <1>2 DEF RestoredTag, WireTags, NoTag
<1>4. q.type \in {-1, 0, 1, 256} BY DEF Queries
<1>5. q.type \in 0..255 => l.type = q.type
  BY <1>2, <1>4, CutToEightBits DEF TypeQuery
<1>6. QED BY <1>1, <1>2, <1>3, <1>5

\* Every step keeps the invariant.
LEMMA RoutesNextIInv ==
  ASSUME RoutesIInv, [Next]_vars
  PROVE  RoutesIInv'
<1>1. ASSUME NEW c \in Creates, (\E s \in Statuses : LearnCreate(c, s)) \/ LearnDelete(c)
      PROVE  RoutesIInv'
  <2>1. TypeOK' /\ got' = [e \in Endpoints |-> Unasked] BY <1>1, LearnTypeOK DEF RoutesIInv
  <2>2. /\ got'["record"].code = "unasked" /\ got'["record"].body = {}
        /\ got'["details"].body = {} /\ got'["links"].body = {}
    BY <2>1 DEF Endpoints, Unasked
  <2>3. QED BY <2>1, <2>2 DEF RoutesIInv, AnswersAreOfTheOps, LinksMatchTheQuery
<1>2. ASSUME NEW e \in Endpoints, RequestMalformed(e) \/ QueryFails(e) \/ NothingFound(e)
      PROVE  RoutesIInv'
  BY <1>2, AnsweredKeeps DEF RequestMalformed, QueryFails, NothingFound
<1>3. ASSUME DhtGetRecord \/ DhtGetDetails PROVE RoutesIInv'
  <2>1. "record" \in Endpoints /\ "details" \in Endpoints BY DEF Endpoints
  <2>2. QED BY <1>3, <2>1, AnsweredKeeps DEF DhtGetRecord, DhtGetDetails
<1>4. ASSUME NEW c \in Creates, DhtGetRecordOf(c) \/ DhtGetDetailsOf(c) PROVE RoutesIInv'
  <2>1. "record_of" \in Endpoints /\ "details_of" \in Endpoints BY DEF Endpoints
  <2>2. QED BY <1>4, <2>1, AnsweredKeeps DEF DhtGetRecordOf, DhtGetDetailsOf
<1>5. ASSUME NEW q \in Queries, DhtGetLinks(q) PROVE RoutesIInv'
  <2>1. "links" \in Endpoints BY DEF Endpoints
  <2>2. PICK tags \in [Links -> {NoTag, "", "a"}] :
          /\ \A l \in Links : tags[l] \in WireTags(l)
          /\ Answered("links", "ok", WireLinkOpsToLinks(tags, q))
    BY <1>5 DEF DhtGetLinks
  <2>3. \A r \in WireLinkOpsToLinks(tags, q) :
          /\ r.create_link_hash # r.link => r.wire = NoTag /\ r.asked.tag # r.link.tag
          /\ r.asked.type \in 0..255 => r.link.type = r.asked.type
    BY <2>2, LinksAreRestored
  <2>4. QED BY <2>1, <2>2, <2>3, AnsweredKeeps
<1>6. ASSUME NEW q \in Queries, DhtCountLinks(q) PROVE RoutesIInv'
  <2>1. "count_links" \in Endpoints BY DEF Endpoints
  <2>2. QED BY <1>6, <2>1, AnsweredKeeps DEF DhtCountLinks
<1>7. ASSUME DhtGetAgentActivity \/ DhtMustGetAgentActivity PROVE RoutesIInv'
  <2>1. "agent_activity" \in Endpoints /\ "must_get_agent_activity" \in Endpoints
    BY DEF Endpoints
  <2>2. QED BY <1>7, <2>1, AnsweredKeeps DEF DhtGetAgentActivity, DhtMustGetAgentActivity
<1>8. ASSUME UNCHANGED vars PROVE RoutesIInv'
  BY <1>8 DEF vars, RoutesIInv, TypeOK, AnswersAreOfTheOps, LinksMatchTheQuery
<1>9. QED BY <1>1, <1>2, <1>3, <1>4, <1>5, <1>6, <1>7, <1>8 DEF Next

\* The inductive invariant holds in every reachable state.
THEOREM RoutesInductive == Spec => []RoutesIInv
<1>1. Init => RoutesIInv
  <2> SUFFICES ASSUME Init PROVE RoutesIInv
    OBVIOUS
  <2>1. /\ ops.entry = FALSE /\ ops.creates = <<>> /\ ops.deletes = <<>>
        /\ got = [e \in Endpoints |-> Unasked]
    BY DEF Init
  <2>2. /\ got["record"].code = "unasked" /\ got["record"].body = {}
        /\ got["details"].body = {} /\ got["links"].body = {}
    BY <2>1 DEF Endpoints, Unasked
  <2>3. TypeOK
    <3>1. /\ <<>> \in Seq(Judged) /\ <<>> \in Seq(Creates) /\ Len(<<>>) <= MaxDeletes
          /\ DOMAIN <<>> = {}
      BY RoutesAssumption
    <3>2. Distinct(ops.creates) BY <2>1, <3>1 DEF Distinct
    <3>3. QED BY <2>1, <3>1, <3>2 DEF TypeOK
  <2>4. QED BY <2>2, <2>3 DEF RoutesIInv, AnswersAreOfTheOps, LinksMatchTheQuery
<1>2. QED BY <1>1, RoutesNextIInv, PTL DEF Spec

\* What there is to say of the one answer that /details gives.
LEMMA DetailsSay ==
  ASSUME RoutesIInv, NEW d \in got["details"].body
  PROVE  /\ ops.entry
         /\ d.actions = {ops.creates[i].hash : i \in Accepted(ops)}
         /\ d.entry_dht_status = EntryDhtStatus(Accepted(ops), ops.deletes)
<1>1. d \in WireEntryOpsToDetails(ops) BY DEF RoutesIInv, AnswersAreOfTheOps
<1>2. QED BY <1>1 DEF WireEntryOpsToDetails, Accepted

\* The ops keep their types and the hashes of the creates stay distinct.
THEOREM TypeCorrect == Spec => []TypeOK
<1>1. RoutesIInv => TypeOK BY DEF RoutesIInv
<1>2. QED BY <1>1, RoutesInductive, PTL

\* For all creates and deletes, an entry with accepted creates for which
\* /record answers null is Dead in /details.
THEOREM NullRecordsAreDead == Spec => []UnservedEntryIsDead
<1>1. ASSUME RoutesIInv PROVE UnservedEntryIsDead
  <2> SUFFICES ASSUME got["record"].code = "ok", got["record"].body = {},
                      NEW d \in got["details"].body, d.actions # {}
               PROVE  d.entry_dht_status = "Dead"
    BY DEF UnservedEntryIsDead
  <2>1. /\ ops.creates \in Seq(Judged) /\ Distinct(ops.creates)
        /\ ops.deletes \in Seq(Creates)
    BY <1>1 DEF RoutesIInv, TypeOK
  <2>2. /\ ops.entry /\ Accepted(ops) # {}
        /\ d.entry_dht_status = EntryDhtStatus(Accepted(ops), ops.deletes)
    BY <1>1, DetailsSay
  <2>3. WireEntryOpsToRecord(ops) = {} BY <1>1 DEF RoutesIInv, AnswersAreOfTheOps
  <2>4. Usable(ops) = {} BY <2>1, <2>2, <2>3, NullMeansNoneUsable
  <2>5. Cardinality(Accepted(ops)) <= Len(ops.deletes) BY <2>1, <2>4, DeletesCoverCreates
  <2>6. Cardinality(Accepted(ops)) \in Nat /\ Len(ops.deletes) \in Nat
    BY <2>1, AcceptedIsFinite
  <2>7. QED BY <2>2, <2>5, <2>6 DEF EntryDhtStatus
<1>2. QED BY <1>1, RoutesInductive, PTL

\* The other way: where each delete names an accepted create of its own, an
\* entry that /record serves is Live in /details.
THEOREM ServedRecordsAreLive == Spec => []ServedEntryIsLive
<1>1. ASSUME RoutesIInv PROVE ServedEntryIsLive
  <2> SUFFICES ASSUME got["record"].body # {}, OneDeleteEach, NEW d \in got["details"].body
               PROVE  d.entry_dht_status = "Live"
    BY DEF ServedEntryIsLive
  <2>1. ops.creates \in Seq(Judged) /\ ops.deletes \in Seq(Creates)
    BY <1>1 DEF RoutesIInv, TypeOK
  <2>2. d.entry_dht_status = EntryDhtStatus(Accepted(ops), ops.deletes)
    BY <1>1, DetailsSay
  <2>3. PICK u \in Usable(ops) : TRUE
    BY <1>1 DEF RoutesIInv, AnswersAreOfTheOps, WireEntryOpsToRecord
  <2>4. Len(ops.deletes) < Cardinality(Accepted(ops))
    BY <2>1, <2>3, DeletesLeaveOne DEF OneDeleteEach
  <2>5. QED BY <2>2, <2>4 DEF EntryDhtStatus
<1>2. QED BY <1>1, RoutesInductive, PTL

\* A link comes with the hash of its own create action, or without a tag that
\* only its author knows, and it is of the type that was asked for.
THEOREM LinksAreTrue == Spec => []LinksMatchTheQuery
<1>1. RoutesIInv => LinksMatchTheQuery BY DEF RoutesIInv
<1>2. QED BY <1>1, RoutesInductive, PTL
=============================================================================
