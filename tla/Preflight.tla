----------------------------- MODULE Preflight ------------------------------
(***************************************************************************)
(* The preflight cache of src/wire_preflight.rs: the agent infos of all    *)
(* spaces, which kitsune2 puts when it publishes them, and the encoded     *)
(* message that new connections start with.  add_agent updates the infos   *)
(* under one lock and stores the encoding under another, and the spaces    *)
(* put concurrently.  Encoding an info or the message succeeds.            *)
(***************************************************************************)
EXTENDS FiniteSets

CONSTANTS Putters,   \* tasks of kitsune2 that publish agent infos
          Keys,      \* an agent in a space
          Versions   \* of its info

VARIABLES agents,      \* the cached infos
          preflight,   \* the infos in the encoded message
          snapshot,    \* what a putter has encoded and not yet stored
          lone         \* history: infos whose put overlapped no other

preflightVars == <<agents, preflight, snapshot, lone>>

Info(k, v) == [key |-> k, version |-> v]
AllInfos == {Info(k, v) : k \in Keys, v \in Versions}
Idle == [busy |-> FALSE, infos |-> {}, alone |-> {}]

PreflightTypeOK ==
    /\ agents \subseteq AllInfos /\ preflight \subseteq AllInfos /\ lone \subseteq AllInfos
    /\ snapshot \in [Putters -> [busy : BOOLEAN, infos : SUBSET AllInfos,
                                 alone : SUBSET AllInfos]]

\* PreflightCache::new: an empty message.
PreflightInit ==
    /\ agents = {} /\ preflight = {} /\ lone = {}
    /\ snapshot = [p \in Putters |-> Idle]

Busy == {p \in Putters : snapshot[p].busy}

-----------------------------------------------------------------------------
\* What is kept beside the new info; expired ones go as well.
Retained(info, expired) == {i \in agents : i.key # info.key /\ i \notin expired}

\* p has encoded the infos; alone is its own info while no other put is under way.
Encode(p, infos, info) ==
    snapshot' = [q \in Putters |->
        IF q = p
        THEN [busy |-> TRUE, infos |-> infos,
              alone |-> IF \A r \in Putters : ~snapshot[r].busy THEN {info} ELSE {}]
        ELSE [snapshot[q] EXCEPT !.alone = {}]]

\* Faulty: the infos are encoded before the new one is pushed.
AddAgentEncodesFirst(p, info, expired) ==
    /\ ~snapshot[p].busy
    /\ agents' = Retained(info, expired) \cup {info}
    /\ Encode(p, Retained(info, expired), info)
    /\ lone' = lone \cap agents'
    /\ UNCHANGED preflight

\* BootstrapWrapper::put, the first lock: replace the info and encode them all.
AddAgent(p, info, expired) ==
    /\ ~snapshot[p].busy
    /\ agents' = Retained(info, expired) \cup {info}
    /\ Encode(p, agents', info)
    /\ lone' = lone \cap agents'
    /\ UNCHANGED preflight

\* The second lock: store the encoding (then the put of the wrapped module).
StorePreflight(p) ==
    /\ snapshot[p].busy
    /\ preflight' = snapshot[p].infos
    /\ lone' = lone \cup snapshot[p].alone
    /\ snapshot' = [snapshot EXCEPT ![p] = Idle]
    /\ UNCHANGED agents

PreflightNext ==
    \E p \in Putters :
        \/ \E info \in AllInfos, expired \in SUBSET agents : AddAgent(p, info, expired)
        \/ StorePreflight(p)

-----------------------------------------------------------------------------
\* Properties

\* An info that was put while no other put was under way is presented to new
\* connections for as long as it is cached, whatever puts follow.  (Of two puts
\* that overlap, the one that encoded first may store last, and the other info
\* is missing until the next put.)
LoneInfosArePresented == lone \cap agents \subseteq preflight

-----------------------------------------------------------------------------
\* What makes it inductive: every encoding that is still to be stored has the
\* lone infos, since a put that counts as alone has nobody beside it.
PreflightIInv ==
    /\ PreflightTypeOK
    /\ lone \subseteq preflight
    /\ \A p \in Busy : lone \subseteq snapshot[p].infos
    /\ \A p \in Putters : snapshot[p].alone # {} =>
          snapshot[p].alone \subseteq snapshot[p].infos /\ Busy = {p}
=============================================================================
