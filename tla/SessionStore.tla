---------------------------- MODULE SessionStore ----------------------------
(***************************************************************************)
(* What the SessionStore trait (src/auth/session_store.rs) promises, as    *)
(* the WebSocket endpoint, the HTTP middleware and the admin API rely on   *)
(* it: each operation is atomic, and a token is valid only while its agent *)
(* is on the allow list.                                                   *)
(*                                                                         *)
(* A token's value is what validate_session gives for it.  An operation    *)
(* may be cut short (an I/O error, a crash): what is lost is then scope or *)
(* validity of tokens, never more (Weaken).                                *)
(***************************************************************************)
CONSTANTS Agents, Dnas, Caps, Tokens, NotAllowed, Invalid

VARIABLES allowed,   \* [Agents -> {NotAllowed} \cup SUBSET Caps]
          valid,     \* [Tokens -> SessionInfo \cup {Invalid}]
          issued     \* tokens ever generated (32 random bytes: never twice)

vars == <<allowed, valid, issued>>

SessionInfo == [agent : Agents, caps : SUBSET Caps, dnas : SUBSET Dnas]

Owns(a, t) == valid[t] # Invalid /\ valid[t].agent = a

Init ==
    /\ allowed = [a \in Agents |-> NotAllowed]
    /\ valid = [t \in Tokens |-> Invalid]
    /\ issued = {}

\* Inserts, or replaces the capabilities; sessions keep the ones they have.
AddAgent(a, caps) ==
    /\ allowed' = [allowed EXCEPT ![a] = caps]
    /\ UNCHANGED <<valid, issued>>

RevokeAll(a) ==
    valid' = [t \in Tokens |-> IF Owns(a, t) THEN Invalid ELSE valid[t]]

RemoveAgent(a) ==
    /\ allowed' = [allowed EXCEPT ![a] = NotAllowed]
    /\ RevokeAll(a)
    /\ UNCHANGED issued

CreateSession(a, t) ==
    /\ allowed[a] # NotAllowed
    /\ t \notin issued
    /\ issued' = issued \cup {t}
    /\ valid' = [valid EXCEPT ![t] =
                    [agent |-> a, caps |-> allowed[a], dnas |-> {}]]
    /\ UNCHANGED allowed

RegisterDnaForAgent(a, d) ==
    /\ valid' = [t \in Tokens |->
                    IF Owns(a, t)
                    THEN [valid[t] EXCEPT !.dnas = @ \cup {d}]
                    ELSE valid[t]]
    /\ UNCHANGED <<allowed, issued>>

RevokeSession(t) ==
    /\ valid' = [valid EXCEPT ![t] = Invalid]
    /\ UNCHANGED <<allowed, issued>>

RevokeSessionsForAgent(a) ==
    /\ RevokeAll(a)
    /\ UNCHANGED <<allowed, issued>>

\* A removal cut short leaves the agent's tokens without their DNAs.
Weaken(a) ==
    /\ valid' = [t \in Tokens |->
                    IF Owns(a, t) THEN [valid[t] EXCEPT !.dnas = {}] ELSE valid[t]]
    /\ UNCHANGED <<allowed, issued>>

Next ==
    \/ \E a \in Agents, caps \in SUBSET Caps : AddAgent(a, caps)
    \/ \E a \in Agents :
          RemoveAgent(a) \/ RevokeSessionsForAgent(a) \/ Weaken(a)
    \/ \E a \in Agents, t \in Tokens : CreateSession(a, t)
    \/ \E a \in Agents, d \in Dnas : RegisterDnaForAgent(a, d)
    \/ \E t \in Tokens : RevokeSession(t)

Spec == Init /\ [][Next]_vars

\* A token that was revoked, or whose agent was removed, stays invalid, and a
\* valid one never changes agent or capabilities.
TokensAreFinal ==
    [][\A t \in issued :
         valid'[t] # Invalid =>
            /\ valid[t] # Invalid
            /\ valid'[t].agent = valid[t].agent
            /\ valid'[t].caps = valid[t].caps]_vars
=============================================================================
