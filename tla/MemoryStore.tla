----------------------------- MODULE MemoryStore ----------------------------
(***************************************************************************)
(* MemorySessionStore (src/auth/memory_store.rs), the default backend.     *)
(* Every operation is one section of one RwLock, except create_session: it *)
(* reads the allow list under the read lock, drops it, and inserts the     *)
(* session under the write lock.  Other operations come in between, and    *)
(* several connections may be in create_session at once.                   *)
(***************************************************************************)
CONSTANTS Agents, Dnas, Caps, Tokens, NotAllowed, NoRow,
          Callers   \* the connection tasks that call create_session

ASSUME MemoryAssumption ==
    /\ \A S \in SUBSET Caps : NotAllowed # S
    /\ NoRow \notin [agent : Agents, caps : SUBSET Caps]
    /\ NoRow \notin [agent : Agents, caps : SUBSET Caps, dnas : SUBSET Dnas]

VARIABLES allowedAgents,  \* MemoryStoreInner.allowed_agents
          sessions,       \* MemoryStoreInner.sessions, by token
          issued,         \* history: tokens ever generated
          creating,       \* what a caller read between its two lock sections
          overtaken,      \* history: callers whose agent was removed meanwhile
          late            \* history: tokens inserted by such a caller

vars == <<allowedAgents, sessions, issued, creating, overtaken, late>>

SessionInfo == [agent : Agents, caps : SUBSET Caps, dnas : SUBSET Dnas]

TypeOK ==
    /\ allowedAgents \in [Agents -> {NotAllowed} \cup SUBSET Caps]
    /\ sessions \in [Tokens -> SessionInfo \cup {NoRow}]
    /\ issued \subseteq Tokens
    /\ creating \in [Callers -> [agent : Agents, caps : SUBSET Caps] \cup {NoRow}]
    /\ overtaken \subseteq Callers
    /\ late \subseteq Tokens

Init ==
    /\ allowedAgents = [a \in Agents |-> NotAllowed]
    /\ sessions = [t \in Tokens |-> NoRow]
    /\ issued = {}
    /\ creating = [w \in Callers |-> NoRow]
    /\ overtaken = {}
    /\ late = {}

Owns(a, t) == sessions[t] # NoRow /\ sessions[t].agent = a

\* sessions.retain: every session of the agent goes.
RetainOthers(a) ==
    sessions' = [t \in Tokens |-> IF Owns(a, t) THEN NoRow ELSE sessions[t]]

\* Faulty: the new capabilities are written through to the sessions.
AddAgentUpdatesSessions(a, caps) ==
    /\ allowedAgents' = [allowedAgents EXCEPT ![a] = caps]
    /\ sessions' = [t \in Tokens |->
          IF Owns(a, t) THEN [sessions[t] EXCEPT !.caps = caps] ELSE sessions[t]]
    /\ UNCHANGED <<issued, creating, overtaken, late>>

\* Inserts or replaces; sessions keep the capabilities they were made with.
AddAgent(a, caps) ==
    /\ allowedAgents' = [allowedAgents EXCEPT ![a] = caps]
    /\ UNCHANGED <<sessions, issued, creating, overtaken, late>>

\* Faulty: the sessions of the agent stay.
RemoveAgentKeepsSessions(a) ==
    /\ allowedAgents[a] # NotAllowed
    /\ allowedAgents' = [allowedAgents EXCEPT ![a] = NotAllowed]
    /\ overtaken' = overtaken \cup
          {w \in Callers : creating[w] # NoRow /\ creating[w].agent = a}
    /\ UNCHANGED <<sessions, issued, creating, late>>

\* An agent that is not on the list keeps whatever sessions it has.
RemoveAgent(a) ==
    /\ allowedAgents[a] # NotAllowed
    /\ allowedAgents' = [allowedAgents EXCEPT ![a] = NotAllowed]
    /\ RetainOthers(a)
    /\ overtaken' = overtaken \cup
          {w \in Callers : creating[w] # NoRow /\ creating[w].agent = a}
    /\ UNCHANGED <<issued, creating, late>>

\* create_session, the read section.
CreateSession(w, a) ==
    /\ creating[w] = NoRow
    /\ allowedAgents[a] # NotAllowed
    /\ creating' = [creating EXCEPT ![w] = [agent |-> a, caps |-> allowedAgents[a]]]
    /\ UNCHANGED <<allowedAgents, sessions, issued, overtaken, late>>

\* Faulty: the token is derived from the agent, so a revoked one comes back.
InsertSessionSameToken(w, t) ==
    /\ creating[w] # NoRow
    /\ sessions[t] = NoRow
    /\ issued' = issued \cup {t}
    /\ sessions' = [sessions EXCEPT ![t] =
          [agent |-> creating[w].agent, caps |-> creating[w].caps, dnas |-> {}]]
    /\ creating' = [creating EXCEPT ![w] = NoRow]
    /\ overtaken' = overtaken \ {w}
    /\ late' = IF w \in overtaken THEN late \cup {t} ELSE late
    /\ UNCHANGED allowedAgents

\* create_session, SessionToken::generate and the write section.
InsertSession(w, t) ==
    /\ creating[w] # NoRow
    /\ t \notin issued
    /\ issued' = issued \cup {t}
    /\ sessions' = [sessions EXCEPT ![t] =
          [agent |-> creating[w].agent, caps |-> creating[w].caps, dnas |-> {}]]
    /\ creating' = [creating EXCEPT ![w] = NoRow]
    /\ overtaken' = overtaken \ {w}
    /\ late' = IF w \in overtaken THEN late \cup {t} ELSE late
    /\ UNCHANGED allowedAgents

RegisterDnaForAgent(a, d) ==
    /\ sessions' = [t \in Tokens |->
          IF Owns(a, t) THEN [sessions[t] EXCEPT !.dnas = @ \cup {d}]
                        ELSE sessions[t]]
    /\ UNCHANGED <<allowedAgents, issued, creating, overtaken, late>>

RevokeSession(t) ==
    /\ sessions' = [sessions EXCEPT ![t] = NoRow]
    /\ UNCHANGED <<allowedAgents, issued, creating, overtaken, late>>

RevokeSessionsForAgent(a) ==
    /\ RetainOthers(a)
    /\ UNCHANGED <<allowedAgents, issued, creating, overtaken, late>>

Next ==
    \/ \E a \in Agents, caps \in SUBSET Caps : AddAgent(a, caps)
    \/ \E a \in Agents : RemoveAgent(a) \/ RevokeSessionsForAgent(a)
    \/ \E w \in Callers, a \in Agents : CreateSession(w, a)
    \/ \E w \in Callers, t \in Tokens : InsertSession(w, t)
    \/ \E a \in Agents, d \in Dnas : RegisterDnaForAgent(a, d)
    \/ \E t \in Tokens : RevokeSession(t)

Spec == Init /\ [][Next]_vars

-----------------------------------------------------------------------------
\* Properties

Abstract == INSTANCE SessionStore WITH
    allowed <- allowedAgents,
    valid <- sessions,
    Invalid <- NoRow

\* A token that was revoked, or whose agent was removed, never becomes valid
\* again, also when the agent is added back, and no operation (a second
\* add_agent, a create_session still under way) changes what a token grants.
RevokedTokensStayInvalid == Abstract!TokensAreFinal

\* A session outlives the removal of its agent only if the create_session that
\* made it was overtaken by remove_agent between its two lock sections.
OnlyLateSessionsOutliveRemoval ==
    \A t \in Tokens :
        sessions[t] # NoRow /\ allowedAgents[sessions[t].agent] = NotAllowed
        => t \in late

-----------------------------------------------------------------------------
\* What makes them inductive

\* A caller that was not overtaken will insert for an agent still allowed;
\* only generated tokens are in the map.
CallersAreCurrent ==
    /\ \A w \in Callers \ overtaken : creating[w] # NoRow =>
          allowedAgents[creating[w].agent] # NotAllowed
    /\ \A t \in Tokens : sessions[t] # NoRow => t \in issued

IInv == TypeOK /\ CallersAreCurrent /\ OnlyLateSessionsOutliveRemoval
=============================================================================
