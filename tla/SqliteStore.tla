----------------------------- MODULE SqliteStore ----------------------------
(***************************************************************************)
(* SqliteSessionStore (src/auth/sqlite_store.rs).  One Mutex guards the    *)
(* connection for the whole of an operation, and every SQL statement       *)
(* commits by itself.  An operation of one statement is one step.          *)
(* remove_agent is three statements: each may fail (the `?` returns and    *)
(* frees the Mutex) and the process may die before it and restart on the   *)
(* same file.  create_session reads and inserts; nothing comes between the *)
(* two, and dying there leaves no trace.                                   *)
(***************************************************************************)
CONSTANTS Agents, Dnas, Caps, Tokens, NotAllowed, NoRow

ASSUME StoreAssumption ==
    /\ \A S \in SUBSET Caps : NotAllowed # S
    /\ NoRow \notin [agent : Agents, caps : SUBSET Caps]
    /\ NoRow \notin [agent : Agents, caps : SUBSET Caps, dnas : SUBSET Dnas]
    /\ NoRow \notin Agents

VARIABLES allowedAgents,  \* table allowed_agents, by agent_pubkey
          sessions,       \* table sessions, by token
          sessionDnas,    \* table session_dnas: rows of token, dna and agent
          issued,         \* history: tokens ever generated
          removing,       \* agent a remove_agent that holds the Mutex is for
          stmt            \* its next statement

vars == <<allowedAgents, sessions, sessionDnas, issued, removing, stmt>>

SessionRow == [agent : Agents, caps : SUBSET Caps]
DnaRow == [token : Tokens, dna : Dnas, agent : Agents]

TypeOK ==
    /\ allowedAgents \in [Agents -> {NotAllowed} \cup SUBSET Caps]
    /\ sessions \in [Tokens -> SessionRow \cup {NoRow}]
    /\ sessionDnas \subseteq DnaRow
    /\ issued \subseteq Tokens
    /\ removing \in Agents \cup {NoRow}
    /\ stmt \in {"none", "del_dnas", "del_sessions", "del_agent"}

Init ==
    /\ allowedAgents = [a \in Agents |-> NotAllowed]
    /\ sessions = [t \in Tokens |-> NoRow]
    /\ sessionDnas = {}
    /\ issued = {}
    /\ removing = NoRow
    /\ stmt = "none"

MutexFree == stmt = "none"
Owns(a, t) == sessions[t] # NoRow /\ sessions[t].agent = a

\* validate_session: the sessions row with the DNAs of its token.
RegisteredDnas(t) == {d \in Dnas : \E r \in sessionDnas : r.token = t /\ r.dna = d}

ValidateSession(t) ==
    IF sessions[t] = NoRow THEN NoRow
    ELSE [agent |-> sessions[t].agent,
          caps  |-> sessions[t].caps,
          dnas  |-> RegisteredDnas(t)]

\* INSERT OR REPLACE INTO allowed_agents.
AddAgent(a, caps) ==
    /\ MutexFree
    /\ allowedAgents' = [allowedAgents EXCEPT ![a] = caps]
    /\ UNCHANGED <<sessions, sessionDnas, issued, removing, stmt>>

\* SELECT capabilities, SessionToken::generate, INSERT INTO sessions.
CreateSession(a, t) ==
    /\ MutexFree
    /\ allowedAgents[a] # NotAllowed
    /\ t \notin issued
    /\ issued' = issued \cup {t}
    /\ sessions' = [sessions EXCEPT ![t] = [agent |-> a, caps |-> allowedAgents[a]]]
    /\ UNCHANGED <<allowedAgents, sessionDnas, removing, stmt>>

\* Faulty: the SELECT has no WHERE agent_pubkey.
RegisterDnaForEveryone(a, d) ==
    /\ MutexFree
    /\ sessionDnas' = sessionDnas \cup
          {[token |-> t, dna |-> d, agent |-> a] :
              t \in {u \in Tokens : sessions[u] # NoRow}}
    /\ UNCHANGED <<allowedAgents, sessions, issued, removing, stmt>>

\* INSERT OR IGNORE INTO session_dnas SELECT ... FROM sessions.
RegisterDnaForAgent(a, d) ==
    /\ MutexFree
    /\ sessionDnas' = sessionDnas \cup
          {[token |-> t, dna |-> d, agent |-> a] : t \in {u \in Tokens : Owns(a, u)}}
    /\ UNCHANGED <<allowedAgents, sessions, issued, removing, stmt>>

\* Faulty: foreign keys are off, nothing cascades.
DeleteSessionsNoCascade(S) ==
    /\ sessions' = [t \in Tokens |-> IF t \in S THEN NoRow ELSE sessions[t]]
    /\ UNCHANGED sessionDnas

\* DELETE FROM sessions, with ON DELETE CASCADE into session_dnas.
DeleteSessions(S) ==
    /\ sessions' = [t \in Tokens |-> IF t \in S THEN NoRow ELSE sessions[t]]
    /\ sessionDnas' = {r \in sessionDnas : r.token \notin S}

RevokeSession(t) ==
    /\ MutexFree
    /\ DeleteSessions({t})
    /\ UNCHANGED <<allowedAgents, issued, removing, stmt>>

RevokeSessionsForAgent(a) ==
    /\ MutexFree
    /\ DeleteSessions({t \in Tokens : Owns(a, t)})
    /\ UNCHANGED <<allowedAgents, issued, removing, stmt>>

-----------------------------------------------------------------------------
\* remove_agent

\* The operation takes the Mutex.
RemoveAgent(a) ==
    /\ MutexFree
    /\ removing' = a
    /\ stmt' = "del_dnas"
    /\ UNCHANGED <<allowedAgents, sessions, sessionDnas, issued>>

\* Faulty: the agent is deleted in place of its DNAs, before its sessions.
RemoveAllowedFirst ==
    /\ stmt = "del_dnas"
    /\ allowedAgents' = [allowedAgents EXCEPT ![removing] = NotAllowed]
    /\ stmt' = "del_sessions"
    /\ UNCHANGED <<sessions, sessionDnas, issued, removing>>

\* DELETE FROM session_dnas WHERE agent_pubkey.
RemoveDnas ==
    /\ stmt = "del_dnas"
    /\ sessionDnas' = {r \in sessionDnas : r.agent # removing}
    /\ stmt' = "del_sessions"
    /\ UNCHANGED <<allowedAgents, sessions, issued, removing>>

\* DELETE FROM sessions WHERE agent_pubkey.
RemoveSessions ==
    /\ stmt = "del_sessions"
    /\ DeleteSessions({t \in Tokens : Owns(removing, t)})
    /\ stmt' = "del_agent"
    /\ UNCHANGED <<allowedAgents, issued, removing>>

\* DELETE FROM allowed_agents WHERE agent_pubkey; the Mutex is freed.
RemoveAllowed ==
    /\ stmt = "del_agent"
    /\ allowedAgents' = [allowedAgents EXCEPT ![removing] = NotAllowed]
    /\ stmt' = "none"
    /\ removing' = NoRow
    /\ UNCHANGED <<sessions, sessionDnas, issued>>

\* A statement fails, or the process dies here and restarts on the same file.
RemoveCutShort ==
    /\ stmt # "none"
    /\ stmt' = "none"
    /\ removing' = NoRow
    /\ UNCHANGED <<allowedAgents, sessions, sessionDnas, issued>>

Next ==
    \/ \E a \in Agents, caps \in SUBSET Caps : AddAgent(a, caps)
    \/ \E a \in Agents, t \in Tokens : CreateSession(a, t)
    \/ \E a \in Agents, d \in Dnas : RegisterDnaForAgent(a, d)
    \/ \E t \in Tokens : RevokeSession(t)
    \/ \E a \in Agents : RevokeSessionsForAgent(a) \/ RemoveAgent(a)
    \/ RemoveDnas \/ RemoveSessions \/ RemoveAllowed \/ RemoveCutShort

Spec == Init /\ [][Next]_vars

-----------------------------------------------------------------------------
\* Properties

\* The store implements the promise of the trait: validate_session over the
\* tables behaves like the atomic store, however remove_agent is cut short.
Abstract == INSTANCE SessionStore WITH
    allowed <- allowedAgents,
    valid <- [t \in Tokens |-> ValidateSession(t)],
    Invalid <- NoRow

ImplementsSessionStore == Abstract!Spec

\* A session row exists only for an agent that is on the allow list, at every
\* point where remove_agent can stop (the order of its three statements).
SessionOfAllowedAgent ==
    \A t \in Tokens : sessions[t] # NoRow =>
        allowedAgents[sessions[t].agent] # NotAllowed

\* A session_dnas row belongs to a session that exists and has its agent: no
\* token can inherit scope, and none is left for "orphaned rows" to clean up.
DnaRowsHaveSessions ==
    \A r \in sessionDnas : Owns(r.agent, r.token)

-----------------------------------------------------------------------------
\* What makes them inductive, and the refinement provable

\* remove_agent reaches its last statement with no session of the agent left,
\* because the Mutex keeps create_session out.
RemovalIsOrderly ==
    /\ stmt # "none" => removing \in Agents
    /\ stmt = "del_agent" => \A t \in Tokens : ~Owns(removing, t)

SessionsAreIssued == \A t \in Tokens : sessions[t] # NoRow => t \in issued

IInv ==
    /\ TypeOK
    /\ RemovalIsOrderly
    /\ SessionsAreIssued
    /\ SessionOfAllowedAgent
    /\ DnaRowsHaveSessions
=============================================================================
