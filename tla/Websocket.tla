----------------------------- MODULE Websocket ------------------------------
(***************************************************************************)
(* The WebSocket endpoint (src/routes/websocket.rs) over the registration  *)
(* table, GatewayKitsune and AuthStore's sender table: authentication,     *)
(* register, unregister and the cleanup after a disconnect, for several    *)
(* connections at once.                                                    *)
(*                                                                         *)
(* A connection task handles one message at a time and awaits every call   *)
(* inline, so its state is phase (is the socket loop running), pc (where   *)
(* in a handler it stands) and its ConnectionState.  Messages whose only   *)
(* outcome is an error reply change nothing and are not actions.           *)
(***************************************************************************)
EXTENDS GatewayKitsune

CONSTANTS NoAgent,
          AuthEnabled,     \* AppState.auth_store is Some
          KitsuneEnabled   \* AppState.gateway_kitsune is Some

ASSUME WebsocketAssumption ==
    /\ NoAgent \notin Agents
    /\ AuthEnabled \in BOOLEAN
    /\ KitsuneEnabled \in BOOLEAN

VARIABLES allowed,      \* agents on the admin allow list
          wsSenders,    \* AuthStore.ws_senders: [Agents -> SUBSET Conns]
          phase,        \* "new", "open", "closing" (cleanup), "closed"
          authAgent,    \* ConnectionState.authenticated_agent
          pendingAuth,  \* ConnectionState.pending_auth_agent (and challenge)
          regs,         \* ConnectionState.registrations
          proven,       \* history: agents whose challenge the client answered
          contended     \* history: cells two connections have claimed at once

connVars == <<phase, authAgent, pendingAuth, regs, proven>>
authVars == <<allowed, wsSenders>>
vars == <<registrations, gkVars, connVars, authVars, contended>>

TypeOK ==
    /\ ProxyTypeOK
    /\ GatewayTypeOK
    /\ allowed \subseteq Agents
    /\ wsSenders \in [Agents -> SUBSET Conns]
    /\ phase \in [Conns -> {"new", "open", "closing", "closed"}]
    /\ authAgent \in [Conns -> Agents \cup {NoAgent}]
    /\ pendingAuth \in [Conns -> Agents \cup {NoAgent}]
    /\ regs \in [Conns -> SUBSET Keys]
    /\ proven \in [Conns -> SUBSET Agents]
    /\ contended \subseteq Keys

Init ==
    /\ ProxyInit
    /\ GatewayInit
    /\ allowed = {}
    /\ wsSenders = [a \in Agents |-> {}]
    /\ phase = [c \in Conns |-> "new"]
    /\ authAgent = [c \in Conns |-> NoAgent]
    /\ pendingAuth = [c \in Conns |-> NoAgent]
    /\ regs = [c \in Conns |-> {}]
    /\ proven = [c \in Conns |-> {}]
    /\ contended = {}

\* The socket loop of c is free to take the next message.
Ready(c) == phase[c] = "open" /\ pc[c] = "idle"

\* c has k in its ConnectionState, or is inside a gateway call for it.
Claims(c, k) == k \in regs[c] \/ cell[c] = k

\* Without kitsune2 the gateway calls are skipped.
NoCall == UNCHANGED <<pc, cell, overlapped>>

\* History kept by register and unregister.
NoteContention(c, k) ==
    contended' = IF \E o \in Conns \ {c} : Claims(o, k)
                 THEN contended \cup {k}
                 ELSE contended

-----------------------------------------------------------------------------
\* Connection start and authentication

Connect(c) ==
    /\ phase[c] = "new"
    /\ phase' = [phase EXCEPT ![c] = "open"]
    /\ UNCHANGED <<registrations, gkVars, authVars, contended,
                   authAgent, pendingAuth, regs, proven>>

\* handle_auth without an auth store: any agent is accepted.
AuthDisabled(c, a) ==
    /\ Ready(c)
    /\ ~AuthEnabled
    /\ authAgent' = [authAgent EXCEPT ![c] = a]
    /\ UNCHANGED <<registrations, gkVars, authVars, contended,
                   phase, pendingAuth, regs, proven>>

\* handle_auth with an auth store: challenge an agent on the allow list.
Auth(c, a) ==
    /\ Ready(c)
    /\ AuthEnabled
    /\ a \in allowed
    /\ pendingAuth' = [pendingAuth EXCEPT ![c] = a]
    /\ UNCHANGED <<registrations, gkVars, authVars, contended,
                   phase, authAgent, regs, proven>>

\* handle_auth_challenge_response: the challenge is consumed whatever the
\* outcome; a bad signature, or an agent removed meanwhile (create_session
\* gives None), changes nothing else.
AuthRejected(c) ==
    /\ Ready(c)
    /\ pendingAuth[c] # NoAgent
    /\ pendingAuth' = [pendingAuth EXCEPT ![c] = NoAgent]
    /\ UNCHANGED <<registrations, gkVars, authVars, contended,
                   phase, authAgent, regs, proven>>

\* The signature verifies and create_session succeeds (what it writes is in
\* MemoryStore and SqliteStore).  Until AuthOk, pendingAuth is the handler's
\* local `agent`, taken out of the ConnectionState.
AuthVerified(c) ==
    /\ Ready(c)
    /\ pendingAuth[c] \in allowed
    /\ proven' = [proven EXCEPT ![c] = @ \cup {pendingAuth[c]}]
    /\ pc' = [pc EXCEPT ![c] = "ws_sender"]
    /\ UNCHANGED <<registrations, agents, spaces, local, advertised, cell,
                   overlapped, joinFailed, authVars, contended,
                   phase, authAgent, pendingAuth, regs>>

\* register_ws_sender, then the connection is authenticated.
AuthOk(c) ==
    /\ pc[c] = "ws_sender"
    /\ pc' = [pc EXCEPT ![c] = "idle"]
    /\ wsSenders' = [wsSenders EXCEPT ![pendingAuth[c]] = @ \cup {c}]
    /\ authAgent' = [authAgent EXCEPT ![c] = pendingAuth[c]]
    /\ pendingAuth' = [pendingAuth EXCEPT ![c] = NoAgent]
    /\ UNCHANGED <<registrations, agents, spaces, local, advertised, cell,
                   overlapped, joinFailed, allowed, contended,
                   phase, regs, proven>>

-----------------------------------------------------------------------------
\* Register and Unregister

\* Faulty: any authenticated connection may register any agent.
MayRegisterAnyAgent(c, k) == authAgent[c] # NoAgent

\* Register is refused for an agent the connection is not authenticated as.
MayRegister(c, k) ==
    /\ authAgent[c] # NoAgent
    /\ AuthEnabled => authAgent[c] = AgentOf(k)

\* register_dna_for_agent, between the two, writes sessions only (MemoryStore,
\* SqliteStore).
Register(c, k) ==
    /\ Ready(c)
    /\ MayRegister(c, k)
    /\ regs' = [regs EXCEPT ![c] = @ \cup {k}]
    /\ ProxyRegister(k, c)
    /\ NoteContention(c, k)
    /\ IF KitsuneEnabled THEN CallJoin(c, k) ELSE NoCall
    /\ UNCHANGED <<agents, spaces, local, advertised, joinFailed, authVars,
                   phase, authAgent, pendingAuth, proven>>

\* Faulty: agent_leave is not called.
UnregisterStaysJoined(c, k) ==
    /\ Ready(c)
    /\ authAgent[c] # NoAgent
    /\ regs' = [regs EXCEPT ![c] = @ \ {k}]
    /\ ProxyUnregister(k)
    /\ NoteContention(c, k)
    /\ NoCall
    /\ UNCHANGED <<agents, spaces, local, advertised, joinFailed, authVars,
                   phase, authAgent, pendingAuth, proven>>

\* Unregister asks for an authenticated connection only.
Unregister(c, k) ==
    /\ Ready(c)
    /\ authAgent[c] # NoAgent
    /\ regs' = [regs EXCEPT ![c] = @ \ {k}]
    /\ ProxyUnregister(k)
    /\ NoteContention(c, k)
    /\ IF KitsuneEnabled THEN CallLeave(c, k) ELSE NoCall
    /\ UNCHANGED <<agents, spaces, local, advertised, joinFailed, authVars,
                   phase, authAgent, pendingAuth, proven>>

-----------------------------------------------------------------------------
\* The end of handle_socket

\* Close frame, socket error, end of stream, heartbeat or idle timeout, or a
\* reply that can not be queued: the loop ends, then unregister_all.
Disconnect(c) ==
    /\ Ready(c)
    /\ phase' = [phase EXCEPT ![c] = "closing"]
    /\ ProxyUnregisterAll(c)
    /\ UNCHANGED <<gkVars, authVars, contended,
                   authAgent, pendingAuth, regs, proven>>

\* agent_leave for each registration of the connection, one after the other.
CleanupLeave(c) ==
    /\ phase[c] = "closing"
    /\ pc[c] = "idle"
    /\ \E k \in regs[c] :
          /\ regs' = [regs EXCEPT ![c] = @ \ {k}]
          /\ IF KitsuneEnabled THEN CallLeave(c, k) ELSE NoCall
    /\ UNCHANGED <<registrations, agents, spaces, local, advertised, joinFailed,
                   authVars, contended, phase, authAgent, pendingAuth, proven>>

\* Faulty: the sender stays in ws_senders.
CleanupFinishKeepsSender(c) ==
    /\ phase[c] = "closing"
    /\ pc[c] = "idle"
    /\ regs[c] = {}
    /\ phase' = [phase EXCEPT ![c] = "closed"]
    /\ UNCHANGED <<registrations, gkVars, authVars, contended,
                   authAgent, pendingAuth, regs, proven>>

\* unregister_ws_sender, for the agent authenticated last.
CleanupFinish(c) ==
    /\ phase[c] = "closing"
    /\ pc[c] = "idle"
    /\ regs[c] = {}
    /\ phase' = [phase EXCEPT ![c] = "closed"]
    /\ wsSenders' = IF AuthEnabled /\ authAgent[c] # NoAgent
                    THEN [wsSenders EXCEPT ![authAgent[c]] = @ \ {c}]
                    ELSE wsSenders
    /\ UNCHANGED <<registrations, gkVars, allowed, contended,
                   authAgent, pendingAuth, regs, proven>>

-----------------------------------------------------------------------------
\* The admin API (src/auth/admin.rs) on AuthStore

AdminAddAgent(a) ==
    /\ AuthEnabled
    /\ allowed' = allowed \cup {a}
    /\ UNCHANGED <<registrations, gkVars, connVars, contended, wsSenders>>

AdminRemoveAgent(a) ==
    /\ a \in allowed
    /\ allowed' = allowed \ {a}
    /\ wsSenders' = [wsSenders EXCEPT ![a] = {}]
    /\ UNCHANGED <<registrations, gkVars, connVars, contended>>

-----------------------------------------------------------------------------
Environment ==
    \/ \E a \in Agents : AdminAddAgent(a) \/ AdminRemoveAgent(a)
    \/ /\ KitsuneEnabled
       /\ \/ \E d \in Dnas : UseSpace(d)
          \/ \E k \in Keys : Announce(k)
       /\ UNCHANGED <<registrations, connVars, authVars, contended>>

ClientMessage(c) ==
    \/ Connect(c)
    \/ \E a \in Agents : AuthDisabled(c, a) \/ Auth(c, a)
    \/ AuthRejected(c) \/ AuthVerified(c)
    \/ \E k \in Keys : Register(c, k) \/ Unregister(c, k)
    \/ Disconnect(c)

\* What the connection task goes on with by itself.
HandlerStep(c) ==
    \/ AuthOk(c)
    \/ CleanupLeave(c) \/ CleanupFinish(c)
    \/ /\ GatewayStep(c)
       /\ UNCHANGED <<registrations, connVars, authVars, contended>>

Next == Environment \/ \E c \in Conns : ClientMessage(c) \/ HandlerStep(c)

Spec == Init /\ [][Next]_vars

-----------------------------------------------------------------------------
\* Properties

\* A cell is only ever routed to a connection that registered it itself, has
\* not unregistered it since, and has not begun its cleanup: signals and
\* signing requests never go to a channel whose socket loop is gone
\* (agent_proxy.rs registrations against websocket.rs ConnectionState).
RoutedToOwner ==
    \A k \in Keys : registrations[k] # NoConn =>
        /\ phase[registrations[k]] = "open"
        /\ k \in regs[registrations[k]]

\* With authentication on, an agent's cell is only routed to a connection
\* whose client answered that agent's challenge, even after it authenticates
\* again as someone else (handle_auth, handle_auth_challenge_response, Register).
RoutedToProvenAgent ==
    AuthEnabled => \A k \in Keys : registrations[k] # NoConn =>
        AgentOf(k) \in proven[registrations[k]]

\* No agent stays joined on behalf of nobody: every cell in the agents map is
\* registered by a connection that has not finished, or that is about to call
\* agents.remove for it (agent_join and agent_leave, the cleanup of handle_socket).
NoAbandonedAgent ==
    \A k \in agents : \E c \in Conns :
        /\ phase[c] \in {"open", "closing"}
        /\ k \in regs[c] \/ (cell[c] = k /\ pc[c] = "leave")

\* Unless two calls ever overlapped on a DNA, the three records of who is
\* joined agree whenever no call is under way: the agents map, kitsune2's
\* local agents, and a space for a DNA with agents.
SerialCallsAgree ==
    \A d \in Dnas \ overlapped :
        (\A c \in Conns : ~InCall(c, d)) =>
            /\ AgentsOn(d) = LocalOn(d)
            /\ AgentsOn(d) # {} => d \in spaces

\* A registered cell is joined, once its Register is answered, if no second
\* connection ever claimed it, no calls overlapped on its DNA and the join
\* did not fail.
RegisteredIsJoinedUncontended ==
    \A k \in Keys : LET c == registrations[k] IN
        (/\ KitsuneEnabled
         /\ c # NoConn /\ pc[c] \notin GatewayPCs
         /\ k \notin contended \cup joinFailed
         /\ DnaOf(k) \notin overlapped)
        => k \in agents \cap local

\* A sender outlives its connection in ws_senders only if the connection
\* authenticated more than once: the cleanup forgets the last agent only.
SenderLeakOnlyAfterReauth ==
    \A a \in Agents : \A c \in wsSenders[a] :
        phase[c] = "closed" => Cardinality(proven[c]) > 1

-----------------------------------------------------------------------------
\* What makes the invariants above inductive

\* A gateway call has a cell; a join is for a cell its open connection has
\* registered; a connection that is in a handler has not finished.
CallsAreOwned ==
    \A c \in Conns :
        /\ pc[c] \in GatewayPCs => cell[c] \in Keys /\ KitsuneEnabled
        /\ pc[c] \in JoinPCs => phase[c] = "open" /\ cell[c] \in regs[c]
        /\ pc[c] # "idle" => phase[c] \in {"open", "closing"}
        /\ pc[c] = "ws_sender" => pendingAuth[c] \in Agents \cap proven[c]

\* Only connections that were opened have registered or proven anything, and
\* an authenticated agent is a proven one when authentication is on.
ConnsAreOrderly ==
    \A c \in Conns :
        /\ phase[c] \in {"new", "closed"} => regs[c] = {}
        /\ AuthEnabled /\ authAgent[c] # NoAgent => authAgent[c] \in proven[c]
        /\ AuthEnabled => \A k \in regs[c] : AgentOf(k) \in proven[c]

\* Without kitsune2 nothing is ever joined.
KitsuneOffIsQuiet == agents # {} => KitsuneEnabled

IInv ==
    /\ TypeOK
    /\ KitsuneOffIsQuiet
    /\ CallsAreOwned
    /\ ConnsAreOrderly
    /\ RoutedToOwner
    /\ NoAbandonedAgent

\* kitsune2 has the cell of the call and the agents map does not: an agent_join
\* between its two writes, or an agent_leave between its two.
AheadPCs == {"insert", "find_space", "local_leave"}
Ahead(k) == \E c \in Conns : cell[c] = k /\ pc[c] \in AheadPCs

\* Where no two calls overlapped on a DNA there is one at a time.
OneCallAtATime ==
    \A d \in Dnas \ overlapped : \A c, o \in Conns : InCall(c, d) /\ InCall(o, d) => c = o

\* There the three records differ by the call that is under way only ...
RecordsAreInStep ==
    \A k \in Keys : DnaOf(k) \notin overlapped =>
        /\ k \in local <=> k \in agents \/ Ahead(k)
        /\ k \in local => DnaOf(k) \in spaces

\* ... and what the call has read of them is still so.
CallsAreInStep ==
    \A c \in Conns : pc[c] \in GatewayPCs /\ DnaOf(cell[c]) \notin overlapped =>
        /\ pc[c] = "local_join" => DnaOf(cell[c]) \in spaces
        /\ pc[c] \in {"find_space", "local_leave"} => cell[c] \notin agents
        /\ pc[c] = "cleanup_remove" => AgentsOn(DnaOf(cell[c])) = {}

SerialIInv ==
    /\ IInv
    /\ OneCallAtATime
    /\ RecordsAreInStep
    /\ CallsAreInStep

\* An uncontended cell has one claimant, which does not have in its list what
\* it is leaving, and is joining what it has registered until that is joined.
ClaimsAreUnique ==
    \A k \in Keys \ contended : \A c, o \in Conns : Claims(c, k) /\ Claims(o, k) => c = o

LeavesAreGivenUp == \A c \in Conns : pc[c] \in LeavePCs => cell[c] \notin regs[c]

JoinedOrJoining ==
    \A k \in Keys : LET c == registrations[k] IN
        (/\ KitsuneEnabled /\ c # NoConn
         /\ k \notin contended \cup joinFailed
         /\ DnaOf(k) \notin overlapped)
        => k \in agents \/ (pc[c] \in JoinPCs /\ cell[c] = k)

JoinedIInv ==
    /\ SerialIInv
    /\ ClaimsAreUnique
    /\ LeavesAreGivenUp
    /\ JoinedOrJoining

\* A sender is of a proven agent, and the cleanup took out that of the agent
\* authenticated last.
SendersIInv ==
    /\ IInv
    /\ allowed # {} => AuthEnabled
    /\ \A c \in Conns : IsFiniteSet(proven[c]) /\ (pc[c] = "ws_sender" => AuthEnabled)
    /\ \A a \in Agents : \A c \in wsSenders[a] :
          /\ AuthEnabled /\ a \in proven[c] /\ authAgent[c] # NoAgent
          /\ phase[c] = "closed" => authAgent[c] # a

-----------------------------------------------------------------------------
\* What the documents say and the code does not do

\* API.md: Register serves "to receive signals and join the kitsune2 space".
\* Even where calls never overlap, and the join did not fail, a registered
\* cell should be joined once no call for it is under way.
RegisteredIsJoined ==
    \A k \in Keys :
        (/\ KitsuneEnabled
         /\ registrations[k] # NoConn
         /\ k \notin joinFailed
         /\ DnaOf(k) \notin overlapped
         /\ \A c \in Conns : cell[c] # k)
        => k \in agents

\* agent_leave "publishes a tombstone agent info to the network": when no call
\* for the cell is under way, the network holds no live info of an agent that
\* is not in the space any more.
LeftIsNotAdvertised ==
    \A k \in advertised \ local : \E c \in Conns : cell[c] = k

\* remove_agent "Revokes all sessions and closes all WS connections": an agent
\* that is not on the allow list can register nothing.
OnlyAllowedAgentsRegister ==
    [][\A k \in Keys :
         AuthEnabled /\ registrations'[k] \notin {NoConn, registrations[k]}
         => AgentOf(k) \in allowed]_vars
=============================================================================
