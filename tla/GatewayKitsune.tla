--------------------------- MODULE GatewayKitsune ---------------------------
(***************************************************************************)
(* GatewayKitsune (src/gateway_kitsune.rs): agent_join and agent_leave,    *)
(* called by the WebSocket connection tasks.  Each lock section and each   *)
(* call into kitsune2 is one step, because the code holds no lock from one *)
(* of them to the next; a connection runs one call at a time.              *)
(*                                                                         *)
(* kitsune2 itself is external: LocalJoin, LocalLeave and the publication  *)
(* of agent infos are modelled by how this code uses them.                 *)
(***************************************************************************)
EXTENDS AgentProxy

CONSTANT NoCell  \* the connection is in no gateway call

ASSUME GatewayAssumption == NoCell \notin Keys

VARIABLES agents,      \* cells in the `agents` map (joined, says the gateway)
          spaces,      \* DNAs in the `spaces` map
          local,       \* cells in kitsune2's local agent store (external)
          advertised,  \* cells the network holds a live agent info of (external)
          pc,          \* where a connection's gateway call stands
          cell,        \* the cell of that call
          overlapped,  \* history: DNAs on which two calls were under way at once
          joinFailed   \* history: cells whose last agent_join returned Err

gkVars == <<agents, spaces, local, advertised, pc, cell, overlapped, joinFailed>>

JoinPCs  == {"join", "get_space", "create_space", "local_join", "insert"}
LeavePCs == {"leave", "find_space", "local_leave", "tombstone", "signing",
             "cleanup_check", "cleanup_remove"}
GatewayPCs == JoinPCs \cup LeavePCs

AgentsOn(d) == {k \in agents : DnaOf(k) = d}
LocalOn(d)  == {k \in local : DnaOf(k) = d}

\* c is inside agent_join or agent_leave for a cell of DNA d.
InCall(c, d) == pc[c] \in GatewayPCs /\ DnaOf(cell[c]) = d

GatewayTypeOK ==
    /\ agents \subseteq Keys
    /\ spaces \subseteq Dnas
    /\ local \subseteq Keys
    /\ advertised \subseteq Keys
    /\ pc \in [Conns -> GatewayPCs \cup {"idle", "ws_sender"}]
    /\ cell \in [Conns -> Keys \cup {NoCell}]
    /\ overlapped \subseteq Dnas
    /\ joinFailed \subseteq Keys

GatewayInit ==
    /\ agents = {}
    /\ spaces = {}
    /\ local = {}
    /\ advertised = {}
    /\ pc = [c \in Conns |-> "idle"]
    /\ cell = [c \in Conns |-> NoCell]
    /\ overlapped = {}
    /\ joinFailed = {}

-----------------------------------------------------------------------------
\* Control of a call: enter it, move on within it, return from it.

Call(c, k, entry) ==
    /\ pc' = [pc EXCEPT ![c] = entry]
    /\ cell' = [cell EXCEPT ![c] = k]
    /\ overlapped' = IF \E o \in Conns \ {c} : InCall(o, DnaOf(k))
                     THEN overlapped \cup {DnaOf(k)}
                     ELSE overlapped

CallJoin(c, k)  == Call(c, k, "join")
CallLeave(c, k) == Call(c, k, "leave")

Goto(c, from, to) ==
    /\ pc[c] = from
    /\ pc' = [pc EXCEPT ![c] = to]
    /\ cell' = IF to = "idle" THEN [cell EXCEPT ![c] = NoCell] ELSE cell
    /\ UNCHANGED overlapped

-----------------------------------------------------------------------------
\* agent_join

\* Faulty: takes a joined space for a joined agent.
JoinCheckBySpace(c) ==
    /\ Goto(c, "join", IF DnaOf(cell[c]) \in spaces THEN "idle" ELSE "get_space")
    /\ joinFailed' = joinFailed \ {cell[c]}
    /\ UNCHANGED <<agents, spaces, local, advertised>>

\* Read lock on agents: an agent already tracked is reported as joined.
JoinCheck(c) ==
    /\ Goto(c, "join", IF cell[c] \in agents THEN "idle" ELSE "get_space")
    /\ joinFailed' = joinFailed \ {cell[c]}
    /\ UNCHANGED <<agents, spaces, local, advertised>>

\* get_or_create_space, read lock on spaces.
GetSpace(c) ==
    /\ Goto(c, "get_space",
            IF DnaOf(cell[c]) \in spaces THEN "local_join" ELSE "create_space")
    /\ UNCHANGED <<agents, spaces, local, advertised, joinFailed>>

\* get_or_create_space: kitsune.space() and the write lock on spaces.
CreateSpace(c) ==
    /\ Goto(c, "create_space", "local_join")
    /\ spaces' = spaces \cup {DnaOf(cell[c])}
    /\ UNCHANGED <<agents, local, advertised, joinFailed>>

\* space.local_agent_join succeeds.
LocalJoin(c) ==
    /\ Goto(c, "local_join", "insert")
    /\ local' = local \cup {cell[c]}
    /\ UNCHANGED <<agents, spaces, advertised, joinFailed>>

\* kitsune.space() or local_agent_join fails: `?` returns before the insert.
JoinFail(c) ==
    /\ \E from \in {"create_space", "local_join"} : Goto(c, from, "idle")
    /\ joinFailed' = joinFailed \cup {cell[c]}
    /\ UNCHANGED <<agents, spaces, local, advertised>>

\* Write lock on agents.
InsertAgent(c) ==
    /\ Goto(c, "insert", "idle")
    /\ agents' = agents \cup {cell[c]}
    /\ UNCHANGED <<spaces, local, advertised, joinFailed>>

-----------------------------------------------------------------------------
\* agent_leave

\* Write lock on agents; a cell that is not tracked ends the call.
LeaveRemove(c) ==
    /\ Goto(c, "leave", IF cell[c] \in agents THEN "find_space" ELSE "idle")
    /\ agents' = agents \ {cell[c]}
    /\ UNCHANGED <<spaces, local, advertised, joinFailed>>

\* Read lock on spaces; without a space the kitsune2 call is skipped.
FindSpace(c) ==
    /\ Goto(c, "find_space",
            IF DnaOf(cell[c]) \in spaces THEN "local_leave" ELSE "cleanup_check")
    /\ UNCHANGED <<agents, spaces, local, advertised, joinFailed>>

\* space.local_agent_leave: out of the local store, then the tombstone is
\* signed, if the agent was there.
LocalLeave(c) ==
    /\ Goto(c, "local_leave",
            IF cell[c] \in local THEN "tombstone" ELSE "cleanup_check")
    /\ local' = local \ {cell[c]}
    /\ UNCHANGED <<agents, spaces, advertised, joinFailed>>

\* ProxyAgent::sign: without a sender for the agent there is no signature.
AskTombstone(c) ==
    /\ Goto(c, "tombstone",
            IF SendersForAgent(AgentOf(cell[c])) = {} THEN "cleanup_check" ELSE "signing")
    /\ UNCHANGED <<agents, spaces, local, advertised, joinFailed>>

\* The signature comes.  The task that waits for it reads no frame itself, so
\* another connection reads it, of whichever agent (LeaverNeverDelivers).  Which
\* of the connections that are in no call are open is not looked at here.
TombstoneSigned(c) ==
    /\ Goto(c, "signing", "cleanup_check")
    /\ \E o \in Conns \ {c} : pc[o] = "idle"
    /\ advertised' = advertised \ {cell[c]}
    /\ UNCHANGED <<agents, spaces, local, joinFailed>>

\* The browser refuses, is gone, or the timeout passes.
TombstoneFailed(c) ==
    /\ Goto(c, "signing", "cleanup_check")
    /\ UNCHANGED <<agents, spaces, local, advertised, joinFailed>>

\* Faulty: removes the space while other agents are in it.
CleanupCheckSkipped(c) ==
    /\ Goto(c, "cleanup_check", "cleanup_remove")
    /\ UNCHANGED <<agents, spaces, local, advertised, joinFailed>>

\* maybe_cleanup_space, read lock on agents.
CleanupCheck(c) ==
    /\ Goto(c, "cleanup_check",
            IF AgentsOn(DnaOf(cell[c])) = {} THEN "cleanup_remove" ELSE "idle")
    /\ UNCHANGED <<agents, spaces, local, advertised, joinFailed>>

\* maybe_cleanup_space, write lock on spaces.
CleanupRemove(c) ==
    /\ Goto(c, "cleanup_remove", "idle")
    /\ spaces' = spaces \ {DnaOf(cell[c])}
    /\ UNCHANGED <<agents, local, advertised, joinFailed>>

-----------------------------------------------------------------------------
\* get_or_create_space from publish_ops, send_remote_signals and the DHT
\* queries: its only effect is the insert, which may come at any time after
\* its own check.
UseSpace(d) ==
    /\ spaces' = spaces \cup {d}
    /\ UNCHANGED <<agents, local, advertised, pc, cell, overlapped, joinFailed>>

\* kitsune2 signs and publishes the info of a local agent in the background.
Announce(k) ==
    /\ k \in local
    /\ SendersForAgent(AgentOf(k)) # {}
    /\ advertised' = advertised \cup {k}
    /\ UNCHANGED <<agents, spaces, local, pc, cell, overlapped, joinFailed>>

GatewayStep(c) ==
    \/ JoinCheck(c) \/ GetSpace(c) \/ CreateSpace(c)
    \/ LocalJoin(c) \/ JoinFail(c) \/ InsertAgent(c)
    \/ LeaveRemove(c) \/ FindSpace(c) \/ LocalLeave(c)
    \/ AskTombstone(c) \/ TombstoneSigned(c) \/ TombstoneFailed(c)
    \/ CleanupCheck(c) \/ CleanupRemove(c)
=============================================================================
