----------------------------- MODULE AgentProxy -----------------------------
(***************************************************************************)
(* The registration table of AgentProxyManager (src/agent_proxy.rs): which *)
(* WebSocket connection receives the signals of an agent on a DNA.  The    *)
(* table sits behind one RwLock, so every operation on it is one step.     *)
(* The signing protocol of the same file is in RemoteSigning; here is only *)
(* who could be asked for a signature right now (SendersForAgent).         *)
(***************************************************************************)
EXTENDS Naturals, FiniteSets

CONSTANTS Dnas,      \* DNA hashes
          Agents,    \* agent public keys
          Conns,     \* WebSocket connections, each used once
          NoConn     \* no connection is registered

ASSUME ProxyAssumption == NoConn \notin Conns

VARIABLE registrations  \* [Keys -> Conns \cup {NoConn}]

\* AgentRegistration: what a browser registers is one cell, an agent of a DNA.
Keys == Dnas \X Agents
DnaOf(k) == k[1]
AgentOf(k) == k[2]

ProxyTypeOK == registrations \in [Keys -> Conns \cup {NoConn}]

ProxyInit == registrations = [k \in Keys |-> NoConn]

\* register: HashMap::insert, the latest connection takes over the cell.
ProxyRegister(k, c) == registrations' = [registrations EXCEPT ![k] = c]

\* unregister: removes the cell, whoever holds it.
ProxyUnregister(k) == registrations' = [registrations EXCEPT ![k] = NoConn]

\* Faulty: a disconnect leaves the connection's entries in the table.
ProxyUnregisterAllForgotten(c) == UNCHANGED registrations

\* unregister_all: retain the entries of every other channel.
ProxyUnregisterAll(c) ==
    registrations' = [k \in Keys |->
        IF registrations[k] = c THEN NoConn ELSE registrations[k]]

\* find_sender_for_agent: a sender registered for the agent on any DNA (the
\* code takes the first one of an unordered map).
SendersForAgent(a) ==
    {registrations[k] : k \in {kk \in Keys : AgentOf(kk) = a}} \ {NoConn}
=============================================================================
