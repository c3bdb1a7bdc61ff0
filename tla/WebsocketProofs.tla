-------------------------- MODULE WebsocketProofs ---------------------------
(***************************************************************************)
(* Invariants of the WebSocket endpoint, for every set of connections,     *)
(* agents and DNAs, with and without authentication and kitsune2.          *)
(*                                                                         *)
(* IInv is proved inductive in two parts: the steps of a gateway call,     *)
(* which change nothing of the connections, and the steps of the handlers. *)
(***************************************************************************)
EXTENDS Websocket, FiniteSetTheorems, TLAPS

USE ProxyAssumption, GatewayAssumption, WebsocketAssumption

\* The initial state satisfies the inductive invariant.
LEMMA InitIInv == Init => IInv
  BY DEF Init, IInv, TypeOK, ProxyInit, ProxyTypeOK, GatewayInit, GatewayTypeOK,
         CallsAreOwned, ConnsAreOrderly, RoutedToOwner, NoAbandonedAgent,
         KitsuneOffIsQuiet, GatewayPCs, JoinPCs, LeavePCs

\* A cell has a DNA and an agent of the constants' sets.
LEMMA CellParts == ASSUME NEW k \in Keys
                   PROVE  DnaOf(k) \in Dnas /\ AgentOf(k) \in Agents
  BY DEF Keys, DnaOf, AgentOf

-----------------------------------------------------------------------------
\* A step of a gateway call (agent_join, agent_leave) preserves IInv.
LEMMA GatewayStepIInv ==
  ASSUME IInv, NEW c \in Conns, GatewayStep(c),
         UNCHANGED <<registrations, connVars, authVars, contended>>
  PROVE  IInv'
<1> USE DEF GatewayPCs, JoinPCs, LeavePCs, Goto, connVars
<1>t. TypeOK'
  BY CellParts
  DEF IInv, TypeOK, ProxyTypeOK, GatewayTypeOK, CallsAreOwned, GatewayStep,
      JoinCheck, GetSpace, CreateSpace, LocalJoin, JoinFail, InsertAgent,
      LeaveRemove, FindSpace, LocalLeave, AskTombstone, TombstoneSigned, TombstoneFailed,
      CleanupCheck, CleanupRemove, authVars
<1>1. /\ \A o \in Conns \ {c} : pc'[o] = pc[o] /\ cell'[o] = cell[o]
      /\ pc[c] \in GatewayPCs
      /\ pc'[c] \in GatewayPCs \cup {"idle"}
      /\ pc'[c] \in GatewayPCs => cell'[c] = cell[c]
      /\ pc'[c] \in JoinPCs => pc[c] \in JoinPCs
  BY DEF IInv, TypeOK, GatewayTypeOK, GatewayStep,
      JoinCheck, GetSpace, CreateSpace, LocalJoin, JoinFail, InsertAgent,
      LeaveRemove, FindSpace, LocalLeave, AskTombstone, TombstoneSigned, TombstoneFailed,
      CleanupCheck, CleanupRemove
<1>2. CallsAreOwned'
  BY <1>1 DEF IInv, TypeOK, GatewayTypeOK, CallsAreOwned
<1>3. ConnsAreOrderly' /\ RoutedToOwner'
  BY DEF IInv, ConnsAreOrderly, RoutedToOwner
\* Only InsertAgent adds a cell, one its connection has registered; only
\* LeaveRemove moves a connection past "leave", and it removes the cell.
<1>4. /\ agents' \subseteq agents \cup {cell[c]}
      /\ cell[c] \in agents' /\ cell[c] \notin agents => pc[c] = "insert"
      /\ pc[c] = "leave" => cell[c] \notin agents'
  BY DEF GatewayStep,
      JoinCheck, GetSpace, CreateSpace, LocalJoin, JoinFail, InsertAgent,
      LeaveRemove, FindSpace, LocalLeave, AskTombstone, TombstoneSigned, TombstoneFailed,
      CleanupCheck, CleanupRemove
<1>5. NoAbandonedAgent'
  <2> SUFFICES ASSUME NEW k \in agents'
               PROVE  \E o \in Conns :
                         /\ phase'[o] \in {"open", "closing"}
                         /\ k \in regs'[o] \/ (cell'[o] = k /\ pc'[o] = "leave")
    BY DEF NoAbandonedAgent
  <2>1. CASE k \in agents
    <3>1. PICK o \in Conns : /\ phase[o] \in {"open", "closing"}
                             /\ k \in regs[o] \/ (cell[o] = k /\ pc[o] = "leave")
      BY <2>1 DEF IInv, NoAbandonedAgent
    <3>2. o # c \/ k \in regs[o]
      BY <3>1, <1>4
    <3>3. QED
      BY <3>1, <3>2, <1>1
  <2>2. CASE k \notin agents
    BY <2>2, <1>4 DEF IInv, CallsAreOwned
  <2>3. QED
    BY <2>1, <2>2
<1>6. KitsuneOffIsQuiet'
  BY <1>1, <1>4 DEF IInv, CallsAreOwned, KitsuneOffIsQuiet
<1>7. QED
  BY <1>t, <1>2, <1>3, <1>5, <1>6 DEF IInv

-----------------------------------------------------------------------------
\* A step of a handler, of the client or of the environment preserves IInv.

\* The steps that leave the gateway's and the proxy's tables alone.
LEMMA AuthStepIInv ==
  ASSUME IInv, NEW c \in Conns,
         \/ Connect(c) \/ AuthRejected(c) \/ AuthVerified(c) \/ AuthOk(c)
         \/ \E a \in Agents : AuthDisabled(c, a) \/ Auth(c, a)
  PROVE  IInv'
<1> USE DEF GatewayPCs, JoinPCs, LeavePCs, gkVars, authVars, Ready
<1>1. TypeOK'
  BY DEF IInv, TypeOK, ProxyTypeOK, GatewayTypeOK, CallsAreOwned,
         Connect, AuthDisabled, Auth, AuthRejected, AuthVerified, AuthOk
<1>2. CallsAreOwned'
  BY DEF IInv, TypeOK, GatewayTypeOK, CallsAreOwned,
         Connect, AuthDisabled, Auth, AuthRejected, AuthVerified, AuthOk
<1>3. ConnsAreOrderly'
  BY DEF IInv, TypeOK, CallsAreOwned, ConnsAreOrderly,
         Connect, AuthDisabled, Auth, AuthRejected, AuthVerified, AuthOk
<1>4. RoutedToOwner'
  BY DEF IInv, TypeOK, RoutedToOwner, ProxyTypeOK,
         Connect, AuthDisabled, Auth, AuthRejected, AuthVerified, AuthOk
<1>5. NoAbandonedAgent'
  BY DEF IInv, TypeOK, GatewayTypeOK, NoAbandonedAgent,
         Connect, AuthDisabled, Auth, AuthRejected, AuthVerified, AuthOk
<1>6. KitsuneOffIsQuiet'
  BY DEF IInv, KitsuneOffIsQuiet,
         Connect, AuthDisabled, Auth, AuthRejected, AuthVerified, AuthOk
<1>7. QED
  BY <1>1, <1>2, <1>3, <1>4, <1>5, <1>6 DEF IInv

\* Register and Unregister.
LEMMA RegisterIInv ==
  ASSUME IInv, NEW c \in Conns, NEW k \in Keys, Register(c, k) \/ Unregister(c, k)
  PROVE  IInv'
<1> USE DEF GatewayPCs, JoinPCs, LeavePCs, authVars, Ready, Call, CallJoin,
            CallLeave, NoCall, ProxyRegister, ProxyUnregister, NoteContention
<1>1. TypeOK'
  BY CellParts DEF IInv, TypeOK, ProxyTypeOK, GatewayTypeOK, Register, Unregister
<1>2. CallsAreOwned'
  BY DEF IInv, TypeOK, GatewayTypeOK, CallsAreOwned, Register, Unregister
<1>3. ConnsAreOrderly'
  BY DEF IInv, TypeOK, ConnsAreOrderly, Register, Unregister, MayRegister
<1>4. RoutedToOwner'
  BY DEF IInv, TypeOK, RoutedToOwner, ProxyTypeOK, Register, Unregister
<1>5. NoAbandonedAgent'
  <2> SUFFICES ASSUME NEW j \in agents'
               PROVE  \E o \in Conns :
                         /\ phase'[o] \in {"open", "closing"}
                         /\ j \in regs'[o] \/ (cell'[o] = j /\ pc'[o] = "leave")
    BY DEF NoAbandonedAgent
  <2>1. PICK o \in Conns : /\ phase[o] \in {"open", "closing"}
                           /\ j \in regs[o] \/ (cell[o] = j /\ pc[o] = "leave")
    BY DEF IInv, NoAbandonedAgent, Register, Unregister
  \* c was idle, so it claims nothing but what it has registered.
  <2>2. o = c => j \in regs[c]
    BY <2>1 DEF Register, Unregister
  <2>3. CASE o # c
    BY <2>1, <2>3 DEF IInv, TypeOK, GatewayTypeOK, Register, Unregister
  <2>4. CASE o = c /\ j # k
    BY <2>1, <2>2, <2>4 DEF IInv, TypeOK, GatewayTypeOK, Register, Unregister
  <2>5. CASE o = c /\ j = k
    <3>1. KitsuneEnabled
      BY <2>5 DEF IInv, KitsuneOffIsQuiet, Register, Unregister
    <3>2. QED
      BY <2>1, <2>5, <3>1 DEF IInv, TypeOK, GatewayTypeOK, Register, Unregister
  <2>6. QED
    BY <2>3, <2>4, <2>5
<1>6. KitsuneOffIsQuiet'
  BY DEF IInv, KitsuneOffIsQuiet, Register, Unregister
<1>7. QED
  BY <1>1, <1>2, <1>3, <1>4, <1>5, <1>6 DEF IInv

\* The end of a connection.
LEMMA CleanupIInv ==
  ASSUME IInv, NEW c \in Conns,
         Disconnect(c) \/ CleanupLeave(c) \/ CleanupFinish(c)
  PROVE  IInv'
<1> USE DEF GatewayPCs, JoinPCs, LeavePCs, authVars, gkVars, Ready, Call,
            CallLeave, NoCall, ProxyUnregisterAll
<1>1. TypeOK'
  BY CellParts DEF IInv, TypeOK, ProxyTypeOK, GatewayTypeOK,
                   Disconnect, CleanupLeave, CleanupFinish
<1>2. CallsAreOwned'
  BY DEF IInv, TypeOK, GatewayTypeOK, CallsAreOwned,
         Disconnect, CleanupLeave, CleanupFinish
<1>3. ConnsAreOrderly'
  BY DEF IInv, TypeOK, ConnsAreOrderly, Disconnect, CleanupLeave, CleanupFinish
<1>4. RoutedToOwner'
  BY DEF IInv, TypeOK, RoutedToOwner, ProxyTypeOK,
         Disconnect, CleanupLeave, CleanupFinish
<1>5. NoAbandonedAgent'
  <2> SUFFICES ASSUME NEW j \in agents'
               PROVE  \E o \in Conns :
                         /\ phase'[o] \in {"open", "closing"}
                         /\ j \in regs'[o] \/ (cell'[o] = j /\ pc'[o] = "leave")
    BY DEF NoAbandonedAgent
  <2>1. PICK o \in Conns : /\ phase[o] \in {"open", "closing"}
                           /\ j \in regs[o] \/ (cell[o] = j /\ pc[o] = "leave")
    BY DEF IInv, NoAbandonedAgent, Disconnect, CleanupLeave, CleanupFinish
  <2>2. KitsuneEnabled
    BY DEF IInv, KitsuneOffIsQuiet, Disconnect, CleanupLeave, CleanupFinish
  <2>3. CASE Disconnect(c)
    BY <2>1, <2>3 DEF IInv, TypeOK, GatewayTypeOK, Disconnect
  <2>4. CASE CleanupLeave(c)
    BY <2>1, <2>2, <2>4 DEF IInv, TypeOK, GatewayTypeOK, CleanupLeave
  <2>5. CASE CleanupFinish(c)
    BY <2>1, <2>5 DEF IInv, TypeOK, GatewayTypeOK, CleanupFinish
  <2>6. QED
    BY <2>3, <2>4, <2>5
<1>6. KitsuneOffIsQuiet'
  BY DEF IInv, KitsuneOffIsQuiet, Disconnect, CleanupLeave, CleanupFinish
<1>7. QED
  BY <1>1, <1>2, <1>3, <1>4, <1>5, <1>6 DEF IInv

\* The admin API and what runs beside the connections.
LEMMA EnvironmentIInv == ASSUME IInv, Environment
                         PROVE  IInv'
<1> USE DEF connVars, authVars, gkVars
<1>1. TypeOK'
  BY DEF IInv, TypeOK, ProxyTypeOK, GatewayTypeOK, Environment,
         AdminAddAgent, AdminRemoveAgent, UseSpace, Announce
<1>2. /\ UNCHANGED <<registrations, connVars, agents, pc, cell>>
  BY DEF Environment, AdminAddAgent, AdminRemoveAgent, UseSpace, Announce
<1>3. QED
  BY <1>1, <1>2 DEF IInv, KitsuneOffIsQuiet, CallsAreOwned, ConnsAreOrderly,
                    RoutedToOwner, NoAbandonedAgent

-----------------------------------------------------------------------------
\* IInv is an invariant: of every step of Next, and of a stuttering step.
LEMMA NextIInv == IInv /\ [Next]_vars => IInv'
<1> SUFFICES ASSUME IInv, [Next]_vars
             PROVE  IInv'
  OBVIOUS
<1>1. CASE Environment
  BY <1>1, EnvironmentIInv
<1>2. ASSUME NEW c \in Conns, ClientMessage(c) \/ HandlerStep(c)
      PROVE  IInv'
  <2>1. CASE \/ Connect(c) \/ AuthRejected(c) \/ AuthVerified(c) \/ AuthOk(c)
             \/ \E a \in Agents : AuthDisabled(c, a) \/ Auth(c, a)
    BY <2>1, AuthStepIInv
  <2>2. CASE \E k \in Keys : Register(c, k) \/ Unregister(c, k)
    BY <2>2, RegisterIInv
  <2>3. CASE Disconnect(c) \/ CleanupLeave(c) \/ CleanupFinish(c)
    BY <2>3, CleanupIInv
  <2>4. CASE /\ GatewayStep(c)
             /\ UNCHANGED <<registrations, connVars, authVars, contended>>
    BY <2>4, GatewayStepIInv
  <2>5. QED
    BY <1>2, <2>1, <2>2, <2>3, <2>4 DEF ClientMessage, HandlerStep
<1>3. CASE UNCHANGED vars
  BY <1>3 DEF vars, gkVars, connVars, authVars, IInv, TypeOK, ProxyTypeOK,
              GatewayTypeOK, KitsuneOffIsQuiet, CallsAreOwned, ConnsAreOrderly,
              RoutedToOwner, NoAbandonedAgent
<1>4. QED
  BY <1>1, <1>2, <1>3 DEF Next

\* The inductive invariant holds in every reachable state.
THEOREM InductiveInvariant == Spec => []IInv
  BY InitIInv, NextIInv, PTL DEF Spec

\* The types of all variables, for every value of the constants.
THEOREM TypeCorrect == Spec => []TypeOK
<1>1. IInv => TypeOK
  BY DEF IInv
<1>2. QED
  BY <1>1, InductiveInvariant, PTL

\* agent_proxy.rs never routes a cell to a connection that does not hold it.
THEOREM RoutingIsOwned == Spec => []RoutedToOwner
<1>1. IInv => RoutedToOwner
  BY DEF IInv
<1>2. QED
  BY <1>1, InductiveInvariant, PTL

\* With authentication on, a cell is only routed to a connection whose client
\* answered the challenge of the cell's agent.
THEOREM RoutingIsProven == Spec => []RoutedToProvenAgent
<1>1. IInv => RoutedToProvenAgent
  BY DEF IInv, TypeOK, ProxyTypeOK, RoutedToOwner, ConnsAreOrderly, RoutedToProvenAgent
<1>2. QED
  BY <1>1, InductiveInvariant, PTL

\* No agent stays in GatewayKitsune's agents map once the connections that
\* registered it have finished their cleanup.
THEOREM NoAgentIsAbandoned == Spec => []NoAbandonedAgent
<1>1. IInv => NoAbandonedAgent
  BY DEF IInv
<1>2. QED
  BY <1>1, InductiveInvariant, PTL

-----------------------------------------------------------------------------
\* Serial calls

\* A step of a gateway call moves its own call only, and changes nothing in
\* the records but its cell and its DNA.
LEMMA GatewayFrame ==
  ASSUME IInv, NEW c \in Conns, GatewayStep(c)
  PROVE  /\ \A o \in Conns \ {c} : pc'[o] = pc[o] /\ cell'[o] = cell[o]
         /\ pc[c] \in GatewayPCs /\ cell[c] \in Keys
         /\ pc'[c] \in GatewayPCs \cup {"idle"}
         /\ pc'[c] \in GatewayPCs => cell'[c] = cell[c]
         /\ pc'[c] = "idle" => cell'[c] = NoCell
         /\ overlapped' = overlapped
         /\ agents' \ {cell[c]} = agents \ {cell[c]} /\ local' \ {cell[c]} = local \ {cell[c]}
         /\ spaces' \ {DnaOf(cell[c])} = spaces \ {DnaOf(cell[c])}
<1> USE DEF GatewayPCs, JoinPCs, LeavePCs, Goto
<1>1. /\ \A o \in Conns \ {c} : pc'[o] = pc[o] /\ cell'[o] = cell[o]
      /\ pc[c] \in GatewayPCs /\ pc'[c] \in GatewayPCs \cup {"idle"}
      /\ pc'[c] \in GatewayPCs => cell'[c] = cell[c]
      /\ pc'[c] = "idle" => cell'[c] = NoCell
      /\ overlapped' = overlapped
  BY DEF IInv, TypeOK, GatewayTypeOK, GatewayStep,
      JoinCheck, GetSpace, CreateSpace, LocalJoin, JoinFail, InsertAgent,
      LeaveRemove, FindSpace, LocalLeave, AskTombstone, TombstoneSigned, TombstoneFailed,
      CleanupCheck, CleanupRemove
<1>2. cell[c] \in Keys
  BY <1>1 DEF IInv, CallsAreOwned
<1>3. /\ agents' \ {cell[c]} = agents \ {cell[c]} /\ local' \ {cell[c]} = local \ {cell[c]}
      /\ spaces' \ {DnaOf(cell[c])} = spaces \ {DnaOf(cell[c])}
  BY DEF GatewayStep,
      JoinCheck, GetSpace, CreateSpace, LocalJoin, JoinFail, InsertAgent,
      LeaveRemove, FindSpace, LocalLeave, AskTombstone, TombstoneSigned, TombstoneFailed,
      CleanupCheck, CleanupRemove
<1>4. QED BY <1>1, <1>2, <1>3

\* What a step of a serial call does to its own cell and DNA, and where it
\* leaves the call.
LEMMA GatewayEffect ==
  ASSUME SerialIInv, NEW c \in Conns, GatewayStep(c), DnaOf(cell[c]) \notin overlapped
  PROVE  LET k == cell[c]  d == DnaOf(cell[c]) IN
         /\ k \in local' <=> k \in agents' \/ pc'[c] \in AheadPCs
         /\ k \in local' => d \in spaces'
         /\ d \in spaces /\ pc[c] # "cleanup_remove" => d \in spaces'
         /\ pc'[c] = "local_join" => d \in spaces'
         /\ pc'[c] \in {"find_space", "local_leave"} => k \notin agents'
         /\ pc'[c] = "cleanup_remove" => AgentsOn(d) = {} /\ agents' = agents
<1> DEFINE k == cell[c]  d == DnaOf(cell[c])
<1>1. k \in Keys /\ d \in Dnas /\ pc[c] \in GatewayPCs
  BY GatewayFrame, CellParts DEF SerialIInv
<1>2. Ahead(k) <=> pc[c] \in AheadPCs
  <2>1. ASSUME NEW o \in Conns, cell[o] = k, pc[o] \in AheadPCs PROVE o = c
    BY <1>1, <2>1 DEF SerialIInv, OneCallAtATime, InCall, AheadPCs, GatewayPCs, JoinPCs, LeavePCs
  <2>2. QED BY <2>1 DEF Ahead
<1>3. /\ k \in local <=> k \in agents \/ pc[c] \in AheadPCs
      /\ k \in local => d \in spaces
  BY <1>1, <1>2 DEF SerialIInv, RecordsAreInStep
<1>4. /\ pc[c] = "local_join" => d \in spaces
      /\ pc[c] \in {"find_space", "local_leave"} => k \notin agents
      /\ pc[c] = "cleanup_remove" => AgentsOn(d) = {}
  BY <1>1 DEF SerialIInv, CallsAreInStep
<1>5. pc \in [Conns -> GatewayPCs \cup {"idle", "ws_sender"}]
  BY DEF SerialIInv, IInv, TypeOK, GatewayTypeOK
<1>6. pc[c] = "cleanup_remove" => k \notin agents
  BY <1>1, <1>4 DEF AgentsOn
<1> USE <1>1, <1>3, <1>4, <1>5, <1>6 DEF Goto, AheadPCs, GatewayPCs, JoinPCs, LeavePCs
<1>7. CASE JoinCheck(c) BY <1>7 DEF JoinCheck
<1>8. CASE GetSpace(c) BY <1>8 DEF GetSpace
<1>9. CASE CreateSpace(c) BY <1>9 DEF CreateSpace
<1>10. CASE LocalJoin(c) BY <1>10 DEF LocalJoin
<1>11. CASE JoinFail(c) BY <1>11 DEF JoinFail
<1>12. CASE InsertAgent(c) BY <1>12 DEF InsertAgent
<1>13. CASE LeaveRemove(c) BY <1>13 DEF LeaveRemove
<1>14. CASE FindSpace(c) BY <1>14 DEF FindSpace
<1>15. CASE LocalLeave(c) BY <1>15 DEF LocalLeave
<1>15a. CASE AskTombstone(c) BY <1>15a DEF AskTombstone
<1>16. CASE TombstoneSigned(c) BY <1>16 DEF TombstoneSigned
<1>17. CASE TombstoneFailed(c) BY <1>17 DEF TombstoneFailed
<1>18. CASE CleanupCheck(c) BY <1>18 DEF CleanupCheck
<1>19. CASE CleanupRemove(c) BY <1>19 DEF CleanupRemove
<1>20. QED
  BY <1>7, <1>8, <1>9, <1>10, <1>11, <1>12, <1>13, <1>14, <1>15, <1>15a,
     <1>16, <1>17, <1>18, <1>19
  DEF GatewayStep

\* A step of a gateway call keeps the records in step.
LEMMA SerialGatewayStep ==
  ASSUME SerialIInv, NEW c \in Conns, GatewayStep(c)
  PROVE  OneCallAtATime' /\ RecordsAreInStep' /\ CallsAreInStep'
<1> DEFINE d == DnaOf(cell[c])
<1> USE DEF SerialIInv
<1>1. /\ \A o \in Conns \ {c} : pc'[o] = pc[o] /\ cell'[o] = cell[o]
      /\ pc[c] \in GatewayPCs /\ cell[c] \in Keys
      /\ pc'[c] \in GatewayPCs \cup {"idle"}
      /\ pc'[c] \in GatewayPCs => cell'[c] = cell[c]
      /\ pc'[c] = "idle" => cell'[c] = NoCell
      /\ overlapped' = overlapped
      /\ agents' \ {cell[c]} = agents \ {cell[c]} /\ local' \ {cell[c]} = local \ {cell[c]}
      /\ spaces' \ {d} = spaces \ {d}
  BY GatewayFrame
<1>2. d \in Dnas BY <1>1, CellParts
<1>3. ASSUME NEW o \in Conns, NEW e, InCall(o, e)' PROVE InCall(o, e)
  BY <1>1, <1>3 DEF InCall, GatewayPCs, JoinPCs, LeavePCs
<1>4. OneCallAtATime'
  BY <1>1, <1>3 DEF OneCallAtATime
\* Where c is serial, every other call is on another DNA.
<1>5. ASSUME d \notin overlapped, NEW o \in Conns \ {c}, pc[o] \in GatewayPCs
      PROVE  DnaOf(cell[o]) # d
  BY <1>1, <1>2, <1>5 DEF OneCallAtATime, InCall
<1>6. ASSUME NEW k \in Keys, k # cell[c] PROVE Ahead(k)' <=> Ahead(k)
  BY <1>1, <1>6, GatewayAssumption DEF Ahead, AheadPCs, GatewayPCs, JoinPCs, LeavePCs
<1>7. ASSUME d \notin overlapped, NEW k \in Keys, k = cell[c]
      PROVE  Ahead(k)' <=> pc'[c] \in AheadPCs
  <2>1. ASSUME NEW o \in Conns \ {c}, cell'[o] = k, pc'[o] \in AheadPCs PROVE FALSE
    BY <1>1, <1>5, <1>7, <2>1 DEF AheadPCs, GatewayPCs, JoinPCs, LeavePCs
  <2>2. pc'[c] \in AheadPCs => cell'[c] = k
    BY <1>1, <1>7 DEF AheadPCs, GatewayPCs, JoinPCs, LeavePCs
  <2>3. QED BY <2>1, <2>2 DEF Ahead
<1>8. RecordsAreInStep'
  <2> SUFFICES ASSUME NEW k \in Keys, DnaOf(k) \notin overlapped
               PROVE  /\ k \in local' <=> k \in agents' \/ Ahead(k)'
                      /\ k \in local' => DnaOf(k) \in spaces'
    BY <1>1 DEF RecordsAreInStep
  <2>1. /\ k \in local <=> k \in agents \/ Ahead(k)
        /\ k \in local => DnaOf(k) \in spaces
    BY DEF RecordsAreInStep
  <2>f. ASSUME k # cell[c]
        PROVE  /\ k \in agents' <=> k \in agents
               /\ k \in local' <=> k \in local
               /\ Ahead(k)' <=> Ahead(k)
    BY <1>1, <1>6, <2>f
  <2>2. CASE DnaOf(k) # d
    <3>1. k # cell[c] BY <2>2
    <3>2. DnaOf(k) \in spaces' <=> DnaOf(k) \in spaces BY <1>1, <2>2
    <3>3. QED BY <2>1, <2>f, <3>1, <3>2
  <2>3. CASE k = cell[c]
    BY <1>7, <2>3, GatewayEffect
  \* Nobody is left in a space that is removed.
  <2>4. CASE DnaOf(k) = d /\ k # cell[c]
    <3>1. pc[c] = "cleanup_remove" => k \notin agents
      BY <1>1, <2>4 DEF CallsAreInStep, AgentsOn
    <3>2. ~Ahead(k)
      <4>1. ASSUME NEW o \in Conns, cell[o] = k, pc[o] \in AheadPCs PROVE FALSE
        BY <1>1, <1>5, <2>4, <4>1 DEF AheadPCs, GatewayPCs, JoinPCs, LeavePCs
      <4>2. QED BY <4>1 DEF Ahead
    <3>3. d \in spaces /\ pc[c] # "cleanup_remove" => d \in spaces'
      BY <2>4, GatewayEffect
    <3>4. QED BY <2>1, <2>f, <2>4, <3>1, <3>2, <3>3
  <2>5. QED BY <2>2, <2>3, <2>4
<1>9. CallsAreInStep'
  <2> SUFFICES ASSUME NEW o \in Conns, pc'[o] \in GatewayPCs, DnaOf(cell'[o]) \notin overlapped
               PROVE  /\ pc'[o] = "local_join" => DnaOf(cell'[o]) \in spaces'
                      /\ pc'[o] \in {"find_space", "local_leave"} => cell'[o] \notin agents'
                      /\ pc'[o] = "cleanup_remove" =>
                            {k \in agents' : DnaOf(k) = DnaOf(cell'[o])} = {}
    BY <1>1 DEF CallsAreInStep, AgentsOn
  <2>1. CASE o = c
    BY <1>1, <2>1, GatewayEffect DEF AgentsOn
  <2>2. CASE o # c
    <3>1. pc'[o] = pc[o] /\ cell'[o] = cell[o] BY <1>1, <2>2
    <3>2. DnaOf(cell[o]) # d
      <4>1. CASE d \in overlapped BY <3>1, <4>1
      <4>2. CASE d \notin overlapped BY <1>5, <2>2, <3>1, <4>2
      <4>3. QED BY <4>1, <4>2
    <3>3. cell[o] # cell[c] BY <3>2
    <3>4. /\ pc[o] = "local_join" => DnaOf(cell[o]) \in spaces
          /\ pc[o] \in {"find_space", "local_leave"} => cell[o] \notin agents
          /\ pc[o] = "cleanup_remove" => \A k \in agents : DnaOf(k) # DnaOf(cell[o])
      BY <3>1 DEF CallsAreInStep, AgentsOn
    <3>5. DnaOf(cell[o]) \in spaces => DnaOf(cell[o]) \in spaces' BY <1>1, <3>2
    <3>6. cell[o] \notin agents => cell[o] \notin agents' BY <1>1, <3>3
    <3>7. ASSUME NEW k \in agents', DnaOf(k) = DnaOf(cell[o]) PROVE k \in agents
      BY <1>1, <3>2, <3>7
    <3>8. QED BY <3>1, <3>4, <3>5, <3>6, <3>7
  <2>3. QED BY <2>1, <2>2
<1>10. QED BY <1>4, <1>8, <1>9

\* Entering a gateway call: if it is the second one on its DNA, that is noted.
LEMMA SerialCall ==
  ASSUME SerialIInv, NEW c \in Conns, NEW k \in Keys, NEW entry \in {"join", "leave"},
         pc[c] = "idle", Call(c, k, entry), UNCHANGED <<agents, spaces, local>>
  PROVE  OneCallAtATime' /\ RecordsAreInStep' /\ CallsAreInStep'
<1> USE DEF SerialIInv
<1>1. /\ \A o \in Conns \ {c} : pc'[o] = pc[o] /\ cell'[o] = cell[o]
      /\ pc'[c] = entry /\ cell'[c] = k
      /\ overlapped \subseteq overlapped'
  BY DEF Call, IInv, TypeOK, GatewayTypeOK
<1>2. ASSUME DnaOf(k) \notin overlapped', NEW o \in Conns \ {c} PROVE ~InCall(o, DnaOf(k))
  BY <1>2 DEF Call
<1>3. OneCallAtATime'
  <2> SUFFICES ASSUME NEW d \in Dnas, d \notin overlapped', NEW o \in Conns, NEW p \in Conns,
                      InCall(o, d)', InCall(p, d)'
               PROVE  o = p
    BY DEF OneCallAtATime
  <2>1. ASSUME NEW q \in Conns \ {c}, InCall(q, d)' PROVE InCall(q, d)
    BY <1>1, <2>1 DEF InCall
  <2>2. InCall(c, d)' => d = DnaOf(k) BY <1>1 DEF InCall
  <2>3. QED BY <1>1, <1>2, <2>1, <2>2 DEF OneCallAtATime
<1>4. ASSUME NEW j \in Keys PROVE Ahead(j)' <=> Ahead(j)
  BY <1>1 DEF Ahead, AheadPCs
<1>5. RecordsAreInStep'
  BY <1>1, <1>4 DEF RecordsAreInStep
<1>6. CallsAreInStep'
  <2> SUFFICES ASSUME NEW o \in Conns, pc'[o] \in GatewayPCs, DnaOf(cell'[o]) \notin overlapped'
               PROVE  /\ pc'[o] = "local_join" => DnaOf(cell'[o]) \in spaces
                      /\ pc'[o] \in {"find_space", "local_leave"} => cell'[o] \notin agents
                      /\ pc'[o] = "cleanup_remove" =>
                            {j \in agents : DnaOf(j) = DnaOf(cell'[o])} = {}
    BY DEF CallsAreInStep, AgentsOn
  <2>1. CASE o = c BY <1>1, <2>1
  <2>2. CASE o # c BY <1>1, <2>2 DEF CallsAreInStep, AgentsOn
  <2>3. QED BY <2>1, <2>2
<1>7. QED BY <1>3, <1>5, <1>6

\* The other steps leave calls and records alone; a space may be added.
LEMMA SerialOther ==
  ASSUME SerialIInv, UNCHANGED <<agents, local, cell, overlapped>>, spaces \subseteq spaces',
         \A o \in Conns : pc'[o] = pc[o] \/ {pc[o], pc'[o]} \subseteq {"idle", "ws_sender"}
  PROVE  OneCallAtATime' /\ RecordsAreInStep' /\ CallsAreInStep'
<1> USE DEF SerialIInv
<1>1. ASSUME NEW o \in Conns PROVE pc'[o] \in GatewayPCs => pc'[o] = pc[o]
  BY DEF GatewayPCs, JoinPCs, LeavePCs
<1>2. OneCallAtATime'
  BY <1>1 DEF OneCallAtATime, InCall
<1>3. ASSUME NEW k \in Keys PROVE Ahead(k)' <=> Ahead(k)
  BY DEF Ahead, AheadPCs
<1>4. RecordsAreInStep'
  BY <1>3 DEF RecordsAreInStep
<1>5. CallsAreInStep'
  BY <1>1 DEF CallsAreInStep, AgentsOn
<1>6. QED BY <1>2, <1>4, <1>5

\* Every step keeps the records of a DNA with serial calls in step.
LEMMA SerialNext == SerialIInv /\ [Next]_vars => SerialIInv'
<1> SUFFICES ASSUME SerialIInv, [Next]_vars
             PROVE  SerialIInv'
  OBVIOUS
<1>1. IInv' BY NextIInv DEF SerialIInv
<1> DEFINE Kept == OneCallAtATime' /\ RecordsAreInStep' /\ CallsAreInStep'
<1>2. CASE Environment
  <2>1. UNCHANGED <<agents, local, cell, overlapped, pc>> /\ spaces \subseteq spaces'
    BY <1>2 DEF Environment, AdminAddAgent, AdminRemoveAgent, UseSpace, Announce, gkVars
  <2>2. QED BY <2>1, SerialOther, <1>1 DEF SerialIInv
<1>3. ASSUME NEW c \in Conns, ClientMessage(c) \/ HandlerStep(c)
      PROVE  Kept
  <2>1. CASE \/ Connect(c) \/ AuthRejected(c) \/ AuthVerified(c) \/ AuthOk(c)
             \/ \E a \in Agents : AuthDisabled(c, a) \/ Auth(c, a)
             \/ Disconnect(c) \/ CleanupFinish(c)
    <3>1. /\ UNCHANGED <<agents, local, cell, overlapped, spaces>>
          /\ \A o \in Conns : pc'[o] = pc[o] \/ {pc[o], pc'[o]} \subseteq {"idle", "ws_sender"}
      BY <2>1 DEF Connect, AuthRejected, AuthVerified, AuthOk, AuthDisabled, Auth, Disconnect,
           CleanupFinish, gkVars, Ready, SerialIInv, IInv, TypeOK, GatewayTypeOK
    <3>2. QED BY <3>1, SerialOther
  <2>2. ASSUME NEW k \in Keys, Register(c, k) \/ Unregister(c, k) PROVE Kept
    <3>1. CASE KitsuneEnabled
      BY <2>2, <3>1, SerialCall DEF Register, Unregister, Ready, CallJoin, CallLeave
    <3>2. CASE ~KitsuneEnabled
      BY <2>2, <3>2, SerialOther DEF Register, Unregister, NoCall
    <3>3. QED BY <3>1, <3>2
  <2>3. CASE CleanupLeave(c)
    <3>1. PICK k \in regs[c] : IF KitsuneEnabled THEN CallLeave(c, k) ELSE NoCall
      BY <2>3 DEF CleanupLeave
    <3>2. k \in Keys BY DEF SerialIInv, IInv, TypeOK
    <3>3. CASE KitsuneEnabled
      BY <2>3, <3>1, <3>2, <3>3, SerialCall DEF CleanupLeave, CallLeave
    <3>4. CASE ~KitsuneEnabled
      BY <2>3, <3>1, <3>4, SerialOther DEF CleanupLeave, NoCall
    <3>5. QED BY <3>3, <3>4
  <2>4. CASE /\ GatewayStep(c)
             /\ UNCHANGED <<registrations, connVars, authVars, contended>>
    BY <2>4, SerialGatewayStep
  <2>5. QED
    BY <1>3, <2>1, <2>2, <2>3, <2>4 DEF ClientMessage, HandlerStep
<1>4. CASE UNCHANGED vars
  BY <1>1, <1>4, SerialOther DEF vars, gkVars, SerialIInv
<1>5. QED
  BY <1>1, <1>2, <1>3, <1>4 DEF Next, SerialIInv

\* Before anything is registered the records are empty.
LEMMA SerialInit == Init => SerialIInv
  BY InitIInv DEF Init, GatewayInit, SerialIInv, OneCallAtATime, RecordsAreInStep,
     CallsAreInStep, InCall, Ahead, AheadPCs, GatewayPCs, JoinPCs, LeavePCs

\* On a DNA where agent_join and agent_leave never overlapped, the agents map,
\* kitsune2's local agents and the spaces agree whenever no call is under way.
THEOREM SerialCallsKeepAgreement == Spec => []SerialCallsAgree
<1>1. SerialIInv => SerialCallsAgree
  <2> SUFFICES ASSUME SerialIInv, NEW d \in Dnas \ overlapped, \A c \in Conns : ~InCall(c, d)
               PROVE  /\ AgentsOn(d) = LocalOn(d)
                      /\ AgentsOn(d) # {} => d \in spaces
    BY DEF SerialCallsAgree
  <2>1. ASSUME NEW k \in Keys, DnaOf(k) = d PROVE ~Ahead(k)
    BY <2>1 DEF Ahead, AheadPCs, InCall, GatewayPCs, JoinPCs, LeavePCs
  <2>2. ASSUME NEW k \in Keys, DnaOf(k) = d
        PROVE  /\ k \in local <=> k \in agents
               /\ k \in local => d \in spaces
    BY <2>1, <2>2 DEF SerialIInv, RecordsAreInStep
  <2>3. agents \subseteq Keys /\ local \subseteq Keys
    BY DEF SerialIInv, IInv, TypeOK, GatewayTypeOK
  <2>4. QED BY <2>2, <2>3 DEF AgentsOn, LocalOn
<1>2. QED
  BY <1>1, SerialInit, SerialNext, PTL DEF Spec

-----------------------------------------------------------------------------
\* Registered cells are joined

\* A step of a gateway call: the agents map loses a cell only by a leave, which
\* nobody else can have under way for a cell that is registered and uncontended.
LEMMA JoinedGatewayStep ==
  ASSUME JoinedIInv, NEW c \in Conns, GatewayStep(c),
         UNCHANGED <<registrations, connVars, authVars, contended>>
  PROVE  ClaimsAreUnique' /\ LeavesAreGivenUp' /\ JoinedOrJoining'
<1> USE DEF JoinedIInv, SerialIInv, connVars
<1>1. /\ \A o \in Conns \ {c} : pc'[o] = pc[o] /\ cell'[o] = cell[o]
      /\ pc[c] \in GatewayPCs /\ cell[c] \in Keys
      /\ pc'[c] \in GatewayPCs \cup {"idle"}
      /\ pc'[c] \in GatewayPCs => cell'[c] = cell[c]
      /\ pc'[c] = "idle" => cell'[c] = NoCell
      /\ overlapped' = overlapped
      /\ agents' \ {cell[c]} = agents \ {cell[c]}
  BY GatewayFrame
<1>2. /\ pc'[c] \in LeavePCs => pc[c] \in LeavePCs
      /\ joinFailed \ {cell[c]} \subseteq joinFailed'
      /\ pc[c] \in JoinPCs =>
            \/ pc'[c] \in JoinPCs /\ cell'[c] = cell[c]
            \/ cell[c] \in agents'
            \/ cell[c] \in joinFailed'
      /\ pc[c] \in LeavePCs => joinFailed' = joinFailed
  BY DEF IInv, TypeOK, GatewayTypeOK, GatewayStep, Goto, GatewayPCs, JoinPCs, LeavePCs,
      JoinCheck, GetSpace, CreateSpace, LocalJoin, JoinFail, InsertAgent,
      LeaveRemove, FindSpace, LocalLeave, AskTombstone, TombstoneSigned, TombstoneFailed,
      CleanupCheck, CleanupRemove
<1>3. ASSUME NEW o \in Conns, NEW k \in Keys, Claims(o, k)' PROVE Claims(o, k)
  BY <1>1, <1>3 DEF Claims, GatewayPCs, JoinPCs, LeavePCs
<1>4. ClaimsAreUnique'
  BY <1>3 DEF ClaimsAreUnique
<1>5. LeavesAreGivenUp'
  BY <1>1, <1>2 DEF LeavesAreGivenUp, GatewayPCs
<1>6. JoinedOrJoining'
  <2> SUFFICES ASSUME NEW k \in Keys, KitsuneEnabled, registrations[k] # NoConn,
                      k \notin contended, k \notin joinFailed', DnaOf(k) \notin overlapped
               PROVE  k \in agents' \/ (pc'[registrations[k]] \in JoinPCs /\ cell'[registrations[k]] = k)
    BY <1>1 DEF JoinedOrJoining
  <2> DEFINE o == registrations[k]
  <2>1. o \in Conns /\ k \in regs[o]
    BY DEF IInv, TypeOK, ProxyTypeOK, RoutedToOwner
  <2>2. cell[c] = k => c = o
    BY <2>1 DEF ClaimsAreUnique, Claims
  <2>3. CASE cell[c] = k
    <3>1. pc[c] \notin LeavePCs BY <2>1, <2>2, <2>3 DEF LeavesAreGivenUp
    <3>2. pc[c] \in JoinPCs BY <1>1, <3>1 DEF GatewayPCs
    <3>3. QED BY <1>2, <2>2, <2>3, <3>2
  <2>4. CASE cell[c] # k
    <3>1. k \notin joinFailed BY <1>2, <2>4
    <3>2. k \in agents \/ (pc[o] \in JoinPCs /\ cell[o] = k) BY <3>1 DEF JoinedOrJoining
    <3>3. k \in agents => k \in agents' BY <1>1, <2>4
    <3>4. cell[o] = k => o # c BY <2>4
    <3>5. QED BY <1>1, <2>1, <3>2, <3>3, <3>4
  <2>5. QED BY <2>3, <2>4
<1>7. QED BY <1>4, <1>5, <1>6

\* Register starts the join of what it registers, Unregister and the cleanup
\* give up what they leave, and a second claimant is noted.
LEMMA JoinedCall ==
  ASSUME JoinedIInv, NEW c \in Conns, NEW k \in Keys,
         \/ Register(c, k) \/ Unregister(c, k)
         \/ /\ CleanupLeave(c) /\ k \in regs[c]
            /\ regs' = [regs EXCEPT ![c] = @ \ {k}]
            /\ IF KitsuneEnabled THEN CallLeave(c, k) ELSE NoCall
  PROVE  ClaimsAreUnique' /\ LeavesAreGivenUp' /\ JoinedOrJoining'
<1> USE DEF JoinedIInv, SerialIInv
<1>t. /\ pc \in [Conns -> GatewayPCs \cup {"idle", "ws_sender"}]
      /\ cell \in [Conns -> Keys \cup {NoCell}]
      /\ regs \in [Conns -> SUBSET Keys]
      /\ registrations \in [Keys -> Conns \cup {NoConn}]
  BY DEF IInv, TypeOK, GatewayTypeOK, ProxyTypeOK
<1>1. /\ pc[c] = "idle" /\ UNCHANGED <<agents, joinFailed>>
      /\ contended \subseteq contended' /\ overlapped \subseteq overlapped'
      /\ \A o \in Conns \ {c} : pc'[o] = pc[o] /\ cell'[o] = cell[o] /\ regs'[o] = regs[o]
      /\ regs'[c] \subseteq regs[c] \cup {k}
  BY <1>t DEF Register, Unregister, CleanupLeave, Ready, CallJoin, CallLeave, Call, NoCall,
         NoteContention
<1>2. IF KitsuneEnabled THEN pc'[c] \in {"join", "leave"} /\ cell'[c] = k
      ELSE UNCHANGED <<pc, cell>>
  BY <1>t DEF Register, Unregister, CallJoin, CallLeave, Call, NoCall
<1>3. pc'[c] = "leave" => k \notin regs'[c]
  BY <1>t, <1>1, <1>2 DEF Register, Unregister, CallJoin, CallLeave, Call, NoCall
<1>4. k \in contended' \/ Claims(c, k) \/ \A o \in Conns \ {c} : ~Claims(o, k)
  BY DEF Register, Unregister, NoteContention, Claims
<1>5. ClaimsAreUnique'
  <2> SUFFICES ASSUME NEW j \in Keys, j \notin contended', NEW o \in Conns, NEW p \in Conns,
                      Claims(o, j)', Claims(p, j)'
               PROVE  o = p
    BY DEF ClaimsAreUnique
  <2>1. ASSUME NEW q \in Conns, Claims(q, j)' PROVE Claims(q, j) \/ (q = c /\ j = k)
    BY <1>1, <1>2, <2>1 DEF Claims
  <2>2. QED BY <1>1, <1>4, <2>1 DEF ClaimsAreUnique
<1>6. LeavesAreGivenUp'
  <2> SUFFICES ASSUME NEW o \in Conns, pc'[o] \in LeavePCs PROVE cell'[o] \notin regs'[o]
    BY DEF LeavesAreGivenUp
  <2>1. CASE o # c BY <1>1, <2>1 DEF LeavesAreGivenUp
  <2>2. CASE o = c BY <1>1, <1>2, <1>3, <2>2 DEF LeavePCs
  <2>3. QED BY <2>1, <2>2
<1>7. JoinedOrJoining'
  <2> SUFFICES ASSUME NEW j \in Keys, KitsuneEnabled, registrations'[j] # NoConn,
                      j \notin contended', j \notin joinFailed, DnaOf(j) \notin overlapped'
               PROVE  \/ j \in agents
                      \/ pc'[registrations'[j]] \in JoinPCs /\ cell'[registrations'[j]] = j
    BY <1>1 DEF JoinedOrJoining
  <2>1. CASE Register(c, k) /\ j = k
    <3>1. registrations'[j] = c /\ pc'[c] = "join"
      BY <1>t, <2>1 DEF Register, ProxyRegister, CallJoin, Call
    <3>2. QED BY <1>2, <2>1, <3>1 DEF JoinPCs
  <2>2. CASE ~(Register(c, k) /\ j = k)
    <3>1. registrations'[j] = registrations[j]
      BY <1>t, <2>2 DEF Register, Unregister, CleanupLeave, ProxyRegister, ProxyUnregister
    <3>2. registrations[j] \in Conns BY <1>t, <3>1
    <3>3. j \in agents \/ (pc[registrations[j]] \in JoinPCs /\ cell[registrations[j]] = j)
      BY <1>1, <3>1 DEF JoinedOrJoining
    <3>4. QED BY <1>1, <3>1, <3>2, <3>3 DEF JoinPCs
  <2>3. QED BY <2>1, <2>2
<1>8. QED BY <1>5, <1>6, <1>7

\* The other steps register nothing and start no call.
LEMMA JoinedOther ==
  ASSUME JoinedIInv, UNCHANGED <<agents, cell, overlapped, joinFailed, regs, contended>>,
         \A o \in Conns : pc'[o] = pc[o] \/ {pc[o], pc'[o]} \subseteq {"idle", "ws_sender"},
         \A k \in Keys : registrations'[k] \in {registrations[k], NoConn}
  PROVE  ClaimsAreUnique' /\ LeavesAreGivenUp' /\ JoinedOrJoining'
<1> USE DEF JoinedIInv, SerialIInv
<1>1. ClaimsAreUnique' BY DEF ClaimsAreUnique, Claims
<1>2. LeavesAreGivenUp' BY DEF LeavesAreGivenUp, LeavePCs
<1>3. JoinedOrJoining'
  <2>1. registrations \in [Keys -> Conns \cup {NoConn}] BY DEF IInv, TypeOK, ProxyTypeOK
  <2>2. QED BY <2>1 DEF JoinedOrJoining, JoinPCs
<1>4. QED BY <1>1, <1>2, <1>3

\* Every step keeps registered cells joined or joining.
LEMMA JoinedNext == JoinedIInv /\ [Next]_vars => JoinedIInv'
<1> SUFFICES ASSUME JoinedIInv, [Next]_vars
             PROVE  JoinedIInv'
  OBVIOUS
<1>1. SerialIInv' BY SerialNext DEF JoinedIInv
<1>2. CASE Environment
  BY <1>1, <1>2, JoinedOther
  DEF JoinedIInv, Environment, AdminAddAgent, AdminRemoveAgent, UseSpace, Announce, gkVars, connVars
<1> DEFINE Kept == ClaimsAreUnique' /\ LeavesAreGivenUp' /\ JoinedOrJoining'
<1>3. ASSUME NEW c \in Conns, ClientMessage(c) \/ HandlerStep(c)
      PROVE  Kept
  <2>1. CASE \/ Connect(c) \/ AuthRejected(c) \/ AuthVerified(c) \/ AuthOk(c)
             \/ \E a \in Agents : AuthDisabled(c, a) \/ Auth(c, a)
             \/ Disconnect(c) \/ CleanupFinish(c)
    <3>1. /\ UNCHANGED <<agents, cell, overlapped, joinFailed, regs, contended>>
          /\ \A o \in Conns : pc'[o] = pc[o] \/ {pc[o], pc'[o]} \subseteq {"idle", "ws_sender"}
          /\ \A k \in Keys : registrations'[k] \in {registrations[k], NoConn}
      BY <2>1 DEF Connect, AuthRejected, AuthVerified, AuthOk, AuthDisabled, Auth, Disconnect,
           CleanupFinish, gkVars, Ready, JoinedIInv, SerialIInv, IInv, TypeOK, GatewayTypeOK,
           ProxyUnregisterAll
    <3>2. QED BY <3>1, JoinedOther
  <2>2. ASSUME NEW k \in Keys, Register(c, k) \/ Unregister(c, k) PROVE Kept
    BY <2>2, JoinedCall
  <2>3. CASE CleanupLeave(c)
    <3>1. PICK k \in regs[c] : /\ regs' = [regs EXCEPT ![c] = @ \ {k}]
                               /\ IF KitsuneEnabled THEN CallLeave(c, k) ELSE NoCall
      BY <2>3 DEF CleanupLeave
    <3>2. k \in Keys BY DEF JoinedIInv, SerialIInv, IInv, TypeOK
    <3>3. QED BY <2>3, <3>1, <3>2, JoinedCall
  <2>4. CASE /\ GatewayStep(c)
             /\ UNCHANGED <<registrations, connVars, authVars, contended>>
    BY <2>4, JoinedGatewayStep
  <2>5. QED
    BY <1>3, <2>1, <2>2, <2>3, <2>4 DEF ClientMessage, HandlerStep
<1>4. CASE UNCHANGED vars
  BY <1>1, <1>4, JoinedOther DEF vars, gkVars, connVars, JoinedIInv
<1>5. QED
  BY <1>1, <1>2, <1>3, <1>4 DEF Next, JoinedIInv

\* Before anything is registered no cell is claimed.
LEMMA JoinedInit == Init => JoinedIInv
  BY SerialInit DEF Init, ProxyInit, GatewayInit, JoinedIInv, ClaimsAreUnique, Claims,
     LeavesAreGivenUp, JoinedOrJoining, LeavePCs

\* Once its Register is answered a cell is joined, in the agents map and in
\* kitsune2, unless a second connection claimed it, calls overlapped on its DNA
\* or the join failed: for every number of connections, agents and DNAs.
THEOREM UncontendedIsJoined == Spec => []RegisteredIsJoinedUncontended
<1>1. JoinedIInv => RegisteredIsJoinedUncontended
  <2> SUFFICES ASSUME JoinedIInv, NEW k \in Keys, KitsuneEnabled, registrations[k] # NoConn,
                      pc[registrations[k]] \notin GatewayPCs,
                      k \notin contended \cup joinFailed, DnaOf(k) \notin overlapped
               PROVE  k \in agents /\ k \in local
    BY DEF RegisteredIsJoinedUncontended
  <2>1. k \in agents BY DEF JoinedIInv, JoinedOrJoining, GatewayPCs
  <2>2. QED BY <2>1 DEF JoinedIInv, SerialIInv, RecordsAreInStep
<1>2. QED
  BY <1>1, JoinedInit, JoinedNext, PTL DEF Spec

-----------------------------------------------------------------------------
\* The sender table

\* Every step keeps the senders of proven agents.
LEMMA SendersNext == SendersIInv /\ [Next]_vars => SendersIInv'
<1> SUFFICES ASSUME SendersIInv, [Next]_vars
             PROVE  SendersIInv'
  OBVIOUS
<1> DEFINE Known(a, c) == /\ AuthEnabled /\ a \in proven[c] /\ authAgent[c] # NoAgent
                          /\ phase[c] = "closed" => authAgent[c] # a
           Finite(c) == IsFiniteSet(proven[c]) /\ (pc[c] = "ws_sender" => AuthEnabled)
<1>i. IInv' BY NextIInv DEF SendersIInv
<1>t. /\ TypeOK /\ CallsAreOwned
      /\ allowed # {} => AuthEnabled
      /\ \A c \in Conns : Finite(c)
      /\ \A a \in Agents : \A c \in wsSenders[a] : Known(a, c)
  BY DEF SendersIInv, IInv
<1> DEFINE Kept == /\ allowed' # {} => AuthEnabled
                   /\ \A c \in Conns : Finite(c)'
                   /\ \A a \in Agents : \A c \in wsSenders'[a] : Known(a, c)'
<1> SUFFICES Kept
  BY <1>i DEF SendersIInv
<1> USE DEF TypeOK, GatewayTypeOK, authVars, connVars, gkVars, Ready
<1>1. CASE Environment
  BY <1>t, <1>1 DEF Environment, AdminAddAgent, AdminRemoveAgent, UseSpace, Announce
<1>2. ASSUME NEW c \in Conns,
             \/ Connect(c) \/ AuthRejected(c) \/ Disconnect(c)
             \/ \E a \in Agents : AuthDisabled(c, a) \/ Auth(c, a)
      PROVE  Kept
  BY <1>t, <1>2 DEF Connect, AuthRejected, Disconnect, AuthDisabled, Auth
<1>3. ASSUME NEW c \in Conns, AuthVerified(c)
      PROVE  Kept
  <2>1. AuthEnabled /\ UNCHANGED <<allowed, wsSenders, phase, authAgent>>
    BY <1>t, <1>3 DEF AuthVerified
  <2>2. /\ proven'[c] = proven[c] \cup {pendingAuth[c]} /\ pc'[c] = "ws_sender"
        /\ \A o \in Conns \ {c} : proven'[o] = proven[o] /\ pc'[o] = pc[o]
    BY <1>t, <1>3 DEF AuthVerified
  <2>3. IsFiniteSet(proven'[c])
    <3>1. IsFiniteSet(proven[c]) BY <1>t
    <3>2. IsFiniteSet(proven[c] \cup {pendingAuth[c]}) BY <3>1, FS_AddElement
    <3>3. QED BY <2>2, <3>2
  <2>4. QED BY <1>t, <2>1, <2>2, <2>3
<1>4. ASSUME NEW c \in Conns, AuthOk(c)
      PROVE  Kept
  <2>1. /\ AuthEnabled /\ pendingAuth[c] \in Agents \cap proven[c]
        /\ phase[c] \in {"open", "closing"}
    BY <1>t, <1>4 DEF AuthOk, CallsAreOwned
  <2>2. QED BY <1>t, <1>4, <2>1 DEF AuthOk
<1>5. ASSUME NEW c \in Conns, CleanupFinish(c)
      PROVE  Kept
  BY <1>t, <1>5 DEF CleanupFinish
<1>6. ASSUME NEW c \in Conns,
             \/ \E k \in Keys : Register(c, k) \/ Unregister(c, k)
             \/ CleanupLeave(c)
             \/ GatewayStep(c) /\ UNCHANGED <<registrations, connVars, authVars, contended>>
      PROVE  Kept
  <2>1. UNCHANGED <<allowed, wsSenders, phase, authAgent, proven>>
    BY <1>6 DEF Register, Unregister, CleanupLeave
  <2>2. ASSUME NEW o \in Conns PROVE pc'[o] = "ws_sender" => pc[o] = "ws_sender"
    <3>1. CASE GatewayStep(c)
      BY <3>1, GatewayFrame DEF SendersIInv, GatewayPCs, JoinPCs, LeavePCs
    <3>2. CASE ~GatewayStep(c)
      BY <1>t, <1>6, <3>2
      DEF Register, Unregister, CleanupLeave, CallJoin, CallLeave, Call, NoCall
    <3>3. QED BY <3>1, <3>2
  <2>3. QED BY <1>t, <2>1, <2>2
<1>7. CASE UNCHANGED vars
  BY <1>t, <1>7 DEF vars
<1>8. QED
  BY <1>1, <1>2, <1>3, <1>4, <1>5, <1>6, <1>7 DEF Next, ClientMessage, HandlerStep

\* A sender is left in ws_senders by a finished connection only if the
\* connection proved two agents: the cleanup forgets the last one.
THEOREM LeaksNeedReauth == Spec => []SenderLeakOnlyAfterReauth
<1>1. Init => SendersIInv
  BY InitIInv, FS_EmptySet DEF Init, GatewayInit, SendersIInv
<1>2. SendersIInv => SenderLeakOnlyAfterReauth
  <2> SUFFICES ASSUME SendersIInv, NEW a \in Agents, NEW c \in wsSenders[a], phase[c] = "closed"
               PROVE  Cardinality(proven[c]) > 1
    BY DEF SenderLeakOnlyAfterReauth
  <2> DEFINE b == authAgent[c]
  <2>1. c \in Conns BY DEF SendersIInv, IInv, TypeOK
  <2>2. a \in proven[c] /\ b \in proven[c] /\ a # b /\ IsFiniteSet(proven[c])
    BY <2>1 DEF SendersIInv, IInv, ConnsAreOrderly
  <2>3. Cardinality({a} \cup {b}) = 2 /\ IsFiniteSet({a} \cup {b})
    <3>1. IsFiniteSet({a}) /\ Cardinality({a}) = 1 /\ b \notin {a} BY <2>2, FS_Singleton
    <3>2. QED BY <3>1, FS_AddElement
  <2>4. {a} \cup {b} \in SUBSET proven[c] BY <2>2
  <2>5. Cardinality({a} \cup {b}) <= Cardinality(proven[c]) /\ Cardinality(proven[c]) \in Nat
    BY <2>2, <2>4, FS_Subset, FS_CardinalityType
  <2>6. QED BY <2>3, <2>5
<1>3. QED
  BY <1>1, <1>2, SendersNext, PTL DEF Spec
=============================================================================
