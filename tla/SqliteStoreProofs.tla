-------------------------- MODULE SqliteStoreProofs -------------------------
(***************************************************************************)
(* SqliteStore keeps its invariants and implements SessionStore, for any   *)
(* sets of agents, DNAs, capabilities and tokens.                          *)
(***************************************************************************)
EXTENDS SqliteStore, TLAPS

\* The empty database satisfies the invariant.
LEMMA InitIInv == Init => IInv
  BY DEF Init, IInv, TypeOK, RemovalIsOrderly, SessionsAreIssued,
         SessionOfAllowedAgent, DnaRowsHaveSessions

\* Deleting sessions keeps the types, and leaves each token without a row or
\* as it was.
LEMMA DeleteKeeps ==
  ASSUME TypeOK, DnaRowsHaveSessions, NEW S \in SUBSET Tokens, DeleteSessions(S)
  PROVE  /\ sessions' \in [Tokens -> SessionRow \cup {NoRow}]
         /\ sessionDnas' \subseteq DnaRow
         /\ \A t \in Tokens : sessions'[t] = IF t \in S THEN NoRow ELSE sessions[t]
         /\ DnaRowsHaveSessions'
  BY DEF TypeOK, DeleteSessions, DnaRowsHaveSessions, Owns, DnaRow

\* Every statement keeps the invariant.
LEMMA NextIInv == IInv /\ [Next]_vars => IInv'
<1> SUFFICES ASSUME IInv, [Next]_vars PROVE IInv'
  OBVIOUS
<1> USE StoreAssumption
<1>1. ASSUME NEW a \in Agents, NEW caps \in SUBSET Caps, AddAgent(a, caps)
      PROVE  IInv'
  <2>1. TypeOK' BY <1>1 DEF IInv, TypeOK, AddAgent
  <2>2. SessionOfAllowedAgent'
    BY <1>1 DEF IInv, TypeOK, AddAgent, SessionOfAllowedAgent, SessionRow
  <2>3. QED
    BY <1>1, <2>1, <2>2 DEF IInv, AddAgent, RemovalIsOrderly, SessionsAreIssued,
       DnaRowsHaveSessions, Owns
<1>2. ASSUME NEW a \in Agents, NEW t \in Tokens, CreateSession(a, t)
      PROVE  IInv'
  <2> DEFINE row == [agent |-> a, caps |-> allowedAgents[a]]
  <2>0. row \in SessionRow /\ row # NoRow /\ row.agent = a
    BY <1>2 DEF IInv, TypeOK, CreateSession, SessionRow
  <2>1. sessions' = [sessions EXCEPT ![t] = row] /\ sessions[t] = NoRow
    BY <1>2 DEF CreateSession, IInv, SessionsAreIssued
  <2> HIDE DEF row
  <2>2. TypeOK' BY <1>2, <2>0, <2>1 DEF IInv, TypeOK, CreateSession
  <2>3. SessionOfAllowedAgent'
    BY <1>2, <2>0, <2>1 DEF IInv, TypeOK, CreateSession, SessionOfAllowedAgent
  <2>4. DnaRowsHaveSessions'
    BY <1>2, <2>0, <2>1 DEF IInv, TypeOK, CreateSession, DnaRowsHaveSessions, Owns,
       DnaRow
  <2>5. RemovalIsOrderly'
    BY <1>2 DEF CreateSession, MutexFree, RemovalIsOrderly
  <2>6. SessionsAreIssued'
    BY <1>2, <2>1 DEF IInv, TypeOK, CreateSession, SessionsAreIssued
  <2>7. QED BY <2>2, <2>3, <2>4, <2>5, <2>6 DEF IInv
<1>3. ASSUME NEW a \in Agents, NEW d \in Dnas, RegisterDnaForAgent(a, d)
      PROVE  IInv'
  <2>1. TypeOK' BY <1>3 DEF IInv, TypeOK, RegisterDnaForAgent, DnaRow
  <2>2. DnaRowsHaveSessions'
    BY <1>3 DEF IInv, RegisterDnaForAgent, DnaRowsHaveSessions, Owns
  <2>3. QED
    BY <1>3, <2>1, <2>2 DEF IInv, RegisterDnaForAgent, MutexFree, RemovalIsOrderly,
       SessionsAreIssued, SessionOfAllowedAgent
<1>4. ASSUME NEW S \in SUBSET Tokens, DeleteSessions(S),
             UNCHANGED <<allowedAgents, issued, removing>>,
             \/ UNCHANGED stmt /\ MutexFree
             \/ stmt = "del_sessions" /\ stmt' = "del_agent"
                /\ S = {t \in Tokens : Owns(removing, t)}
      PROVE  IInv'
  <2>1. /\ sessions' \in [Tokens -> SessionRow \cup {NoRow}]
        /\ sessionDnas' \subseteq DnaRow
        /\ \A t \in Tokens : sessions'[t] = IF t \in S THEN NoRow ELSE sessions[t]
        /\ DnaRowsHaveSessions'
    BY <1>4, DeleteKeeps DEF IInv
  <2>2. TypeOK' BY <1>4, <2>1 DEF IInv, TypeOK
  <2>3. RemovalIsOrderly'
    BY <1>4, <2>1 DEF IInv, RemovalIsOrderly, MutexFree, Owns
  <2>4. SessionsAreIssued' /\ SessionOfAllowedAgent'
    BY <1>4, <2>1 DEF IInv, SessionsAreIssued, SessionOfAllowedAgent
  <2>5. QED BY <2>1, <2>2, <2>3, <2>4 DEF IInv
<1>5. ASSUME NEW t \in Tokens, RevokeSession(t) PROVE IInv'
  BY <1>4, <1>5 DEF RevokeSession
<1>6. ASSUME NEW a \in Agents, RevokeSessionsForAgent(a) PROVE IInv'
  <2>1. {t \in Tokens : Owns(a, t)} \in SUBSET Tokens OBVIOUS
  <2>2. QED BY <1>4, <1>6, <2>1 DEF RevokeSessionsForAgent
<1>7. ASSUME NEW a \in Agents, RemoveAgent(a) PROVE IInv'
  BY <1>7 DEF IInv, TypeOK, RemoveAgent, RemovalIsOrderly, SessionsAreIssued,
     SessionOfAllowedAgent, DnaRowsHaveSessions, Owns
<1>8. ASSUME RemoveDnas PROVE IInv'
  BY <1>8 DEF IInv, TypeOK, RemoveDnas, RemovalIsOrderly, SessionsAreIssued,
     SessionOfAllowedAgent, DnaRowsHaveSessions, Owns
<1>9. ASSUME RemoveSessions PROVE IInv'
  <2>1. {t \in Tokens : Owns(removing, t)} \in SUBSET Tokens OBVIOUS
  <2>2. QED BY <1>4, <1>9, <2>1 DEF RemoveSessions
<1>10. ASSUME RemoveAllowed PROVE IInv'
  <2>1. TypeOK' BY <1>10 DEF IInv, TypeOK, RemoveAllowed
  <2>2. SessionOfAllowedAgent'
    BY <1>10 DEF IInv, TypeOK, RemoveAllowed, RemovalIsOrderly, Owns,
       SessionOfAllowedAgent, SessionRow
  <2>3. QED
    BY <1>10, <2>1, <2>2 DEF IInv, RemoveAllowed, RemovalIsOrderly,
       SessionsAreIssued, DnaRowsHaveSessions, Owns
<1>11. ASSUME RemoveCutShort PROVE IInv'
  BY <1>11 DEF IInv, TypeOK, RemoveCutShort, RemovalIsOrderly, SessionsAreIssued,
     SessionOfAllowedAgent, DnaRowsHaveSessions, Owns
<1>12. ASSUME UNCHANGED vars PROVE IInv'
  BY <1>12 DEF vars, IInv, TypeOK, RemovalIsOrderly, SessionsAreIssued,
     SessionOfAllowedAgent, DnaRowsHaveSessions, Owns
<1>13. QED
  BY <1>1, <1>2, <1>3, <1>5, <1>6, <1>7, <1>8, <1>9, <1>10, <1>11, <1>12 DEF Next

\* The inductive invariant holds in every reachable state, also after any
\* number of failed statements and restarts.
THEOREM InductiveInvariant == Spec => []IInv
  BY InitIInv, NextIInv, PTL DEF Spec

\* The tables keep their column types (all operations of sqlite_store.rs).
THEOREM TypeCorrect == Spec => []TypeOK
  BY InductiveInvariant, PTL DEF IInv

\* Wherever remove_agent stops, no session is left of an agent that is not on
\* the allow list.
THEOREM NoSessionAfterRemoval == Spec => []SessionOfAllowedAgent
  BY InductiveInvariant, PTL DEF IInv

\* No session_dnas row outlives or changes its session: the foreign key and
\* the agent column agree.
THEOREM ScopeBelongsToSession == Spec => []DnaRowsHaveSessions
  BY InductiveInvariant, PTL DEF IInv

-----------------------------------------------------------------------------
\* The refinement

\* The abstract store sees a token exactly when its row exists, with the
\* row's agent.
LEMMA ValidateOwns ==
  ASSUME TypeOK
  PROVE  /\ \A t \in Tokens : ValidateSession(t) = NoRow <=> sessions[t] = NoRow
         /\ \A a \in Agents, t \in Tokens : Abstract!Owns(a, t) <=> Owns(a, t)
<1>1. ASSUME NEW t \in Tokens, sessions[t] # NoRow
      PROVE  ValidateSession(t) # NoRow
  <2>1. sessions[t].agent \in Agents /\ sessions[t].caps \in SUBSET Caps
    BY <1>1 DEF TypeOK, SessionRow
  <2>2. RegisteredDnas(t) \in SUBSET Dnas BY DEF RegisteredDnas
  <2>3. QED BY <1>1, <2>1, <2>2, StoreAssumption DEF ValidateSession
<1>2. QED BY <1>1 DEF ValidateSession, Owns, Abstract!Owns

\* Deleting the sessions of S makes exactly the tokens of S invalid.
LEMMA DeleteInvalidates ==
  ASSUME NEW S \in SUBSET Tokens, DeleteSessions(S)
  PROVE  \A t \in Tokens :
            ValidateSession(t)' = IF t \in S THEN NoRow ELSE ValidateSession(t)
  BY DEF DeleteSessions, ValidateSession, RegisteredDnas

\* Every step of the tables is a step of the abstract store, or none.
LEMMA NextRefines == IInv /\ [Next]_vars => [Abstract!Next]_(Abstract!vars)
<1> SUFFICES ASSUME IInv, [Next]_vars
             PROVE  Abstract!Next \/ UNCHANGED Abstract!vars
  OBVIOUS
<1> USE StoreAssumption
<1>0. TypeOK BY DEF IInv
<1>1. ASSUME NEW a \in Agents, NEW caps \in SUBSET Caps, AddAgent(a, caps)
      PROVE  Abstract!AddAgent(a, caps)
  BY <1>1 DEF AddAgent, Abstract!AddAgent, ValidateSession, RegisteredDnas
<1>2. ASSUME NEW a \in Agents, NEW t \in Tokens, CreateSession(a, t)
      PROVE  Abstract!CreateSession(a, t)
  <2>1. RegisteredDnas(t)' = {}
    BY <1>2 DEF CreateSession, RegisteredDnas, IInv, SessionsAreIssued,
       DnaRowsHaveSessions, Owns
  <2> DEFINE row == [agent |-> a, caps |-> allowedAgents[a]]
             info == [agent |-> a, caps |-> allowedAgents[a], dnas |-> {}]
  <2>2. row # NoRow /\ row.agent = a /\ row.caps = allowedAgents[a]
    BY <1>0, <1>2 DEF CreateSession, TypeOK
  <2>3. sessions'[t] = row
    BY <1>0, <1>2 DEF CreateSession, TypeOK
  <2>4. ValidateSession(t)' = info
    BY <2>1, <2>2, <2>3 DEF ValidateSession
  <2>5. \A u \in Tokens \ {t} : ValidateSession(u)' = ValidateSession(u)
    BY <1>0, <1>2 DEF CreateSession, TypeOK, ValidateSession, RegisteredDnas
  <2>6. QED
    BY <1>2, <2>4, <2>5 DEF CreateSession, Abstract!CreateSession
<1>3. ASSUME NEW a \in Agents, NEW d \in Dnas, RegisterDnaForAgent(a, d)
      PROVE  Abstract!RegisterDnaForAgent(a, d)
  <2>1. \A t \in Tokens : RegisteredDnas(t)' =
           IF Owns(a, t) THEN RegisteredDnas(t) \cup {d} ELSE RegisteredDnas(t)
    <3> DEFINE new == {[token |-> u, dna |-> d, agent |-> a] :
                          u \in {v \in Tokens : Owns(a, v)}}
    <3>1. sessionDnas' = sessionDnas \cup new
      BY <1>3 DEF RegisterDnaForAgent
    <3>2. ASSUME NEW t \in Tokens, NEW e \in Dnas
          PROVE  (\E r \in new : r.token = t /\ r.dna = e) <=> (Owns(a, t) /\ e = d)
      <4>1. ASSUME NEW r \in new, r.token = t, r.dna = e
            PROVE  Owns(a, t) /\ e = d
        BY <4>1
      <4>2. ASSUME Owns(a, t), e = d
            PROVE  \E r \in new : r.token = t /\ r.dna = e
        <5> DEFINE r0 == [token |-> t, dna |-> d, agent |-> a]
        <5>1. r0 \in new BY <4>2
        <5>2. r0.token = t /\ r0.dna = e BY <4>2
        <5>3. QED BY <5>1, <5>2
      <4>3. QED BY <4>1, <4>2
    <3> HIDE DEF new
    <3>3. ASSUME NEW t \in Tokens, NEW e \in Dnas
          PROVE  e \in RegisteredDnas(t)' <=>
                    e \in RegisteredDnas(t) \/ (Owns(a, t) /\ e = d)
      BY <3>1, <3>2 DEF RegisteredDnas
    <3>4. \A t \in Tokens :
            RegisteredDnas(t) \subseteq Dnas /\ RegisteredDnas(t)' \subseteq Dnas
      BY DEF RegisteredDnas
    <3>5. QED BY <3>3, <3>4
  <2>2. QED
    BY <1>0, <1>3, <2>1, ValidateOwns DEF RegisterDnaForAgent,
       Abstract!RegisterDnaForAgent, ValidateSession, Owns
<1>4. ASSUME NEW t \in Tokens, RevokeSession(t)
      PROVE  Abstract!RevokeSession(t)
  <2>1. \A u \in Tokens : ValidateSession(u)' =
           IF u = t THEN NoRow ELSE ValidateSession(u)
    BY <1>4, DeleteInvalidates DEF RevokeSession
  <2>2. QED BY <1>4, <2>1 DEF RevokeSession, Abstract!RevokeSession
<1>5. ASSUME NEW a \in Agents, DeleteSessions({t \in Tokens : Owns(a, t)}),
             UNCHANGED <<allowedAgents, issued>>
      PROVE  Abstract!RevokeSessionsForAgent(a)
  <2>1. \A t \in Tokens : ValidateSession(t)' =
           IF Owns(a, t) THEN NoRow ELSE ValidateSession(t)
    BY <1>5, DeleteInvalidates
  <2>2. QED
    BY <1>0, <1>5, <2>1, ValidateOwns
    DEF Abstract!RevokeSessionsForAgent, Abstract!RevokeAll
<1>6. ASSUME NEW a \in Agents, RemoveAgent(a)
      PROVE  UNCHANGED Abstract!vars
  BY <1>6 DEF RemoveAgent, Abstract!vars, ValidateSession, RegisteredDnas
<1>7. ASSUME RemoveDnas PROVE Abstract!Weaken(removing)
  <2>1. \A t \in Tokens : sessions[t] # NoRow => RegisteredDnas(t)' =
           IF Owns(removing, t) THEN {} ELSE RegisteredDnas(t)
    BY <1>7 DEF RemoveDnas, RegisteredDnas, IInv, DnaRowsHaveSessions, Owns
  <2>2. QED
    BY <1>0, <1>7, <2>1, ValidateOwns DEF RemoveDnas, Abstract!Weaken,
       ValidateSession, Owns, IInv, RemovalIsOrderly
<1>8. ASSUME RemoveAllowed PROVE Abstract!RemoveAgent(removing)
  <2>1. removing \in Agents /\ \A t \in Tokens : ~Owns(removing, t)
    BY <1>8 DEF RemoveAllowed, IInv, RemovalIsOrderly
  <2>2. QED
    BY <1>0, <1>8, <2>1, ValidateOwns DEF RemoveAllowed, Abstract!RemoveAgent,
       Abstract!RevokeAll, ValidateSession, RegisteredDnas
<1>9. ASSUME RemoveCutShort \/ UNCHANGED vars PROVE UNCHANGED Abstract!vars
  BY <1>9 DEF RemoveCutShort, vars, Abstract!vars, ValidateSession, RegisteredDnas
<1>10. stmt # "none" => removing \in Agents
  BY DEF IInv, RemovalIsOrderly
<1>11. QED
  BY <1>1, <1>2, <1>3, <1>4, <1>5, <1>6, <1>7, <1>8, <1>9, <1>10
  DEF Next, RevokeSessionsForAgent, RemoveSessions, RemoveDnas, RemoveAllowed,
      Abstract!Next

\* SqliteSessionStore implements the SessionStore trait's promise: over the
\* tables, validate_session behaves like a store whose operations are atomic.
THEOREM Refinement == Spec => ImplementsSessionStore
<1>1. Init => Abstract!Init
  BY DEF Init, Abstract!Init, ValidateSession
<1>2. QED
  BY <1>1, InductiveInvariant, NextRefines, PTL
  DEF Spec, ImplementsSessionStore, Abstract!Spec
=============================================================================
