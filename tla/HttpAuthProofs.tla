--------------------------- MODULE HttpAuthProofs ---------------------------
(***************************************************************************)
(* What MemoryStore keeps for any number of concurrent create_session      *)
(* calls (the two lock sections lose nothing but the overtaken insert),    *)
(* and what the middleware of HttpAuth keeps over it for any number of     *)
(* requests: it is enough that the store only revokes tokens and widens    *)
(* what they grant.                                                        *)
(***************************************************************************)
EXTENDS HttpAuth, TLAPS

\* A session record is never taken for a missing one.
LEMMA InfoIsARow ==
  ASSUME NEW a \in Agents, NEW caps \in SUBSET Caps, NEW D \in SUBSET Dnas
  PROVE  /\ [agent |-> a, caps |-> caps, dnas |-> D] \in SessionInfo
         /\ [agent |-> a, caps |-> caps, dnas |-> D] # NoRow
  BY MemoryAssumption DEF SessionInfo

\* RegisterDnaForAgent widens scopes and changes nothing else of a session.
LEMMA RegisterWidens ==
  ASSUME TypeOK, NEW a \in Agents, NEW d \in Dnas, RegisterDnaForAgent(a, d)
  PROVE  /\ sessions' \in [Tokens -> SessionInfo \cup {NoRow}]
         /\ \A t \in Tokens :
               /\ sessions'[t] = NoRow <=> sessions[t] = NoRow
               /\ sessions[t] # NoRow =>
                     /\ sessions'[t].agent = sessions[t].agent
                     /\ sessions'[t].caps = sessions[t].caps
<1>1. ASSUME NEW t \in Tokens
      PROVE  /\ sessions'[t] \in SessionInfo \cup {NoRow}
             /\ sessions'[t] = NoRow <=> sessions[t] = NoRow
             /\ sessions[t] # NoRow =>
                   /\ sessions'[t].agent = sessions[t].agent
                   /\ sessions'[t].caps = sessions[t].caps
  <2>1. CASE Owns(a, t)
    <3>1. sessions[t] \in SessionInfo BY <2>1 DEF TypeOK, Owns
    <3>2. sessions'[t] = [agent |-> sessions[t].agent, caps |-> sessions[t].caps,
                          dnas |-> sessions[t].dnas \cup {d}]
      BY <2>1, <3>1 DEF RegisterDnaForAgent, SessionInfo
    <3>3. /\ sessions[t].agent \in Agents
          /\ sessions[t].caps \in SUBSET Caps
          /\ sessions[t].dnas \cup {d} \in SUBSET Dnas
      BY <3>1 DEF SessionInfo
    <3>4. sessions'[t] \in SessionInfo /\ sessions'[t] # NoRow
      BY <3>2, <3>3, InfoIsARow
    <3>5. QED BY <2>1, <3>2, <3>4 DEF Owns
  <2>2. CASE ~Owns(a, t)
    BY <2>2 DEF RegisterDnaForAgent, TypeOK
  <2>3. QED BY <2>1, <2>2
<1>2. sessions' = [t \in Tokens |-> sessions'[t]]
  BY DEF RegisterDnaForAgent
<1>3. QED BY <1>1, <1>2

\* The initial state satisfies the invariant.
LEMMA InitIInv == Init => IInv
  BY DEF Init, IInv, TypeOK, CallersAreCurrent, OnlyLateSessionsOutliveRemoval

\* Every lock section keeps the invariant.
LEMMA NextIInv == IInv /\ [Next]_vars => IInv'
<1> SUFFICES ASSUME IInv, [Next]_vars PROVE IInv'
  OBVIOUS
<1> USE MemoryAssumption
<1>0. TypeOK BY DEF IInv
<1>1. ASSUME NEW a \in Agents, NEW caps \in SUBSET Caps, AddAgent(a, caps)
      PROVE  IInv'
  <2>1. TypeOK' BY <1>0, <1>1 DEF TypeOK, AddAgent
  <2>2. CallersAreCurrent'
    BY <1>0, <1>1 DEF IInv, TypeOK, CallersAreCurrent, AddAgent
  <2>3. OnlyLateSessionsOutliveRemoval'
    BY <1>0, <1>1 DEF IInv, TypeOK, OnlyLateSessionsOutliveRemoval, AddAgent, SessionInfo
  <2>4. QED BY <2>1, <2>2, <2>3 DEF IInv
<1>2. ASSUME NEW a \in Agents, RemoveAgent(a) PROVE IInv'
  <2>1. TypeOK' BY <1>0, <1>2 DEF TypeOK, RemoveAgent, RetainOthers
  <2>2. CallersAreCurrent'
    BY <1>0, <1>2 DEF IInv, TypeOK, CallersAreCurrent, RemoveAgent, RetainOthers
  <2>3. OnlyLateSessionsOutliveRemoval'
    BY <1>0, <1>2 DEF IInv, TypeOK, OnlyLateSessionsOutliveRemoval, RemoveAgent,
       RetainOthers, Owns, SessionInfo
  <2>4. QED BY <2>1, <2>2, <2>3 DEF IInv
<1>3. ASSUME NEW a \in Agents, RevokeSessionsForAgent(a) PROVE IInv'
  BY <1>0, <1>3 DEF IInv, TypeOK, CallersAreCurrent, OnlyLateSessionsOutliveRemoval,
     RevokeSessionsForAgent, RetainOthers
<1>4. ASSUME NEW w \in Callers, NEW a \in Agents, CreateSession(w, a) PROVE IInv'
  <2> DEFINE row == [agent |-> a, caps |-> allowedAgents[a]]
  <2>1. row \in [agent : Agents, caps : SUBSET Caps] /\ row.agent = a
    BY <1>0, <1>4 DEF TypeOK, CreateSession
  <2>2. creating' = [creating EXCEPT ![w] = row]
    BY <1>4 DEF CreateSession
  <2> HIDE DEF row
  <2>3. TypeOK' BY <1>0, <1>4, <2>1, <2>2 DEF TypeOK, CreateSession
  <2>4. CallersAreCurrent'
    BY <1>0, <1>4, <2>1, <2>2 DEF IInv, TypeOK, CallersAreCurrent, CreateSession
  <2>5. QED
    BY <1>4, <2>3, <2>4 DEF IInv, OnlyLateSessionsOutliveRemoval, CreateSession
<1>5. ASSUME NEW w \in Callers, NEW t \in Tokens, InsertSession(w, t) PROVE IInv'
  <2> DEFINE info == [agent |-> creating[w].agent, caps |-> creating[w].caps,
                      dnas |-> {}]
  <2>1. /\ info \in SessionInfo
        /\ info # NoRow
        /\ info.agent = creating[w].agent
    BY <1>0, <1>5, InfoIsARow DEF TypeOK, InsertSession
  <2>2. sessions' = [sessions EXCEPT ![t] = info]
    BY <1>5 DEF InsertSession
  <2> HIDE DEF info
  <2>3. TypeOK' BY <1>0, <1>5, <2>1, <2>2 DEF TypeOK, InsertSession
  <2>4. CallersAreCurrent'
    BY <1>0, <1>5, <2>2 DEF IInv, TypeOK, CallersAreCurrent, InsertSession
  <2>5. OnlyLateSessionsOutliveRemoval'
    BY <1>0, <1>5, <2>1, <2>2 DEF IInv, TypeOK, CallersAreCurrent,
       OnlyLateSessionsOutliveRemoval, InsertSession
  <2>6. QED BY <2>3, <2>4, <2>5 DEF IInv
<1>6. ASSUME NEW a \in Agents, NEW d \in Dnas, RegisterDnaForAgent(a, d) PROVE IInv'
  <2>1. /\ sessions' \in [Tokens -> SessionInfo \cup {NoRow}]
        /\ \A t \in Tokens :
              /\ sessions'[t] = NoRow <=> sessions[t] = NoRow
              /\ sessions[t] # NoRow => sessions'[t].agent = sessions[t].agent
    BY <1>0, <1>6, RegisterWidens
  <2>2. UNCHANGED <<allowedAgents, issued, creating, overtaken, late>>
    BY <1>6 DEF RegisterDnaForAgent
  <2>3. TypeOK' BY <1>0, <2>1, <2>2 DEF TypeOK
  <2>4. CallersAreCurrent' BY <2>1, <2>2 DEF IInv, CallersAreCurrent
  <2>5. OnlyLateSessionsOutliveRemoval'
    BY <2>1, <2>2 DEF IInv, OnlyLateSessionsOutliveRemoval
  <2>6. QED BY <2>3, <2>4, <2>5 DEF IInv
<1>7. ASSUME NEW t \in Tokens, RevokeSession(t) PROVE IInv'
  BY <1>0, <1>7 DEF IInv, TypeOK, CallersAreCurrent, OnlyLateSessionsOutliveRemoval,
     RevokeSession
<1>8. ASSUME UNCHANGED vars PROVE IInv'
  BY <1>8 DEF vars, IInv, TypeOK, CallersAreCurrent, OnlyLateSessionsOutliveRemoval
<1>9. QED
  BY <1>1, <1>2, <1>3, <1>4, <1>5, <1>6, <1>7, <1>8 DEF Next

\* The inductive invariant holds in every reachable state.
THEOREM InductiveInvariant == Spec => []IInv
  BY InitIInv, NextIInv, PTL DEF Spec

\* The maps of MemoryStoreInner keep their types.
THEOREM TypeCorrect == Spec => []TypeOK
  BY InductiveInvariant, PTL DEF IInv

\* The only sessions that survive remove_agent are the ones whose
\* create_session was between its lock sections when the agent was removed.
THEOREM OnlyOvertakenInsertsLeak == Spec => []OnlyLateSessionsOutliveRemoval
  BY InductiveInvariant, PTL DEF IInv

\* No operation revives a token, nor changes the agent or the capabilities it
\* stands for.
THEOREM RevocationIsFinal == Spec => RevokedTokensStayInvalid
<1> DEFINE Final == \A t \in issued : sessions'[t] # NoRow =>
                      /\ sessions[t] # NoRow
                      /\ sessions'[t].agent = sessions[t].agent
                      /\ sessions'[t].caps = sessions[t].caps
<1>1. ASSUME IInv, [Next]_vars PROVE Final \/ UNCHANGED Abstract!vars
  <2>0. TypeOK BY <1>1 DEF IInv
  <2>1. ASSUME NEW a \in Agents, NEW d \in Dnas, RegisterDnaForAgent(a, d)
        PROVE  Final
    BY <2>0, <2>1, RegisterWidens DEF TypeOK
  <2>2. ASSUME NEW w \in Callers, NEW t \in Tokens, InsertSession(w, t)
        PROVE  Final
    BY <2>0, <2>2 DEF TypeOK, InsertSession
  <2>3. ASSUME NEW a \in Agents, RetainOthers(a) PROVE Final
    BY <2>0, <2>3 DEF TypeOK, RetainOthers
  <2>4. ASSUME NEW t \in Tokens, RevokeSession(t) PROVE Final
    BY <2>0, <2>4 DEF TypeOK, RevokeSession
  <2>5. ASSUME UNCHANGED sessions PROVE Final
    BY <2>5
  <2>6. QED
    BY <1>1, <2>1, <2>2, <2>3, <2>4, <2>5
    DEF Next, vars, AddAgent, RemoveAgent, RevokeSessionsForAgent, CreateSession
<1>2. QED
  BY <1>1, InductiveInvariant, PTL
  DEF Spec, RevokedTokensStayInvalid, Abstract!TokensAreFinal

-----------------------------------------------------------------------------
\* The middleware

\* What any step of the store leaves of the tokens there are.
Keeps ==
    /\ issued \subseteq issued'
    /\ \A t \in issued :
          \/ sessions'[t] = NoRow
          \/ /\ sessions[t] # NoRow
             /\ sessions'[t].agent = sessions[t].agent
             /\ sessions'[t].caps = sessions[t].caps
             /\ sessions[t].dnas \subseteq sessions'[t].dnas

\* Every step of the store only revokes tokens, or widens their scope.
LEMMA StoreKeeps == IInv /\ [Next]_vars => Keeps
<1> SUFFICES ASSUME IInv, [Next]_vars PROVE Keeps
  OBVIOUS
<1>0. TypeOK BY DEF IInv
<1>1. ASSUME NEW a \in Agents, NEW d \in Dnas, RegisterDnaForAgent(a, d)
      PROVE  Keeps
  <2>1. issued' = issued BY <1>1 DEF RegisterDnaForAgent
  <2>2. ASSUME NEW t \in Tokens, sessions[t] # NoRow
        PROVE  sessions[t].dnas \subseteq sessions'[t].dnas
    <3>1. sessions[t] \in SessionInfo BY <1>0, <2>2 DEF TypeOK
    <3>2. CASE Owns(a, t)
      BY <1>1, <3>1, <3>2 DEF RegisterDnaForAgent, SessionInfo
    <3>3. CASE ~Owns(a, t)
      BY <1>1, <3>3 DEF RegisterDnaForAgent
    <3>4. QED BY <3>2, <3>3
  <2>3. QED BY <1>0, <1>1, <2>1, <2>2, RegisterWidens DEF TypeOK, Keeps
<1>2. ASSUME NEW w \in Callers, NEW t \in Tokens, InsertSession(w, t) PROVE Keeps
  BY <1>0, <1>2 DEF TypeOK, InsertSession, Keeps
<1>3. ASSUME NEW a \in Agents, RetainOthers(a), issued' = issued PROVE Keeps
  BY <1>0, <1>3 DEF TypeOK, RetainOthers, Keeps
<1>4. ASSUME NEW t \in Tokens, RevokeSession(t) PROVE Keeps
  BY <1>0, <1>4 DEF TypeOK, RevokeSession, Keeps
<1>5. ASSUME UNCHANGED <<sessions, issued>> PROVE Keeps
  BY <1>5 DEF Keeps
<1>6. QED
  BY <1>1, <1>2, <1>3, <1>4, <1>5
  DEF Next, vars, AddAgent, RemoveAgent, RevokeSessionsForAgent, CreateSession

\* A step of the store does not disturb the requests under way.
LEMMA StoreStepHttpIInv ==
  ASSUME HttpIInv, [Next]_vars, UNCHANGED <<authEnabled, request>>
  PROVE  HttpIInv'
<1>1. IInv' BY NextIInv DEF HttpIInv
<1>2. HttpTypeOK' BY DEF HttpIInv, HttpTypeOK
<1>3. Keeps BY StoreKeeps DEF HttpIInv
<1>4. ASSUME NEW q \in Requests
      PROVE  /\ RevokedIsStopped(request[q])'
             /\ EntitledGoesOn(request[q])'
             /\ CopyIsOfItsToken(request[q])'
  <2> DEFINE r == request[q]
  <2>1. r' = r BY DEF r
  <2>2. RevokedIsStopped(r) /\ EntitledGoesOn(r) /\ CopyIsOfItsToken(r)
    BY DEF HttpIInv
  <2> HIDE DEF r
  <2>3. RevokedIsStopped(r)'
    BY <1>3, <2>1, <2>2 DEF RevokedIsStopped, Keeps
  <2>4. EntitledGoesOn(r)'
    <3>1. ASSUME r.token \in issued,
                 sessions[r.token] = NoRow \/ Grants(sessions[r.token], r.route, r.dna)
          PROVE  sessions'[r.token] = NoRow \/ Grants(sessions'[r.token], r.route, r.dna)
      BY <1>3, <3>1 DEF Keeps, Grants
    <3>2. QED
      BY <1>3, <2>1, <2>2, <3>1 DEF EntitledGoesOn, Keeps
  <2>5. CopyIsOfItsToken(r)'
    BY <1>3, <2>1, <2>2 DEF CopyIsOfItsToken, Keeps
  <2>6. QED BY <2>3, <2>4, <2>5 DEF r
<1>5. QED BY <1>1, <1>2, <1>4 DEF HttpIInv

\* A step of one request leaves the others and the store alone.
LEMMA RequestStepHttpIInv ==
  ASSUME HttpIInv, UNCHANGED <<vars, authEnabled>>, NEW q \in Requests, NEW s,
         request' = [request EXCEPT ![q] = s],
         s \in [stage : {"capability", "scope", "handler", "done"},
                status : {0, 200, 400, 401, 403}, route : Routes,
                token : Tokens \cup {NoToken}, dna : Dnas \cup {BadDna},
                ctx : SessionInfo \cup {NoRow},
                arrived : {"revoked", "entitled", "other"}],
         RevokedIsStopped(s), EntitledGoesOn(s), CopyIsOfItsToken(s)
  PROVE  HttpIInv'
<1>1. IInv'
  BY DEF HttpIInv, IInv, TypeOK, CallersAreCurrent, OnlyLateSessionsOutliveRemoval, vars
<1>2. HttpTypeOK' BY DEF HttpIInv, HttpTypeOK
<1>3. ASSUME NEW p \in Requests
      PROVE  /\ RevokedIsStopped(request[p])'
             /\ EntitledGoesOn(request[p])'
             /\ CopyIsOfItsToken(request[p])'
  <2>1. request'[p] = IF p = q THEN s ELSE request[p]
    BY DEF HttpIInv, HttpTypeOK
  <2>2. /\ RevokedIsStopped(request'[p])
        /\ EntitledGoesOn(request'[p])
        /\ CopyIsOfItsToken(request'[p])
    BY <2>1 DEF HttpIInv
  <2>3. sessions' = sessions /\ issued' = issued /\ authEnabled' = authEnabled
    BY DEF vars
  <2>4. QED
    BY <2>2, <2>3 DEF RevokedIsStopped, EntitledGoesOn, CopyIsOfItsToken, Grants
<1>4. QED BY <1>1, <1>2, <1>3 DEF HttpIInv

\* The initial state satisfies the invariant.
LEMMA HttpInitIInv == HttpInit => HttpIInv
<1> SUFFICES ASSUME HttpInit PROVE HttpIInv
  OBVIOUS
<1>1. IInv BY InitIInv DEF HttpInit
<1>2. HttpTypeOK BY DEF HttpInit, HttpTypeOK, Idle, Routes
<1>3. QED
  BY <1>1, <1>2
  DEF HttpInit, HttpIInv, Idle, RevokedIsStopped, EntitledGoesOn, CopyIsOfItsToken

\* The record of a request, which its steps replace.
Record ==
    [stage : {"capability", "scope", "handler", "done"},
     status : {0, 200, 400, 401, 403}, route : Routes,
     token : Tokens \cup {NoToken}, dna : Dnas \cup {BadDna},
     ctx : SessionInfo \cup {NoRow}, arrived : {"revoked", "entitled", "other"}]

\* A request arrives and is judged against the store.
LEMMA ArriveHttpIInv ==
  ASSUME HttpIInv, NEW q \in Requests, NEW route \in Routes,
         NEW token \in issued \cup {NoToken}, NEW dna \in Dnas \cup {BadDna},
         Arrive(q, route, token, dna)
  PROVE  HttpIInv'
<1> DEFINE s == [stage |-> IF authEnabled THEN "capability" ELSE "handler",
                 status |-> 0, route |-> route, token |-> token, dna |-> dna,
                 ctx |-> NoRow, arrived |-> Standing(token, route, dna)]
<1>0. issued \subseteq Tokens BY DEF HttpIInv, IInv, TypeOK
<1>1. Standing(token, route, dna) \in {"revoked", "entitled", "other"}
  BY DEF Standing
<1>2. s \in Record BY <1>0, <1>1 DEF Record
<1>3. request' = [request EXCEPT ![q] = s] BY DEF Arrive
<1>4. /\ s.stage = IF authEnabled THEN "capability" ELSE "handler"
      /\ s.status = 0 /\ s.route = route /\ s.token = token /\ s.dna = dna
      /\ s.ctx = NoRow /\ s.arrived = Standing(token, route, dna)
  OBVIOUS
<1> HIDE DEF s
<1>5. ASSUME Standing(token, route, dna) = "revoked"
      PROVE  token \in issued /\ sessions[token] = NoRow
  BY <1>5 DEF Standing
<1>6. ASSUME Standing(token, route, dna) = "entitled"
      PROVE  token \in issued /\ Grants(sessions[token], route, dna)
  BY <1>6 DEF Standing
<1>7. RevokedIsStopped(s) BY <1>4, <1>5 DEF RevokedIsStopped
<1>8. EntitledGoesOn(s) BY <1>4, <1>6 DEF EntitledGoesOn
<1>9. CopyIsOfItsToken(s) BY <1>4 DEF CopyIsOfItsToken
<1>10. UNCHANGED <<vars, authEnabled>> BY DEF Arrive
<1>11. QED
  BY <1>2, <1>3, <1>7, <1>8, <1>9, <1>10, RequestStepHttpIInv DEF Record

\* The record of a request after a step that moves it on.
Moved(r, stage, status, ctx) ==
    [stage |-> stage, status |-> status, route |-> r.route, token |-> r.token,
     dna |-> r.dna, ctx |-> ctx, arrived |-> r.arrived]

\* What check_capability makes of it when the request passes.
Copied(r, stage, ctx) == [[r EXCEPT !.ctx = ctx] EXCEPT !.stage = stage]

\* One field of a record after another.
LEMMA FieldForm ==
  ASSUME NEW r \in Record, NEW x, NEW y
  PROVE  /\ [r EXCEPT !.stage = x] = Moved(r, x, r.status, r.ctx)
         /\ [[r EXCEPT !.stage = x] EXCEPT !.status = y] = Moved(r, x, y, r.ctx)
<1>1. r = [stage |-> r.stage, status |-> r.status, route |-> r.route, token |-> r.token,
           dna |-> r.dna, ctx |-> r.ctx, arrived |-> r.arrived]
  BY DEF Record
<1>2. [r EXCEPT !.stage = x] = Moved(r, x, r.status, r.ctx)
  BY <1>1 DEF Moved
<1>3. [[r EXCEPT !.stage = x] EXCEPT !.status = y] = Moved(r, x, y, r.ctx)
  <2> DEFINE s == [r EXCEPT !.stage = x]
  <2>1. s = Moved(r, x, r.status, r.ctx) BY <1>2
  <2> HIDE DEF s
  <2>2. [s EXCEPT !.status = y] = Moved(r, x, y, r.ctx) BY <2>1 DEF Moved
  <2>3. QED BY <2>2 DEF s
<1>4. QED BY <1>2, <1>3

\* The same of the copy.
LEMMA CopiedForm ==
  ASSUME NEW r \in Record, NEW x, NEW y
  PROVE  Copied(r, x, y) = Moved(r, x, r.status, y)
<1>1. r = [stage |-> r.stage, status |-> r.status, route |-> r.route, token |-> r.token,
           dna |-> r.dna, ctx |-> r.ctx, arrived |-> r.arrived]
  BY DEF Record
<1> DEFINE s == [r EXCEPT !.ctx = y]
<1>2. s = Moved(r, r.stage, r.status, y) BY <1>1 DEF Moved
<1> HIDE DEF s
<1>3. [s EXCEPT !.stage = x] = Moved(r, x, r.status, y) BY <1>2 DEF Moved
<1>4. QED BY <1>3 DEF s, Copied

\* The updates that the actions write replace the record by a moved one.
LEMMA RefuseMoves ==
  ASSUME HttpTypeOK, NEW q \in Requests, NEW status, Refuse(q, status)
  PROVE  request' = [request EXCEPT ![q] = Moved(request[q], "done", status, request[q].ctx)]
<1>1. request \in [Requests -> Record] BY DEF HttpTypeOK, Record
<1>2. [[request[q] EXCEPT !.stage = "done"] EXCEPT !.status = status]
        = Moved(request[q], "done", status, request[q].ctx)
  BY <1>1, FieldForm
<1>3. QED BY <1>1, <1>2 DEF Refuse

\* The same of a step that only changes the stage.
LEMMA StageMoves ==
  ASSUME HttpTypeOK, NEW q \in Requests, NEW x, request' = [request EXCEPT ![q].stage = x]
  PROVE  request' = [request EXCEPT ![q] = Moved(request[q], x, request[q].status, request[q].ctx)]
<1>1. request \in [Requests -> Record] BY DEF HttpTypeOK, Record
<1>2. [request[q] EXCEPT !.stage = x] = Moved(request[q], x, request[q].status, request[q].ctx)
  BY <1>1, FieldForm
<1>3. QED BY <1>1, <1>2

\* What a request needs for a move to keep the invariant.
MayMove(q, stage, status, ctx) ==
    LET r == request[q]
    IN  /\ stage \in {"scope", "handler", "done"}
        /\ status \in {0, 200, 400, 401, 403}
        /\ ctx \in SessionInfo \cup {NoRow}
        /\ r.arrived = "revoked" /\ authEnabled => stage = "done" /\ status # 200
        /\ stage = "scope" => ctx # NoRow
        /\ r.arrived = "entitled" =>
              /\ stage # "done" => status = 0
              /\ stage = "scope" => r.dna \in ctx.dnas
              /\ stage = "done" /\ status \notin {0, 200} =>
                    status = 401 /\ sessions[r.token] = NoRow
        /\ ctx # r.ctx => r.token \in Tokens /\ sessions[r.token] = ctx

\* Such a move keeps the invariant.
LEMMA MoveHttpIInv ==
  ASSUME HttpIInv, UNCHANGED <<vars, authEnabled>>, NEW q \in Requests,
         NEW stage, NEW status, NEW ctx, MayMove(q, stage, status, ctx),
         request' = [request EXCEPT ![q] = Moved(request[q], stage, status, ctx)]
  PROVE  HttpIInv'
<1> DEFINE r == request[q]
           s == Moved(r, stage, status, ctx)
<1>1. r \in Record /\ RevokedIsStopped(r) /\ EntitledGoesOn(r) /\ CopyIsOfItsToken(r)
  BY DEF HttpIInv, HttpTypeOK, Record
<1>2. s \in Record BY <1>1 DEF Record, Moved, MayMove
<1>3. /\ s.stage = stage /\ s.status = status /\ s.route = r.route
      /\ s.token = r.token /\ s.dna = r.dna /\ s.ctx = ctx /\ s.arrived = r.arrived
  BY DEF Moved
<1>4. request' = [request EXCEPT ![q] = s] OBVIOUS
<1>5. ASSUME ctx # r.ctx, ctx # NoRow PROVE r.token \in issued
  BY <1>5 DEF HttpIInv, IInv, CallersAreCurrent, MayMove
<1> HIDE DEF s
<1>6. RevokedIsStopped(s) BY <1>1, <1>3 DEF RevokedIsStopped, MayMove
<1>7. EntitledGoesOn(s) BY <1>1, <1>3 DEF EntitledGoesOn, MayMove
<1>8. CopyIsOfItsToken(s)
  <2>1. CASE ctx = r.ctx BY <1>1, <1>3, <2>1 DEF CopyIsOfItsToken, MayMove
  <2>2. CASE ctx # r.ctx BY <1>3, <1>5, <2>2 DEF CopyIsOfItsToken, MayMove
  <2>3. QED BY <2>1, <2>2
<1>9. QED
  BY <1>2, <1>4, <1>6, <1>7, <1>8, RequestStepHttpIInv DEF Record

\* check_capability reads the store as it is now: it refuses an entitled
\* request only if the token has been revoked, and stops a revoked one.
LEMMA CheckCapabilityHttpIInv ==
  ASSUME HttpIInv, NEW q \in Requests, CheckCapability(q)
  PROVE  HttpIInv'
<1> DEFINE r == request[q]
           session == ValidateSession(r.token)
<1>0. HttpTypeOK BY DEF HttpIInv
<1>1. r \in Record /\ RevokedIsStopped(r) /\ EntitledGoesOn(r) /\ CopyIsOfItsToken(r)
  BY DEF HttpIInv, HttpTypeOK, Record
<1>2. session \in SessionInfo \cup {NoRow}
  BY <1>1 DEF ValidateSession, HttpIInv, IInv, TypeOK, Record
<1>3. /\ r.stage = "capability" /\ r.status \in {0, 200, 400, 401, 403}
      /\ r.ctx \in SessionInfo \cup {NoRow}
      /\ r.token \in Tokens \cup {NoToken}
  BY <1>1 DEF CheckCapability, Record
<1>u. UNCHANGED <<vars, authEnabled>> BY DEF CheckCapability
<1>4. ASSUME r.arrived = "revoked" PROVE session = NoRow
  BY <1>1, <1>4 DEF RevokedIsStopped, ValidateSession
<1>5. r.arrived = "entitled" =>
        /\ r.status = 0
        /\ session = sessions[r.token] /\ r.token \in Tokens
        /\ session = NoRow \/ Grants(session, r.route, r.dna)
  <2>1. r.arrived = "entitled" => r.token \in Tokens /\ r.token # NoToken
    BY <1>1, HttpAssumption DEF EntitledGoesOn, HttpIInv, IInv, TypeOK
  <2>2. QED BY <1>1, <1>3, <2>1 DEF EntitledGoesOn, ValidateSession
<1>6. CASE session = NoRow
  <2>1. Refuse(q, 401) BY <1>6, Zenon DEF CheckCapability
  <2>2. MayMove(q, "done", 401, r.ctx) BY <1>3, <1>5, <1>6 DEF MayMove
  <2>3. request' = [request EXCEPT ![q] = Moved(request[q], "done", 401, request[q].ctx)]
    BY <1>0, <2>1, RefuseMoves
  <2>4. QED BY <1>u, <2>2, <2>3, MoveHttpIInv
<1>7. CASE session # NoRow /\ Required(r.route) \notin session.caps
  <2>1. Refuse(q, 403) BY <1>7, Zenon DEF CheckCapability
  <2>2. r.arrived # "entitled" BY <1>5, <1>7 DEF Grants
  <2>3. MayMove(q, "done", 403, r.ctx) BY <1>3, <2>2 DEF MayMove
  <2>4. request' = [request EXCEPT ![q] = Moved(request[q], "done", 403, request[q].ctx)]
    BY <1>0, <2>1, RefuseMoves
  <2>5. QED BY <1>u, <2>3, <2>4, MoveHttpIInv
<1>8. CASE session # NoRow /\ Required(r.route) \in session.caps
  <2> DEFINE next == IF Scoped(r.route) THEN "scope" ELSE "handler"
  <2>1. request' = [request EXCEPT ![q].ctx = session, ![q].stage = next]
    BY <1>8, Zenon DEF CheckCapability
  <2>2. request' = [request EXCEPT ![q] = Moved(r, next, r.status, session)]
    <3> HIDE DEF next, session
    <3>1. request \in [Requests -> Record] BY <1>0 DEF HttpTypeOK, Record
    <3>2. request' = [request EXCEPT ![q] = Copied(r, next, session)]
      BY <2>1, <3>1 DEF Copied
    <3>3. Copied(r, next, session) = Moved(r, next, r.status, session)
      BY <1>1, CopiedForm
    <3>4. QED BY <3>2, <3>3
  <2>3. r.arrived # "revoked" BY <1>4, <1>8
  <2>4. r.token \in Tokens /\ sessions[r.token] = session
    BY <1>3, <1>8 DEF ValidateSession
  <2>5. r.arrived = "entitled" /\ next = "scope" => r.dna \in session.dnas
    BY <1>5, <1>8 DEF Grants
  <2>6. next \in {"scope", "handler", "done"} /\ next # "done" OBVIOUS
  <2> HIDE DEF next, session
  <2>7. MayMove(q, next, r.status, session)
    BY <1>2, <1>3, <1>5, <1>8, <2>3, <2>4, <2>5, <2>6 DEF MayMove
  <2>8. QED BY <1>u, <2>2, <2>7, MoveHttpIInv
<1>9. QED BY <1>6, <1>7, <1>8

\* require_dna_scope reads only the copy.
LEMMA RequireDnaScopeHttpIInv ==
  ASSUME HttpIInv, NEW q \in Requests, RequireDnaScope(q)
  PROVE  HttpIInv'
<1> DEFINE r == request[q]
<1>0. HttpTypeOK BY DEF HttpIInv
<1>1. r \in Record /\ RevokedIsStopped(r) /\ EntitledGoesOn(r) /\ CopyIsOfItsToken(r)
  BY DEF HttpIInv, HttpTypeOK, Record
<1>2. /\ r.stage = "scope" /\ r.status \in {0, 200, 400, 401, 403}
      /\ r.ctx \in SessionInfo /\ r.ctx # NoRow
  BY <1>1, MemoryAssumption DEF RequireDnaScope, Record, CopyIsOfItsToken
<1>u. UNCHANGED <<vars, authEnabled>> BY DEF RequireDnaScope
<1>3. ~(r.arrived = "revoked" /\ authEnabled)
  BY <1>1, <1>2 DEF RevokedIsStopped
<1>4. r.arrived = "entitled" => r.status = 0 /\ r.dna \in r.ctx.dnas /\ r.dna # BadDna
  BY <1>1, <1>2, HttpAssumption DEF EntitledGoesOn, SessionInfo
<1>5. CASE r.dna = BadDna
  <2>1. Refuse(q, 400) BY <1>5, Zenon DEF RequireDnaScope
  <2>2. MayMove(q, "done", 400, r.ctx) BY <1>2, <1>3, <1>4, <1>5 DEF MayMove
  <2>3. request' = [request EXCEPT ![q] = Moved(request[q], "done", 400, request[q].ctx)]
    BY <1>0, <2>1, RefuseMoves
  <2>4. QED BY <1>u, <2>2, <2>3, MoveHttpIInv
<1>6. CASE r.dna # BadDna /\ r.dna \notin r.ctx.dnas
  <2>1. Refuse(q, 403) BY <1>6, Zenon DEF RequireDnaScope
  <2>2. MayMove(q, "done", 403, r.ctx) BY <1>2, <1>3, <1>4, <1>6 DEF MayMove
  <2>3. request' = [request EXCEPT ![q] = Moved(request[q], "done", 403, request[q].ctx)]
    BY <1>0, <2>1, RefuseMoves
  <2>4. QED BY <1>u, <2>2, <2>3, MoveHttpIInv
<1>7. CASE r.dna # BadDna /\ r.dna \in r.ctx.dnas
  <2>1. request' = [request EXCEPT ![q].stage = "handler"]
    BY <1>7, Zenon DEF RequireDnaScope
  <2>2. request' = [request EXCEPT ![q] = Moved(r, "handler", r.status, r.ctx)]
    BY <1>0, <2>1, StageMoves
  <2>3. MayMove(q, "handler", r.status, r.ctx) BY <1>2, <1>3, <1>4 DEF MayMove
  <2>4. QED BY <1>u, <2>2, <2>3, MoveHttpIInv
<1>8. QED BY <1>5, <1>6, <1>7

\* The handler answers.
LEMMA RespondHttpIInv ==
  ASSUME HttpIInv, NEW q \in Requests, Respond(q)
  PROVE  HttpIInv'
<1> DEFINE r == request[q]
<1>0. HttpTypeOK BY DEF HttpIInv
<1>1. r \in Record /\ RevokedIsStopped(r)
  BY DEF HttpIInv, HttpTypeOK, Record
<1>2. r.stage = "handler" /\ r.ctx \in SessionInfo \cup {NoRow}
  BY <1>1 DEF Respond, Record
<1>3. ~(r.arrived = "revoked" /\ authEnabled)
  BY <1>1, <1>2 DEF RevokedIsStopped
<1>4. request' = [request EXCEPT ![q] = Moved(r, "done", 200, r.ctx)]
  BY <1>0, RefuseMoves DEF Respond, Refuse
<1>5. MayMove(q, "done", 200, r.ctx) BY <1>2, <1>3 DEF MayMove
<1>6. UNCHANGED <<vars, authEnabled>> BY DEF Respond
<1>7. QED BY <1>4, <1>5, <1>6, MoveHttpIInv

\* Every step keeps the invariant.
LEMMA HttpNextIInv == HttpIInv /\ [HttpNext]_httpVars => HttpIInv'
<1> SUFFICES ASSUME HttpIInv, [HttpNext]_httpVars PROVE HttpIInv'
  OBVIOUS
<1>1. CASE AdminAgents
  <2>1. Next /\ UNCHANGED <<authEnabled, request>> BY <1>1 DEF AdminAgents, Next
  <2>2. QED BY <2>1, StoreStepHttpIInv
<1>2. CASE Sockets
  <2>1. Next /\ UNCHANGED <<authEnabled, request>> BY <1>2 DEF Sockets, Next
  <2>2. QED BY <2>1, StoreStepHttpIInv
<1>3. ASSUME NEW q \in Requests, NEW route \in Routes, NEW token \in issued \cup {NoToken},
             NEW dna \in Dnas \cup {BadDna}, Arrive(q, route, token, dna)
      PROVE  HttpIInv'
  BY <1>3, ArriveHttpIInv
<1>4. ASSUME NEW q \in Requests, CheckCapability(q) PROVE HttpIInv'
  BY <1>4, CheckCapabilityHttpIInv
<1>5. ASSUME NEW q \in Requests, RequireDnaScope(q) PROVE HttpIInv'
  BY <1>5, RequireDnaScopeHttpIInv
<1>6. ASSUME NEW q \in Requests, Respond(q) PROVE HttpIInv'
  BY <1>6, RespondHttpIInv
<1>7. CASE UNCHANGED httpVars
  BY <1>7, StoreStepHttpIInv DEF httpVars
<1>8. QED
  BY <1>1, <1>2, <1>3, <1>4, <1>5, <1>6, <1>7 DEF HttpNext

\* The inductive invariant of the middleware over the store.
THEOREM HttpInductive == HttpSpec => []HttpIInv
  BY HttpInitIInv, HttpNextIInv, PTL DEF HttpSpec

\* A request that came with a revoked token reaches no handler, for any number
\* of requests, tokens and concurrent create_session calls.
THEOREM RevokedIsNeverServed == HttpSpec => []RevokedIsRefused
<1>1. HttpIInv => RevokedIsRefused
  BY DEF HttpIInv, RevokedIsStopped, RevokedIsRefused, InHandler
<1>2. QED BY <1>1, HttpInductive, PTL

\* A request is refused against its token only by a revocation that came first.
THEOREM OnlyRevocationRefuses == HttpSpec => []EntitledIsServed
<1>1. HttpIInv => EntitledIsServed
  BY DEF HttpIInv, EntitledGoesOn, EntitledIsServed
<1>2. QED BY <1>1, HttpInductive, PTL

\* The copy a request carries grants no more than its token, unless revoked.
THEOREM CopiesAreCovered == HttpSpec => []CopyIsCovered
<1>1. HttpIInv => CopyIsCovered
  BY DEF HttpIInv, CopyIsOfItsToken, CopyIsCovered
<1>2. QED BY <1>1, HttpInductive, PTL

\* Under the middleware the store behaves as it does alone, so that what is
\* proved of Spec holds of HttpSpec.
THEOREM StoreUnderRequests == HttpSpec => Spec
<1>1. HttpInit => Init BY DEF HttpInit
<1>2. [HttpNext]_httpVars => [Next]_vars
  BY DEF HttpNext, httpVars, AdminAgents, Sockets, Next, Arrive, CheckCapability,
     RequireDnaScope, Respond
<1>3. QED BY <1>1, <1>2, PTL DEF HttpSpec, Spec
=============================================================================
