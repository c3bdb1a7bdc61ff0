------------------------------ MODULE HttpAuth ------------------------------
(***************************************************************************)
(* The HTTP side of authorization (src/auth/middleware.rs, src/router.rs)  *)
(* over the in-memory session store.  A request of the authenticated       *)
(* router passes check_capability, which takes a copy of the session and   *)
(* releases the lock, then require_dna_scope, which reads only that copy,  *)
(* then its handler; the store goes on changing in between.                *)
(***************************************************************************)
EXTENDS MemoryStore

CONSTANTS Requests,   \* requests under way at a time
          NoToken,    \* no Authorization header, or a token never generated
          BadDna      \* a path segment that is no DNA hash

ASSUME HttpAssumption == NoToken \notin Tokens /\ BadDna \notin Dnas

VARIABLES authEnabled,  \* AppState.auth_store.is_some()
          request       \* what each request carries and where it is

httpVars == <<vars, authEnabled, request>>

Routes == {"read", "write", "k2"}

\* The capability the route's middleware asks for.
Required(route) ==
    CASE route = "read" -> "DhtRead"
      [] route = "write" -> "DhtWrite"
      [] route = "k2" -> "K2"

\* The routes that are layered with require_dna_scope.
Scoped(route) == route \in {"read", "write"}

Idle == [stage |-> "done", status |-> 0, route |-> "k2", token |-> NoToken,
         dna |-> BadDna, ctx |-> NoRow, arrived |-> "other"]

HttpInit ==
    /\ Init
    /\ authEnabled \in BOOLEAN
    /\ request = [q \in Requests |-> Idle]

-----------------------------------------------------------------------------
\* The store under the requests

\* The admin API behind require_admin_secret.  A request without the secret
\* gets 401 and changes nothing.
AdminAgents ==
    /\ authEnabled
    /\ \/ \E a \in Agents, caps \in SUBSET Caps : AddAgent(a, caps)
       \/ \E a \in Agents : RemoveAgent(a)
    /\ UNCHANGED <<authEnabled, request>>

\* What the WebSocket connections do to the store.
Sockets ==
    /\ authEnabled
    /\ \/ \E w \in Callers, a \in Agents : CreateSession(w, a)
       \/ \E w \in Callers, t \in Tokens : InsertSession(w, t)
       \/ \E a \in Agents, d \in Dnas : RegisterDnaForAgent(a, d)
       \/ \E t \in Tokens : RevokeSession(t)
       \/ \E a \in Agents : RevokeSessionsForAgent(a)
    /\ UNCHANGED <<authEnabled, request>>

-----------------------------------------------------------------------------
\* The requests

Grants(info, route, dna) ==
    /\ info # NoRow
    /\ Required(route) \in info.caps
    /\ Scoped(route) => dna \in info.dnas

\* History: what the session store said of the request when it arrived.
Standing(token, route, dna) ==
    CASE token = NoToken -> "other"
      [] token # NoToken /\ sessions[token] = NoRow -> "revoked"
      [] token # NoToken /\ Grants(sessions[token], route, dna) -> "entitled"
      [] OTHER -> "other"

\* A slot is taken by the next request; the open router has no middleware.
Arrive(q, route, token, dna) ==
    /\ request[q].stage = "done"
    /\ request' = [request EXCEPT ![q] =
          [stage |-> IF authEnabled THEN "capability" ELSE "handler",
           status |-> 0, route |-> route, token |-> token, dna |-> dna,
           ctx |-> NoRow, arrived |-> Standing(token, route, dna)]]
    /\ UNCHANGED <<vars, authEnabled>>

Refuse(q, status) ==
    request' = [request EXCEPT ![q].stage = "done", ![q].status = status]

\* validate_session, under the read lock: a copy of the session.
ValidateSession(token) == IF token = NoToken THEN NoRow ELSE sessions[token]

\* check_capability, then the next layer of the route.
CheckCapability(q) ==
    LET r == request[q]
        session == ValidateSession(r.token)
    IN  /\ r.stage = "capability"
        /\ CASE session = NoRow -> Refuse(q, 401)
             [] session # NoRow /\ Required(r.route) \notin session.caps ->
                  Refuse(q, 403)
             [] OTHER -> request' = [request EXCEPT
                  ![q].ctx = session,
                  ![q].stage = IF Scoped(r.route) THEN "scope" ELSE "handler"]
        /\ UNCHANGED <<vars, authEnabled>>

\* Faulty: validates the token once more.
RequireDnaScopeRevalidates(q) ==
    LET r == request[q]
    IN  /\ r.stage = "scope"
        /\ IF sessions[r.token] = NoRow \/ r.dna \notin r.ctx.dnas
           THEN Refuse(q, 403)
           ELSE request' = [request EXCEPT ![q].stage = "handler"]
        /\ UNCHANGED <<vars, authEnabled>>

\* require_dna_scope.
RequireDnaScope(q) ==
    LET r == request[q]
    IN  /\ r.stage = "scope"
        /\ CASE r.dna = BadDna -> Refuse(q, 400)
             [] r.dna # BadDna /\ r.dna \notin r.ctx.dnas -> Refuse(q, 403)
             [] OTHER -> request' = [request EXCEPT ![q].stage = "handler"]
        /\ UNCHANGED <<vars, authEnabled>>

\* The handler has run.
Respond(q) ==
    /\ request[q].stage = "handler"
    /\ request' = [request EXCEPT ![q].stage = "done", ![q].status = 200]
    /\ UNCHANGED <<vars, authEnabled>>

HttpNext ==
    \/ AdminAgents
    \/ Sockets
    \/ \E q \in Requests :
          \/ \E route \in Routes, token \in issued \cup {NoToken}, dna \in Dnas \cup {BadDna} :
                Arrive(q, route, token, dna)
          \/ CheckCapability(q)
          \/ RequireDnaScope(q)
          \/ Respond(q)

HttpSpec == HttpInit /\ [][HttpNext]_httpVars

-----------------------------------------------------------------------------
\* Properties

InHandler(r) == r.stage = "handler" \/ r.status = 200

\* A request whose token was revoked before it arrived is never handed to a
\* handler, whatever happens to the store while it runs: the agent added back,
\* a new session of the agent, a create_session that was under way.
RevokedIsRefused ==
    authEnabled => \A q \in Requests :
        request[q].arrived = "revoked" => ~InHandler(request[q])

\* A request is refused although its token granted it on arrival only if the
\* token was revoked before check_capability looked, and then with 401.
EntitledIsServed ==
    \A q \in Requests :
        LET r == request[q]
        IN  r.arrived = "entitled" /\ r.status \notin {0, 200} =>
                r.status = 401 /\ sessions[r.token] = NoRow

\* The copy of the session that a running request carries never grants more
\* than its token does, unless the token was revoked since: capabilities do
\* not change and the DNAs of a session only grow.
CopyIsCovered ==
    \A q \in Requests :
        LET r == request[q]
        IN  r.ctx # NoRow /\ sessions[r.token] # NoRow =>
                /\ r.ctx.agent = sessions[r.token].agent
                /\ r.ctx.caps = sessions[r.token].caps
                /\ r.ctx.dnas \subseteq sessions[r.token].dnas

-----------------------------------------------------------------------------
\* What makes them inductive

HttpTypeOK ==
    /\ authEnabled \in BOOLEAN
    /\ request \in [Requests ->
          [stage : {"capability", "scope", "handler", "done"},
           status : {0, 200, 400, 401, 403}, route : Routes,
           token : Tokens \cup {NoToken}, dna : Dnas \cup {BadDna},
           ctx : SessionInfo \cup {NoRow}, arrived : {"revoked", "entitled", "other"}]]

\* A revoked token stays revoked, and gets as far as check_capability.
RevokedIsStopped(r) ==
    r.arrived = "revoked" =>
        /\ r.token \in issued /\ sessions[r.token] = NoRow
        /\ authEnabled => r.stage \in {"capability", "done"} /\ r.status # 200

\* A token that grants a request goes on granting it until it is revoked; the
\* copy grants it from then on.
EntitledGoesOn(r) ==
    r.arrived = "entitled" =>
        /\ r.token \in issued
        /\ r.stage # "done" => r.status = 0
        /\ r.stage = "capability" =>
              sessions[r.token] = NoRow \/ Grants(sessions[r.token], r.route, r.dna)
        /\ r.stage = "scope" => r.dna \in r.ctx.dnas
        /\ r.stage = "done" /\ r.status \notin {0, 200} =>
              r.status = 401 /\ sessions[r.token] = NoRow

\* Whoever has passed check_capability has a copy, and only they do.
CopyIsOfItsToken(r) ==
    /\ r.stage = "scope" => r.ctx # NoRow
    /\ r.ctx # NoRow => r.token \in issued
    /\ r.ctx # NoRow /\ sessions[r.token] # NoRow =>
          /\ r.ctx.agent = sessions[r.token].agent
          /\ r.ctx.caps = sessions[r.token].caps
          /\ r.ctx.dnas \subseteq sessions[r.token].dnas

HttpIInv ==
    /\ IInv
    /\ HttpTypeOK
    /\ \A q \in Requests :
          /\ RevokedIsStopped(request[q])
          /\ EntitledGoesOn(request[q])
          /\ CopyIsOfItsToken(request[q])
=============================================================================
