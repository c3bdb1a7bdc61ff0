# TLA+ models of h2hc-linker

h2hc-linker is a gateway between browsers and Holochain networks. A browser opens
a WebSocket, proves that it holds an agent key, and registers *cells* (an agent on
a DNA). The gateway joins that agent to the kitsune2 space of the DNA as a
zero-arc node, asks the browser for every signature (it never holds an agent key),
delivers signals to the browser, and answers DHT reads and publishes over HTTP.

This directory holds TLA+ models of the parts of it that several tasks change at
once, TLC runs on small instances, and TLAPS proofs for every size. Paths below are
relative to the repository.

## Inventory

| Component | State | Operations | Modelled |
|---|---|---|---|
| WebSocket endpoint `src/routes/websocket.rs`, `test_signal.rs` | per connection: `authenticated_agent`, pending challenge, `registrations`, a queue of 32 messages | auth, challenge response, register, unregister, sign response, remote signal, ping; cleanup when the loop ends | `Websocket`, `RemoteSigning` |
| Agent proxy, registrations `src/agent_proxy.rs` | map (dna, agent) to connection | register, unregister, unregister_all, find_sender_for_agent, send_signal | `AgentProxy` |
| Agent proxy, remote signing `src/agent_proxy.rs`, `src/proxy_agent.rs` | `pending_signs` | request_agent_info_signature with timeout, deliver_signature | `RemoteSigning` |
| Gateway kitsune, join and leave `src/gateway_kitsune.rs` | `agents`, `spaces`; kitsune2's local agents | agent_join, agent_leave, get_or_create_space, maybe_cleanup_space | `GatewayKitsune` |
| Gateway kitsune, wire messages | - | recv_notify, send_remote_signals, publish_ops | `DhtQuery` (responses), `RemoteSigning` (signals), `Publish` |
| Session store, SQLite `src/auth/sqlite_store.rs` | tables allowed_agents, sessions, session_dnas | add/remove agent, create/validate/revoke session, register DNA | `SqliteStore`, implements `SessionStore` |
| Session store, memory `src/auth/memory_store.rs` | the same as maps behind one RwLock | the same | `MemoryStore` |
| Auth store and admin API `src/auth/store.rs`, `admin.rs` | `ws_senders` | add_agent, remove_agent, register/unregister_ws_sender | in `Websocket` and `HttpAuth` |
| Auth middleware and router `src/auth/middleware.rs`, `src/router.rs` | per request: a copy of its session | check_capability, require_dna_scope, require_admin_secret | `HttpAuth` over `MemoryStore` |
| DHT queries `src/dht_query.rs` | `PendingDhtResponses`, one task and one timer per request | get, get_links, count_links, (must_)get_agent_activity | `DhtQuery` |
| DHT endpoints `src/routes/dht.rs` | - | record, details, links, count_links, (must_get_)agent_activity | `DhtRoutes` |
| Publishing, temporary ops `src/routes/publish.rs`, `src/temp_op_store.rs` | ops with a time stamp; the counts of a request | store, retrieve, clean up, publish | `TempOpStore`, `Publish` |
| Preflight cache `src/wire_preflight.rs` | agent infos, encoded message | add_agent, get | `Preflight` in `Service` |
| Registration client `src/registration.rs`, `src/service.rs` | `is_registered`, the request under way; the shutdown watch | heartbeat, deregister, bind, drain, wait for the client | `Registration` in `Service` |
| Linker reports `src/linker_report.rs` | channel of 4096, counts per space | fetched_op, process_reports | `LinkerReport` in `Service` |
| Conductor proxy `src/conductor/`, `src/routes/zome_call.rs` | admin handle, list of apps, app connections | zome_call, list_apps, get_or_connect, connect_app | `Conductor` in `Service` |
| Identity, configuration, errors, status endpoints, `src/bin` | none shared | start-up, formatting, reads | no: no state that two steps share |

**How they interact.** A connection task handles one message at a time and awaits
every call inline. Register writes the connection's own list, then the registration
table, then the session store, then calls `agent_join`; each is a lock section of
its own and tasks of other connections run in between. When the loop ends, the task
takes its entries out of the registration table, leaves every cell of its list, and
drops its sender from `ws_senders`. kitsune2 calls back into `ProxyAgent::sign`,
which looks for a connection of the agent in the registration table. The admin API
changes the allow list and the sessions under the feet of connections. A DHT query
spawns a task per peer; replies come through kitsune2's `recv_notify` into the shared
pending map. An HTTP request is checked against a copy of its session and goes on with
the copy. A publish stores its ops and tells peers, which fetch them from the same store
through kitsune2 while a task expires them. Beside all this run the registration client,
which the shutdown has to wait for, the report task, and zome calls that share
connections to a conductor.

**What is hard here.** Nothing holds a lock across a whole operation, so the
registration table, the agents map, the spaces map and kitsune2's own local agents
can be seen, and left, in disagreement; a browser reconnects while the old connection
is still being cleaned up; the order of cleanup matters for signing; the allow list
is read before it is used; `remove_agent` in SQLite is three statements without a
transaction; replies race two timers of the same length; a session is revoked under a
request; a request nobody awaits any more still arrives at the joining service; the
preflight message and the infos it is made of are under different locks; a conductor
restarts under cached connections. Each of these is a hazard in PROJECT.json, at its
line, with the properties aimed at it.

**What makes the parts correct.**
- registrations: a cell is routed to a live connection that registered it, and with
  authentication on proved it is that agent;
- join and leave: the records of who is joined agree, nobody stays joined for no one,
  a registered cell is joined, a cell that left is no longer advertised;
- session stores: a token is valid only for an allowed agent, a revoked one stays
  invalid, scope belongs to a session;
- requests: a revoked token opens nothing, and nothing but a revocation takes away what
  a token grants;
- DHT queries: every query is answered, the answer is what a peer said, and nothing
  stays in the pending map; the endpoints agree with each other about the same ops;
- publishing: an op can be fetched for its whole time to live and is gone a round of the
  cleanup task later, and the response claims no more than was done;
- registration: a linker is listed while it runs, comes back when it was forgotten, and
  is gone once it has signed off, which the process waits for;
- reports, preflight, conductor: every fetched op is accounted for, an agent info that
  was put is presented, one connection per app, and a call succeeds when it can.

## Modules

- `AgentProxy` <- `GatewayKitsune` <- `Websocket` extend one another and share one
  state; `MCWebsocket` adds the symmetry.
- `SqliteStore` stands alone and instantiates the abstract `SessionStore`. `MemoryStore`
  takes the action property of `SessionStore`, and `HttpAuth` extends it with requests.
- `DhtQuery` and `DhtRoutes` stand alone: the first is about finding wire ops, the second
  about what is made of them.
- `TempOpStore` <- `Publish`.
- `Registration`, `LinkerReport`, `Preflight` and `Conductor` are composed in `Service`.
- `RemoteSigning` takes from `Websocket` what its invariant RoutedToOwner guarantees (a
  registration leads to a connection whose loop runs) and gives back what `Websocket`
  assumes of signing (a waiting task is not served over its own connection).
- `*Proofs` extend the module they are about.

A definition whose comment begins with "Faulty:" is a plausible mistake in the
definition after it; no specification uses it.

**AgentProxy.** `registrations` is the map of the same name; a connection stands for
its channel. One action fragment per method.

**GatewayKitsune.** `agents`, `spaces` are the maps; `local` and `advertised` are
kitsune2's local agents and the live agent infos on the network (external). `pc` and
`cell` say where a connection's call stands. Each lock section and each kitsune2 call
is a step: JoinCheck, GetSpace, CreateSpace, LocalJoin, InsertAgent (JoinFail for
each `?`), then LeaveRemove, FindSpace, LocalLeave, AskTombstone (which looks for a
sender of the agent), TombstoneSigned or TombstoneFailed, CleanupCheck, CleanupRemove. `UseSpace` is get_or_create_space on
behalf of the HTTP routes, `Announce` kitsune2's background publication. The signature of
a tombstone can only be delivered by another connection than the one that waits for it,
because that one reads no frame meanwhile; any other one will do, since
deliver_signature looks at the request id alone. History variables: `overlapped` (DNAs on which two
calls ran at once) and `joinFailed`.

**Websocket.** `phase` is the socket loop, `authAgent`, `pendingAuth`, `regs` are
ConnectionState, `allowed` is the allow list and `wsSenders` is `ws_senders`. Actions:
Connect, AuthDisabled/Auth (handle_auth), AuthRejected/AuthVerified/AuthOk
(handle_auth_challenge_response), Register, Unregister, Disconnect (every way out of
the loop, with unregister_all), CleanupLeave, CleanupFinish, AdminAddAgent,
AdminRemoveAgent. Messages answered by an error alone are not actions. What Register
and authentication write into the session store is in the store modules. History
variables: `proven` (whose challenges were answered) and `contended` (cells two
connections claimed at once).

**SessionStore** says what the trait promises: atomic operations over what
validate_session returns for each token; a removal cut short may lose scope of the
agent's tokens (`Weaken`), no more.

**SqliteStore.** The three tables; the Mutex is `stmt = "none"`. `remove_agent` is
RemoveAgent, RemoveDnas, RemoveSessions, RemoveAllowed, with RemoveCutShort (a failing
statement, or the process dying and restarting on the file) before each. The foreign
key's cascade is in DeleteSessions.

**MemoryStore.** The two maps. `create_session` is CreateSession (read lock) and
InsertSession (write lock), for several callers. History: `overtaken` and `late` mark
callers and tokens that a remove_agent overtook.

**HttpAuth.** `request` is what each HTTP request carries and where it is: Arrive,
CheckCapability (validate_session under the read lock, then a copy `ctx`),
RequireDnaScope (only the copy), Respond. `Required` and `Scoped` are the layers that
router.rs gives the routes; without an auth store there are none. AdminAgents and Sockets
are the steps of the store in between. `arrived` is history: what the store said of the
request when it came.

**DhtQuery.** One query, `kind` says which: `task`, `timer`, `chan`, `result` per request,
the shared `pending`, and the loop over the handles (`next`, `last`, `answer`). `said` is
what a peer replied; it can be routed any number of times, at any later time, or never,
and may be of another type than the query takes. The loop and the task have the same shape
in all five queries: `Query` is the loop with the results that end it, `RequestTask` the
task with the response it takes, and Get, GetLinks, ..., SendGetRequest, ... are their
instances. A task ends with a response ("full" or "empty"), an Err, or a panic
(TaskPanics), which the loop sees as a JoinError; the answer Ok(None) is "nothing". The two 30 s clocks of a request are one: the wait cannot
run out before the cleanup timer is due, since it starts later. `Cancel` drops the
handler, not its tasks.

**DhtRoutes.** `ops` are the wire ops of one entry as the answering peer has them, growing
by LearnCreate and LearnDelete (external); `got` is the last answer of each endpoint about
them. The conversions are operators: WireEntryOpsToRecord, WireEntryOpsToDetails,
WireRecordOpsTo..., WireLinkOpsToLinks with the type filter and the tag restored from the
query. An action is its hash; that of a link is the link, since only its tag can be
restored wrongly. Which tags a peer leaves out of its wire ops is not in this code, so
any may be missing; each link of an answer records the tag that came (`wire`) and the
request (`asked`).

**TempOpStore, Publish.** A record is its age in ticks; CleanupTask runs when its `sleep`
is over. `h` is the local state of each request: it stores its ops one by one
(ProcessSignedOp, ProcessFails), groups them by location, and tells the peers of each group
(PublishOps, SendTo, GroupDone); Drop is the response, or the client leaving at any await.
History: `since` and `told`.

**Registration.** `client`, `is_registered` and `call` are RegistrationClient::run with the
request it awaits; `service` is LinkerService::run. `left` and `grace` are the 3 s and 5 s
of the shutdown, in ticks; time passes only there. The joining service is external: `entry`,
the requests that nobody awaits any more (`stray`), and `calm` once nothing goes wrong.
History: `unclaimed`, `signedOff`.

**LinkerReport.** The channel and the batch are counts per space; `fetched` and `dropped`
are history.

**Preflight.** AddAgent is the first lock of add_agent, StorePreflight the second.
`lone` is history: infos whose put overlapped no other.

**Conductor.** `handle`, `app_info_cache`, `connections` and the lock `writer` are shared;
`zome` is the local state of a call, which goes through find_app_with_dna, list_apps with
its one retry, get_or_connect, connect_app and the call. connect_app is a step per await
under the write lock: ConnectGetWebsocket, IssueAppAuthToken, GetAppPort,
OpenAppWebsocket, AuthorizeAndInsert (the credentials, then the insert that follows
without an await), with ConnectAppFails and DropCall at each; past OpenAppWebsocket the
call owns a connection that is lost with it. A connection is the life of the conductor it
was made in; it works while that life lasts. History: `born`, `steady`.

**Service.** The four above in one process. Reports end with the process. The preflight
cache and the conductor connections share no state with the others, so `busy` picks one
side per behaviour instead of interleaving steps that commute.

**RemoteSigning.** The requests of one agent. `pc`, `to`, `chan`, `outcome` follow
request_agent_info_signature (Ask, Enqueue, SendFails, Answered, TimesOut,
RemovePending); `pending` is `pending_signs`; SignResponse is the message of the browser
with deliver_signature. `conn` and `busy` are the connection task, which is in its loop,
in agent_leave or send_remote_signals, waiting to queue a reply, in its cleanup, or gone;
`queue` and `sendTask` are the bounded channel and the task that drains it; signals take
places in the queue too. `owner` is the connection task that made a request in
agent_leave, or none for kitsune2's own. A sign response may name any request and come
over any connection, since the lookup is by id. History: `from` (who delivered an answer)
and `garbled` (requests whose agent info was not serialised). `stalled` browsers neither read nor write while
their TCP connection stays up; only the loop then notices, by the heartbeat. How many
cells a cleanup has to leave is left open.

## Runs

| Run | Bounds | Shows |
|---|---|---|
| `websocket` | 2 connections, 2 agents, 1 DNA, kitsune2 on, auth off | RoutedToOwner, NoAbandonedAgent, SerialCallsAgree, RegisteredIsJoinedUncontended hold in every interleaving |
| `websocket_auth` | 2 connections, 2 agents, 1 DNA, auth on, kitsune2 off | RoutedToProvenAgent; SenderLeakOnlyAfterReauth: ws_senders keeps a closed connection only if it authenticated as several agents |
| `websocket_reconnect` | 2 connections, 1 cell | **violated**: RegisteredIsJoined |
| `websocket_tombstone` | 1 connection, 1 agent, 2 DNAs | **violated**: LeftIsNotAdvertised |
| `websocket_removed_agent` | 2 connections, 1 cell, auth on | **violated**: OnlyAllowedAgentsRegister |
| `sqlite` | 2 agents, 2 DNAs, 3 tokens | SessionOfAllowedAgent, DnaRowsHaveSessions, and the store implements SessionStore |
| `http` | 1 agent, 1 DNA, 2 capabilities, 2 tokens, 2 callers of create_session, 1 request at a time | RevokedIsRefused, EntitledIsServed, CopyIsCovered over a changing store; OnlyLateSessionsOutliveRemoval and RevokedTokensStayInvalid of the store itself |
| `dht_query` | 2 parallel requests, each of the five queries | OpenRequestsAreRoutable, AnswerIsGenuine, NotFoundIsSaidByAPeer, ErrorOnlyIfAllFailed; under fairness QueryIsAnswered and PendingDrains |
| `dht_routes` | 2 creates, 2 deletes, 4 links | UnservedEntryIsDead, ServedEntryIsLive: /record and /details of the same ops agree; LinksMatchTheQuery |
| `signing` | 2 connections, 1 request, queues of 1 | PendingIsLive, AnswerFindsRequest, LeaverNeverDelivers; under fairness RequestEnds and CleanupEnds: both end, unless a stalled browser has its connection task stuck outside the loop |
| `publish` | 2 requests that share an op, 2 locations, 2 peers, TTL of 3 ticks, cleanup every 2 | FreshOpsAreServed, OldOpsAreRemoved, PublishedWasAnnounced, SuccessIsHonest; under fairness StoreDrains |
| `service` | deadlines of 1 and 2 ticks; 2 spaces, channel of 2; 2 putters, 2 agents, 2 versions; 2 calls, 2 apps, 1 restart | SignedOffMeansGone, ExitWaitsForClient, ReportsAddUp, LoneInfosArePresented, OneConnectionPerApp, HopefulCallsSucceed; under fairness ListedAgain |

**Why the bounds are enough.** Two connections and two agents give every pairwise race
on a cell, on a DNA and on the agent that is authenticated; a third connection only
repeats one of the two roles, and the invariants that are proved need no bound. A
connection is used once, so a reconnect is the second connection. Authentication and
kitsune2 are separated because they meet only in Register's guard; the proofs cover
both switches together. Three tokens and two agents let a token of another agent, an
old and a new token of the same agent exist at once; the `http` run has two tokens of one
agent, an old and a new one, and one request at a time, since requests do not see each
other. Two requests show an early and a late peer; the
code's value is `Parallel = 3`, for which, as for every value, the safety properties of
the run are proved. A queue of one place is full after one message, so every wait
for a place happens; one sign request is enough for the waits that the liveness properties
are about; two tasks in agent_leave that wait for each other's browser need two requests,
and the safety properties are proved for every number. In `publish`
the time to live is longer than a round of the cleanup task, as in the code, and not a
multiple of it, so that an op can expire between two rounds; a request with an op twice
and one that shares it with another are both there. In `service` the two deadlines are as
close as the assumption (the first is shorter) allows; a channel of two is full while each
space has one op in it; one restart is what breaks a connection, a second one only breaks
it again.

Deadlock is checked in `dht_routes` and `publish` (time goes on). It is off in the other
runs, where stopping is right: all connections may have closed, all tokens may be issued,
the query may be answered, the process has exited.

**Fairness.** `DhtQuery`: weak fairness of the query loop, of every task and of every
timer; a panic is possible at any time and never required. `RemoteSigning`: weak fairness of every request and connection task, of the send
task while the browser reads, and of the heartbeat timeout of a stalled one; strong
fairness of a request's send, because tokio's bounded channel serves waiting senders in
their order. tokio runs every task that is ready and its timers fire;
`send_notify` is taken to return, with success or error, as kitsune2 bounds it by its
own timeout (external). Nothing is assumed of peers and network, nor that a browser
answers: PeerReplies, RouteResponse and SignResponse are not fair. 
`Publish`: weak fairness of time, of the cleanup task and of every request's own steps;
nothing is assumed of clients. `Service`: weak fairness of the registration client and of
the answer or failure of the request it awaits (the HTTP client has a timeout); the loss
of an entry is possible until `calm`, which need not come. The other specifications state
no fairness and no liveness.

### What the violated runs show

- `websocket_reconnect`: connection 1 has registered a cell; connection 2 of the same
  browser registers it, finds it in `agents` and returns; then connection 1 closes and
  its cleanup leaves the cell. The cell is registered and not joined, with calls that
  never overlapped. RegisteredIsJoinedUncontended is what does hold: a cell no second
  connection claims is joined.
- `websocket_tombstone`: both callers of agent_leave first remove the registration that
  signing looks for, so the tombstone the doc comment of agent_leave promises is not
  signed when the agent has no other connection.
- `websocket_removed_agent`: removing an agent drops senders from `ws_senders`, which
  closes nothing, since the connection and the registration table hold clones.

The other disagreements have no violated run (PROJECT.json, findings). Of the in-memory
store: remove_agent between the lock sections of create_session leaves a valid session,
and OnlyLateSessionsOutliveRemoval says this is the only way. Sessions are not revoked on
disconnect as API.md says. A query does not return the first non-empty reply but the first
in peer order, and says "not found" if every one of its tasks panicked. A link whose tag
the peer left out and the request does not name gets the hash of another action. sign_timeout does not cover the wait for a place in the queue, which is the
exception in RequestEnds. A publish is a success when one of several locations was told.
Fetching an op does not delete it. A failed heartbeat makes the shutdown skip the sign-off.
Overlapping puts may leave an older preflight message. The status of an entry counts
deletes instead of comparing hashes. A link type is cut to eight bits, and deletes of links
are in no response. A connection that a conductor restart broke is never replaced.
GatewayKitsune::shutdown has no caller. Where a property has an exception for one of these,
its comment says so.

## Proofs

All theorems hold for every value of the constants, under the ASSUMEs of the modules:
the "none" values are distinct from the real ones, the two switches are Booleans,
`Parallel` and the capacities are positive numbers, the sign-off has the shorter of the
two deadlines, the bodies of publish requests are lists of ops. Each module proves
`Init => IInv`, `IInv /\ [Next]_vars => IInv'` with a step per action, and combines them.

- **WebsocketProofs**: TypeCorrect, RoutingIsOwned (RoutedToOwner), RoutingIsProven
  (RoutedToProvenAgent), NoAgentIsAbandoned (NoAbandonedAgent). NoAbandonedAgent is not
  inductive alone: InsertAgent adds a cell at the end of a call, so CallsAreOwned says
  that a join is always for a cell its open connection has in its list, and
  ConnsAreOrderly that a closed connection has an empty list. RoutedToProvenAgent
  follows from RoutedToOwner and from ConnsAreOrderly (every cell in the list was
  registered as a proven agent).
  SerialCallsKeepAgreement (SerialCallsAgree) and UncontendedIsJoined
  (RegisteredIsJoinedUncontended) are about the gateway, which takes no lock across a call.
  SerialIInv says what is true in the middle of a call where calls on a DNA come one at a
  time: kitsune2 is ahead of the agents map by the cell of the one call that is under way
  (RecordsAreInStep), and what that call has read is still so (CallsAreInStep). Every
  step of a call is one of a few effects on the three records (GatewayEffect), and a call
  on another DNA touches none of this one (GatewayFrame). JoinedIInv adds that an
  uncontended cell has one claimant, that a leave is for a cell its connection has given
  up, and that a registered cell is joined or being joined by its connection.
  LeaksNeedReauth (SenderLeakOnlyAfterReauth) from SendersIInv: a sender is of an agent its
  connection proved, and not of the one authenticated last once that is closed; so a
  sender that is left stands for a second proven agent.
- **SqliteStoreProofs**: TypeCorrect, NoSessionAfterRemoval, ScopeBelongsToSession, and
  Refinement. The last DELETE is safe because RemovalIsOrderly says that no session of
  the agent is left when it runs: the Mutex keeps create_session out. In the refinement
  RemoveDnas maps to Weaken, RemoveSessions to RevokeSessionsForAgent, RemoveAllowed to
  RemoveAgent, and RemoveAgent and RemoveCutShort to stuttering.
- **HttpAuthProofs**: of the store TypeCorrect, OnlyOvertakenInsertsLeak,
  RevocationIsFinal; of the requests RevokedIsNeverServed (RevokedIsRefused),
  OnlyRevocationRefuses (EntitledIsServed), CopiesAreCovered (CopyIsCovered); and
  StoreUnderRequests, by which the first three hold under requests too.
  CallersAreCurrent says that a caller which was not overtaken will insert for an
  allowed agent, and that only generated tokens are in the map. The lemma StoreKeeps is
  all that the middleware needs of the store: a step revokes tokens or widens them. From
  it RevokedIsStopped, EntitledGoesOn and CopyIsOfItsToken, which say per request what is
  true at each of its stages, are kept by every step of the store; a step of a request is
  a move of one record (Moved), and MayMove says when a move is safe.
- **DhtQueryProofs**: TypeCorrect, RepliesFindTheirRequest, NothingPendsForever,
  AnswersAreRight, FoundIsGenuine, NotFoundIsSaid. RepliesAreSaid ties channels and
  results to what peers said, LoopIsHonest says what `last` summarises (it is empty as long
  as all tasks awaited have panicked), AnswerIsFinal ties the answer to both.
- **RemoteSigningProofs**: TypeCorrect, NothingLeaks, AnswersAreRouted, NoSelfService.
  SentIsAsked says that what is in a queue or with a browser was asked for and sent there,
  OpenIsPending that a request is in the map until it is answered, OwnersWait that a task
  that made a request is outside its loop until the request is over. From the last one
  follows DeliveredByOther: the connection that reads an answer is in its loop, whichever
  request it names, so it is not the one waiting for it. Lemmas about appending to, draining and dropping a queue say
  who is reached.
- **DhtRoutesProofs**: TypeCorrect, NullRecordsAreDead (UnservedEntryIsDead),
  ServedRecordsAreLive (ServedEntryIsLive), LinksAreTrue (LinksMatchTheQuery). RoutesIInv
  says that the answers kept are those of the present ops; the rest is about the
  conversions, for any ops. `/record` takes the first usable create and finds none only if
  there is none (LeastExists); then each accepted create has a delete of its own, because
  the hashes are distinct, and there are at least as many deletes as accepted creates
  (DeletesCoverCreates). The other way, deletes that name one accepted create each miss a
  usable one, so there are fewer of them (DeletesLeaveOne). Both are injections between
  places of the two lists.
- **PublishProofs**: StoreTypeCorrect, FreshOpsAreThere (FreshOpsAreServed),
  NothingStaysLong (OldOpsAreRemoved), for every time to live and every interval of the
  cleanup task. StoreIInv says that the record of a fresh op has the age of the op, and
  that the age of a record and what is left of the task's sleep are together less than
  the time to live and one interval: Tick moves a unit from one to the other, CleanupTask
  leaves only records within their time when it starts a new sleep.
  Of the requests CountIsExact (PublishedWasAnnounced) and SuccessIsTrue (SuccessIsHonest),
  for all bodies, locations and peers. HandlerOK says of the state of one request that in
  phase 1 what is processed and what is left make up the body unless something failed, and
  that in phase 2 the count is the number of ops at the locations told so far, without the
  one that publish_ops is at: when that is done, its ops are none of those counted before
  (GroupDoneOK), because no location is told of before its turn.
- **ServiceProofs**: TypeCorrect, SignOffIsFinal (SignedOffMeansGone), ShutdownWaits
  (ExitWaitsForClient), ReportsAreExact (ReportsAddUp), LonePutsAreKept
  (LoneInfosArePresented), OneConnection (OneConnectionPerApp), HopeIsKept
  (HopefulCallsSucceed). SignOffInv says that only an unclaimed heartbeat can be a stray
  one with the secret, and that nothing is listed once DELETE was answered. DeadlineInv
  says that what is left of the sign-off is less than what is left of the wait, and that
  the wait does not run down before the client has noticed the shutdown. PreflightIInv
  says that every encoding still to be stored has the lone infos. In ConductorIInv,
  LockIsHeld says that exactly the call that is in connect_app holds the lock and that its
  app is unconnected until the insert, from which OneConnectionPerApp: only one call can own
  a connection it has opened, and none while the map has one. HopeIsFounded says what a hopeful call can
  count on at each of its places, in particular that the admin connection is of this life
  of the conductor once list_apps has tried again, and with the app in the cache; that
  needs SocketsAreOld, by which a call of this life that used its connection with success
  left a fresh one behind. A step of a call changes one record (CallStepIInv), so each
  action proves only what is true at the place it goes to. The parts share no variable, so
  each invariant is kept by the steps of the others (UnchangedParts).

**Only model-checked.** QueryIsAnswered, PendingDrains, RequestEnds, CleanupEnds,
StoreDrains and ListedAgain: liveness under fairness is out of the prover's reach (of
PendingDrains the safety half, that every entry has a timer, is proved). Every invariant
and every action property of the passing runs is proved, and so is the refinement of
`SessionStore`.

## Not modelled

Wire formats, base64 and JSON conversions, the choice of peers by arc, signature
verification (a signature is valid or not), the length of timeouts except where two of
them race, logging, HTTP plumbing. In `Websocket` the heartbeat and the outgoing queue are
a Disconnect that may come at any time between messages; `RemoteSigning` has them.
`GatewayKitsune::shutdown` has no caller. Identity and configuration (`identity.rs`,
`config.rs`, `src/bin`) run once before anything else; `error.rs` maps errors to codes;
`kitsune.rs` builds kitsune2 from its options; `routes/kitsune.rs` and `health.rs` only
read. None of them has a state that a step of another actor changes. The Conductor model
takes a conductor that is up to answer; the file rotation of the reports is not modelled.
The preflight cache skips an agent info, and keeps the old message, if encoding fails
(wire_preflight.rs:161 and 175); plain data structures are encoded there and the model
takes it to succeed.

## Plan

Done: every component with state of its own, and the proofs of all safety properties that
the passing runs check. Left, in this order:

1. The safety halves of the other liveness properties, as NothingPendsForever is for
   PendingDrains: that a request in progress always has a step of its own or a timer
   (RequestEnds, CleanupEnds), and that no op in the store has missed its round
   (StoreDrains).
2. Safety of what is stated by a violated run, under the weakest condition that restores
   it: LeftIsNotAdvertised where no signature was missing.
