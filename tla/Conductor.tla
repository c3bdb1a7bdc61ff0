----------------------------- MODULE Conductor ------------------------------
(***************************************************************************)
(* Zome calls through a conductor: zome_call of src/routes/zome_call.rs,   *)
(* AppConn and AdminConn of src/conductor/.  Calls share one admin         *)
(* connection, a list of the apps found so far and one connection per app, *)
(* each under a lock of its own; the lock of the app connections is held   *)
(* while one is opened.                                                    *)
(*                                                                         *)
(* The conductor (external) may go down and come back, after which the     *)
(* connections to the one before are broken for good, and may enable and   *)
(* disable apps.  While it is up it answers.  An app stands for its DNA.   *)
(***************************************************************************)
EXTENDS Integers

CONSTANTS Calls,        \* zome calls under way at a time
          Apps,
          MaxRestarts   \* bound: restarts of the conductor

NoSocket == -1
NoCall == "no call"

ASSUME ConductorAssumption == MaxRestarts \in Nat /\ NoCall \notin Calls

VARIABLES handle,           \* the admin connection, by the life it was made in
          app_info_cache,   \* apps found so far
          connections,      \* the app connections, likewise
          writer,           \* the call that holds the lock of connections
          zome,             \* the local state of each call
          life, up,         \* external: how often the conductor restarted; it runs
          enabled           \* external: the apps it has enabled

conductorVars ==
    <<handle, app_info_cache, connections, writer, zome, life, up, enabled>>

Sockets == NoSocket..MaxRestarts
Works(ws) == up /\ ws = life

\* A call that has not begun, or has nothing left but its answer.
Ended(pc, status, steady) ==
    [pc |-> pc, app |-> NoCall, ws |-> NoSocket, tries |-> 0, apps |-> {},
     status |-> status,
     born |-> 0,             \* history: the life of the conductor it came in
     steady |-> steady]      \* history: see Hopeful
NoZomeCall == Ended("idle", "none", FALSE)

\* In connect_app, under the write lock of the connections.
ConnectPCs == {"connect", "issue", "port", "open", "authorize"}

ZomeCalls ==
    [pc : {"idle", "find", "list", "ask", "store", "get", "lock", "call", "done"}
          \cup ConnectPCs,
     app : Apps \cup {NoCall}, ws : Sockets, tries : {0, 1}, apps : SUBSET Apps,
     status : {"none", "ok", "not_found", "unavailable", "error"},
     born : 0..MaxRestarts, steady : BOOLEAN]

ConductorTypeOK ==
    /\ handle \in Sockets /\ connections \in [Apps -> Sockets]
    /\ app_info_cache \subseteq Apps /\ enabled \subseteq Apps
    /\ writer \in Calls \cup {NoCall}
    /\ life \in 0..MaxRestarts /\ up \in BOOLEAN
    /\ zome \in [Calls -> ZomeCalls]

ConductorInit ==
    /\ handle = NoSocket /\ app_info_cache = {}
    /\ connections = [a \in Apps |-> NoSocket] /\ writer = NoCall
    /\ zome = [c \in Calls |-> NoZomeCall]
    /\ life = 0 /\ up = TRUE /\ enabled = {}

-----------------------------------------------------------------------------
\* The steps of a call

\* The call goes on at pc with these local variables.
Continue(c, pc, ws, tries, apps) ==
    zome' = [zome EXCEPT ![c] =
        [pc |-> pc, app |-> zome[c].app, ws |-> ws, tries |-> tries, apps |-> apps,
         status |-> "none", born |-> zome[c].born, steady |-> zome[c].steady]]

Goto(c, pc) == Continue(c, pc, zome[c].ws, zome[c].tries, zome[c].apps)
Take(c, pc, ws) == Continue(c, pc, ws, zome[c].tries, zome[c].apps)
Answer(c, status) == zome' = [zome EXCEPT ![c] = Ended("done", status, zome[c].steady)]

\* Whether nothing that a call of app a will use is broken, nor is a call under
\* way that began before the conductor restarted.
Hopeful(a) ==
    /\ up /\ a \in enabled
    /\ connections[a] \in {NoSocket, life}
    /\ connections[a] = NoSocket /\ a \in app_info_cache => handle \in {NoSocket, life}
    /\ \A c \in Calls : zome[c].pc \notin {"idle", "done"} => zome[c].born = life

\* The request has parsed, and a conductor is configured.
ZomeCall(c, a) ==
    /\ zome[c].pc = "idle"
    /\ zome' = [zome EXCEPT ![c] =
          [pc |-> "find", app |-> a, ws |-> NoSocket, tries |-> 0, apps |-> {},
           status |-> "none", born |-> life, steady |-> Hopeful(a)]]
    /\ UNCHANGED <<handle, app_info_cache, connections, writer, life, up, enabled>>

\* find_app_with_dna: the cache is asked first and not looked at again if it
\* knows the app.
FindAppWithDna(c) ==
    /\ zome[c].pc = "find"
    /\ Goto(c, IF zome[c].app \in app_info_cache THEN "get" ELSE "list")
    /\ UNCHANGED <<handle, app_info_cache, connections, writer, life, up, enabled>>

\* AdminConn::get_or_connect, which goes on at pc; the lock is held while it
\* connects.
AdminGetOrConnect(c, pc) ==
    /\ \/ /\ handle # NoSocket
          /\ Take(c, pc, handle) /\ UNCHANGED handle
       \/ /\ handle = NoSocket /\ up
          /\ handle' = life /\ Take(c, pc, life)
       \/ /\ handle = NoSocket /\ ~up
          /\ Answer(c, "unavailable") /\ UNCHANGED handle
    /\ writer' = IF writer = c /\ handle' = NoSocket THEN NoCall ELSE writer
    /\ UNCHANGED <<app_info_cache, connections, life, up, enabled>>

ListGetOrConnect(c) == zome[c].pc = "list" /\ AdminGetOrConnect(c, "ask")

ListApps(c) ==
    /\ zome[c].pc = "ask" /\ Works(zome[c].ws)
    /\ Continue(c, "store", NoSocket, 0, enabled)
    /\ UNCHANGED <<handle, app_info_cache, connections, writer, life, up, enabled>>

\* Faulty: the broken connection is kept.
ListAppsKeepsHandle(c) ==
    /\ zome[c].pc = "ask" /\ ~Works(zome[c].ws)
    /\ IF zome[c].tries = 0
       THEN Continue(c, "list", NoSocket, 1, {})
       ELSE Answer(c, "unavailable")
    /\ UNCHANGED <<handle, app_info_cache, connections, writer, life, up, enabled>>

\* A WebsocketError: whatever handle holds by now is dropped, and list_apps
\* tries again, once.
ListAppsBreaks(c) ==
    /\ zome[c].pc = "ask" /\ ~Works(zome[c].ws)
    /\ handle' = NoSocket
    /\ IF zome[c].tries = 0
       THEN Continue(c, "list", NoSocket, 1, {})
       ELSE Answer(c, "unavailable")
    /\ UNCHANGED <<app_info_cache, connections, writer, life, up, enabled>>

\* The list replaces the cache, and is searched.
StoreApps(c) ==
    /\ zome[c].pc = "store"
    /\ app_info_cache' = zome[c].apps
    /\ IF zome[c].app \in zome[c].apps
       THEN Continue(c, "get", NoSocket, 0, {})
       ELSE Answer(c, "not_found")
    /\ UNCHANGED <<handle, connections, writer, life, up, enabled>>

\* AppConn::get_or_connect under the read lock ...
GetOrConnect(c) ==
    LET ws == connections[zome[c].app]
    IN  /\ zome[c].pc = "get" /\ writer = NoCall
        /\ IF ws # NoSocket THEN Take(c, "call", ws) ELSE Goto(c, "lock")
        /\ UNCHANGED <<handle, app_info_cache, connections, writer, life, up, enabled>>

\* Faulty: not checked again.
LockConnectionsUnchecked(c) ==
    /\ zome[c].pc = "lock" /\ writer = NoCall
    /\ Goto(c, "connect") /\ writer' = c
    /\ UNCHANGED <<handle, app_info_cache, connections, life, up, enabled>>

\* ... and under the write lock, which connect_app is called with.
LockConnections(c) ==
    LET ws == connections[zome[c].app]
    IN  /\ zome[c].pc = "lock" /\ writer = NoCall
        /\ IF ws # NoSocket THEN Take(c, "call", ws) /\ UNCHANGED writer
           ELSE Goto(c, "connect") /\ writer' = c
        /\ UNCHANGED <<handle, app_info_cache, connections, life, up, enabled>>

\* connect_app.  The token, the port and the credentials are asked for over the
\* admin connection it took first, which it does not replace.
ConnectGetWebsocket(c) == zome[c].pc = "connect" /\ AdminGetOrConnect(c, "issue")

IssueAppAuthToken(c) ==
    /\ zome[c].pc = "issue" /\ Works(zome[c].ws)
    /\ Goto(c, "port")
    /\ UNCHANGED <<handle, app_info_cache, connections, writer, life, up, enabled>>

\* list_app_interfaces, and attach_app_interface if none allows the origin.
GetAppPort(c) ==
    /\ zome[c].pc = "port" /\ Works(zome[c].ws)
    /\ Goto(c, "open")
    /\ UNCHANGED <<handle, app_info_cache, connections, writer, life, up, enabled>>

\* AppWebsocket::connect: from here on the call owns a connection to the app.
OpenAppWebsocket(c) ==
    /\ zome[c].pc = "open" /\ Works(zome[c].ws) /\ zome[c].app \in enabled
    /\ Goto(c, "authorize")
    /\ UNCHANGED <<handle, app_info_cache, connections, writer, life, up, enabled>>

\* authorize_signing_credentials for its cells; then get_or_connect inserts the
\* connection, without another await, and lets go of the lock.
AuthorizeAndInsert(c) ==
    /\ zome[c].pc = "authorize" /\ Works(zome[c].ws) /\ zome[c].app \in enabled
    /\ connections' = [connections EXCEPT ![zome[c].app] = life]
    /\ Take(c, "call", life)
    /\ writer' = NoCall
    /\ UNCHANGED <<handle, app_info_cache, life, up, enabled>>

\* One of these fails; a connection that was opened is dropped.
ConnectAppFails(c) ==
    /\ zome[c].pc \in ConnectPCs \ {"connect"}
    /\ Works(zome[c].ws) => zome[c].pc \in {"open", "authorize"} /\ zome[c].app \notin enabled
    /\ Answer(c, IF zome[c].pc = "open" THEN "unavailable" ELSE "error")
    /\ writer' = NoCall
    /\ UNCHANGED <<handle, app_info_cache, connections, life, up, enabled>>

ConnectApp(c) ==
    \/ ConnectGetWebsocket(c) \/ IssueAppAuthToken(c) \/ GetAppPort(c)
    \/ OpenAppWebsocket(c) \/ AuthorizeAndInsert(c) \/ ConnectAppFails(c)

\* The call itself.  A connection that turns out broken stays in the map.
CallZome(c) ==
    /\ zome[c].pc = "call"
    /\ Answer(c, IF Works(zome[c].ws) /\ zome[c].app \in enabled THEN "ok" ELSE "error")
    /\ UNCHANGED <<handle, app_info_cache, connections, writer, life, up, enabled>>

\* The response is sent, or the client goes away and the call is dropped with
\* the lock it holds and the connection it has opened.
DropCall(c) ==
    /\ zome[c].pc # "idle"
    /\ zome' = [zome EXCEPT ![c] = NoZomeCall]
    /\ writer' = IF writer = c THEN NoCall ELSE writer
    /\ UNCHANGED <<handle, app_info_cache, connections, life, up, enabled>>

-----------------------------------------------------------------------------
\* The conductor (external)

Unsteady(app) ==
    zome' = [c \in Calls |-> IF app \in {zome[c].app, NoCall}
                             THEN [zome[c] EXCEPT !.steady = FALSE] ELSE zome[c]]

GoesDown ==
    /\ up /\ up' = FALSE /\ Unsteady(NoCall)
    /\ UNCHANGED <<handle, app_info_cache, connections, writer, life, enabled>>

ComesUp ==
    /\ ~up /\ life < MaxRestarts
    /\ up' = TRUE /\ life' = life + 1
    /\ UNCHANGED <<handle, app_info_cache, connections, writer, zome, enabled>>

EnableApp(a) ==
    /\ a \notin enabled /\ enabled' = enabled \cup {a}
    /\ UNCHANGED <<handle, app_info_cache, connections, writer, zome, life, up>>

DisableApp(a) ==
    /\ a \in enabled /\ enabled' = enabled \ {a} /\ Unsteady(a)
    /\ UNCHANGED <<handle, app_info_cache, connections, writer, life, up>>

-----------------------------------------------------------------------------
ConductorNext ==
    \/ GoesDown \/ ComesUp
    \/ \E a \in Apps : EnableApp(a) \/ DisableApp(a)
    \/ \E c \in Calls :
          \/ \E a \in Apps : ZomeCall(c, a)
          \/ FindAppWithDna(c)
          \/ ListGetOrConnect(c) \/ ListApps(c) \/ ListAppsBreaks(c) \/ StoreApps(c)
          \/ GetOrConnect(c) \/ LockConnections(c)
          \/ ConnectApp(c) \/ CallZome(c) \/ DropCall(c)

-----------------------------------------------------------------------------
\* Properties

\* However many calls find an app unconnected at the same time, and whichever
\* of them fail or are dropped on the way, there is at most one connection to
\* it: a call owns one that it has just opened only while the map has none and
\* no other call does, so nothing replaces a connection that calls are using.
\* (A connect that fails or is dropped past OpenAppWebsocket leaves nothing in
\* the map: the next call opens and authorises another one.)
Opening(a) == {c \in Calls : zome[c].app = a /\ zome[c].pc = "authorize"}
OneConnectionPerApp ==
    \A a \in Apps : \A c \in Opening(a) :
        connections[a] = NoSocket /\ Opening(a) = {c}

\* A call succeeds while the conductor stays up with the app enabled, also over
\* an admin connection that a restart broke and with other calls resetting it,
\* provided that when it began the app's own connection was not broken, nor the
\* admin connection with the app in the cache (these two are never replaced),
\* and that no call was under way that began before the last restart (it may
\* still drop the admin connection that this one relies on).
HopefulCallsSucceed ==
    \A c \in Calls : zome[c].pc = "done" /\ zome[c].steady => zome[c].status = "ok"

-----------------------------------------------------------------------------
\* What makes them inductive

Active(c) == zome[c].pc \notin {"idle", "done"}

\* A call that connects holds the lock, and the app is unconnected until then.
LockIsHeld ==
    \A c \in Calls :
        /\ writer = c <=> zome[c].pc \in ConnectPCs
        /\ writer = c => connections[zome[c].app] = NoSocket
        /\ Active(c) => zome[c].app \in Apps

\* No connection is of a life to come.  One that works shows that the admin
\* connection is fresh, also to a call that has used it in this life.
Fresh == handle \in {NoSocket, life}
SocketsAreOld ==
    /\ handle <= life /\ \A a \in Apps : connections[a] <= life
    /\ \A c \in Calls :
          /\ zome[c].ws <= life /\ zome[c].born <= life
          /\ zome[c].pc = "ask" /\ zome[c].ws = life => Fresh
          /\ zome[c].pc = "store" /\ zome[c].born = life => Fresh

\* What a hopeful call can count on at each of its places.
Prospects(c) ==
    LET z == zome[c] IN
    /\ up /\ z.app \in enabled
    /\ connections[z.app] \in {NoSocket, life}
    /\ \A d \in Calls : Active(d) => zome[d].born = life
    /\ z.pc = "find" => z.tries = 0
    /\ connections[z.app] = NoSocket =>
          /\ z.pc = "find" /\ z.app \in app_info_cache => Fresh
          /\ z.pc \in {"get", "lock", "connect"} => Fresh
    /\ z.pc = "list" /\ z.tries = 1 => Fresh
    /\ z.pc = "ask" /\ z.tries = 1 => z.ws = life
    /\ z.pc = "store" => z.app \in z.apps
    /\ z.pc \in {"issue", "port", "open", "authorize", "call"} => z.ws = life

HopeIsFounded == \A c \in Calls : zome[c].steady /\ Active(c) => Prospects(c)

ConductorIInv ==
    /\ ConductorTypeOK
    /\ LockIsHeld /\ SocketsAreOld /\ HopeIsFounded /\ HopefulCallsSucceed
=============================================================================
