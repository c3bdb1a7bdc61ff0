--------------------------- MODULE ServiceProofs ----------------------------
(***************************************************************************)
(* What the tasks and caches of module Service keep: the sign-off of the   *)
(* registration client, the reports, the preflight message and the zome    *)
(* calls through a conductor, for every timeout, queue, number of tasks,   *)
(* infos, calls, apps and restarts.                                        *)
(***************************************************************************)
EXTENDS Service, TLAPS

-----------------------------------------------------------------------------
\* The registration client

\* Giving up on a request leaves a stray first heartbeat only if the client
\* was not registered, which is then on record.
LEMMA AbandonKeeps ==
  ASSUME RegistrationIInv, Abandon
  PROVE  /\ stray' \subseteq {"first", "delete"}
         /\ unclaimed' \in BOOLEAN
         /\ unclaimed => unclaimed'
         /\ "first" \in stray' => unclaimed'
<1>1. CASE call = "flying"
  <2>1. client \in {"heartbeat", "deregister"}
    BY <1>1 DEF RegistrationIInv, SignOffInv
  <2>2. CASE client = "deregister"
    <3>1. stray' = stray \cup {"delete"}
      BY <1>1, <2>2 DEF Abandon, Current
    <3>2. unclaimed' = unclaimed
      BY <1>1, <2>2 DEF Abandon, RegistrationIInv, RegistrationTypeOK
    <3>3. QED
      BY <3>1, <3>2 DEF RegistrationIInv, RegistrationTypeOK, SignOffInv
  <2>3. CASE client = "heartbeat"
    BY <1>1, <2>3 DEF RegistrationIInv, RegistrationTypeOK, SignOffInv, Abandon, Current, Heartbeat
  <2>4. QED BY <2>1, <2>2, <2>3
<1>2. CASE call # "flying"
  BY <1>2 DEF RegistrationIInv, RegistrationTypeOK, SignOffInv, Abandon
<1>3. QED BY <1>1, <1>2

\* The initial state satisfies the invariant.
LEMMA RegistrationInitIInv == RegistrationInit => RegistrationIInv
<1> SUFFICES ASSUME RegistrationInit PROVE RegistrationIInv
  OBVIOUS
<1>1. RegistrationTypeOK
  <2>1. left \in 0..DeregisterTimeout /\ grace \in 0..ShutdownTimeout
    BY RegistrationAssumption DEF RegistrationInit
  <2>2. QED BY <2>1 DEF RegistrationInit, RegistrationTypeOK
<1>2. SignOffInv BY DEF RegistrationInit, SignOffInv, SignedOffMeansGone
<1>3. DeadlineInv BY DEF RegistrationInit, DeadlineInv, ExitWaitsForClient
<1>4. QED BY <1>1, <1>2, <1>3 DEF RegistrationIInv

\* Every step of the client, the service and the joining service keeps it.
LEMMA RegistrationNextIInv == RegistrationIInv /\ RegistrationNext => RegistrationIInv'
<1> SUFFICES ASSUME RegistrationIInv, RegistrationNext PROVE RegistrationIInv'
  OBVIOUS
<1> USE RegistrationAssumption
    DEF RegistrationIInv, RegistrationTypeOK, SignOffInv, DeadlineInv, SignedOffMeansGone,
        ExitWaitsForClient, clientVars, serviceVars, Running
<1>1. CASE SendHeartbeat BY <1>1 DEF SendHeartbeat
<1>2. CASE HeartbeatOk BY <1>2 DEF HeartbeatOk
<1>3. CASE HeartbeatFails BY <1>3, AbandonKeeps DEF HeartbeatFails
<1>4. CASE HandleShutdown BY <1>4, AbandonKeeps DEF HandleShutdown, DeregisterWithin
<1>5. CASE DeregisterOk BY <1>5 DEF DeregisterOk
<1>6. CASE DeregisterFails BY <1>6, AbandonKeeps DEF DeregisterFails
<1>7. CASE DeregisterTimesOut BY <1>7, AbandonKeeps DEF DeregisterTimesOut
<1>8. CASE Bind BY <1>8 DEF Bind
<1>9. CASE BindFails BY <1>9, AbandonKeeps DEF BindFails
<1>10. CASE Shutdown BY <1>10 DEF Shutdown
<1>11. CASE Drained BY <1>11 DEF Drained
<1>12. CASE Exit BY <1>12, AbandonKeeps DEF Exit
<1>13. CASE Tick
  <2>1. SignOffInv' BY <1>13 DEF Tick
  <2>2. left' \in 0..DeregisterTimeout /\ grace' \in 0..ShutdownTimeout
    BY <1>13 DEF Tick
  <2>3. DeadlineInv' BY <1>13 DEF Tick
  <2>4. RegistrationTypeOK' BY <1>13, <2>2 DEF Tick
  <2>5. QED BY <2>1, <2>3, <2>4
<1>14. CASE ServerAccepts BY <1>14 DEF ServerAccepts, EntryAfter, Current
<1>15. CASE ServerRejects BY <1>15 DEF ServerRejects
<1>16. CASE EntryIsLost BY <1>16 DEF EntryIsLost
<1>17. CASE CalmDown BY <1>17 DEF CalmDown
<1>18. ASSUME NEW kind \in {"first", "delete"}, StrayArrives(kind) PROVE RegistrationIInv'
  BY <1>18 DEF StrayArrives, EntryAfter
<1>19. ASSUME NEW kind \in {"first", "delete"}, StrayIsLost(kind) PROVE RegistrationIInv'
  BY <1>19 DEF StrayIsLost
<1>20. QED
  BY <1>1, <1>2, <1>3, <1>4, <1>5, <1>6, <1>7, <1>8, <1>9, <1>10, <1>11, <1>12, <1>13,
     <1>14, <1>15, <1>16, <1>17, <1>18, <1>19
  DEF RegistrationNext, ClientStep, ServerStep

-----------------------------------------------------------------------------
\* The reports

ReportsIInv == LinkerReportTypeOK /\ ReportsAddUp

\* The initial state satisfies the invariant.
LEMMA ReportInitIInv == LinkerReportInit => ReportsIInv
  BY LinkerReportAssumption
  DEF LinkerReportInit, ReportsIInv, LinkerReportTypeOK, ReportsAddUp, Counts, Zero

\* The sum bounds each of its parts.
LEMMA PartsAreBounded ==
  ASSUME ReportsIInv, NEW s \in Spaces
  PROVE  /\ queue[s] \in Nat /\ batch[s] \in Nat /\ written[s] \in Nat /\ dropped[s] \in Nat
         /\ fetched[s] \in 0..MaxFetched
         /\ fetched[s] = written[s] + batch[s] + queue[s] + dropped[s]
  BY LinkerReportAssumption DEF ReportsIInv, LinkerReportTypeOK, ReportsAddUp, Counts

\* A fetched op is counted once, wherever it goes.
LEMMA ReportNextIInv ==
  ASSUME ReportsIInv, (\E s \in Spaces : FetchedOp(s)) \/ ReportStep
  PROVE  ReportsIInv'
<1> USE LinkerReportAssumption
<1>1. ASSUME NEW s \in Spaces, FetchedOp(s) PROVE ReportsIInv'
  <2>1. ReportsAddUp'
    BY <1>1, PartsAreBounded
    DEF FetchedOp, ReportsIInv, LinkerReportTypeOK, ReportsAddUp, Counts
  <2>2. LinkerReportTypeOK'
    BY <1>1, PartsAreBounded DEF FetchedOp, ReportsIInv, LinkerReportTypeOK, Counts
  <2>3. QED BY <2>1, <2>2 DEF ReportsIInv
<1>2. ASSUME NEW s \in Spaces, ProcessCmd(s) PROVE ReportsIInv'
  <2>1. ReportsAddUp'
    BY <1>2, PartsAreBounded
    DEF ProcessCmd, ReportsIInv, LinkerReportTypeOK, ReportsAddUp, Counts
  <2>2. LinkerReportTypeOK'
    BY <1>2, PartsAreBounded DEF ProcessCmd, ReportsIInv, LinkerReportTypeOK, Counts
  <2>3. QED BY <2>1, <2>2 DEF ReportsIInv
<1>3. ASSUME NEW kept \in SUBSET Spaces, WriteReports(kept) PROVE ReportsIInv'
  <2>1. ReportsAddUp'
    BY <1>3, PartsAreBounded
    DEF WriteReports, Zero, ReportsIInv, LinkerReportTypeOK, ReportsAddUp, Counts
  <2>2. LinkerReportTypeOK'
    BY <1>3, PartsAreBounded DEF WriteReports, Zero, ReportsIInv, LinkerReportTypeOK, Counts
  <2>3. QED BY <2>1, <2>2 DEF ReportsIInv
<1>4. QED BY <1>1, <1>2, <1>3 DEF ReportStep

-----------------------------------------------------------------------------
\* The preflight message

\* The initial state satisfies the invariant.
LEMMA PreflightInitIInv == PreflightInit => PreflightIInv
  BY DEF PreflightInit, PreflightIInv, PreflightTypeOK, Busy, Idle

\* Both halves of a put keep it.
LEMMA PreflightNextIInv == PreflightIInv /\ PreflightNext => PreflightIInv'
<1> SUFFICES ASSUME PreflightIInv, PreflightNext PROVE PreflightIInv'
  OBVIOUS
<1>1. ASSUME NEW p \in Putters, NEW info \in AllInfos, NEW expired \in SUBSET agents,
             AddAgent(p, info, expired)
      PROVE  PreflightIInv'
  <2>1. /\ agents' \subseteq AllInfos /\ info \in agents'
        /\ lone' = lone \cap agents' /\ preflight' = preflight
    BY <1>1 DEF AddAgent, Retained, PreflightIInv, PreflightTypeOK
  <2> DEFINE alone == IF \A r \in Putters : ~snapshot[r].busy THEN {info} ELSE {}
  <2>2. /\ snapshot'[p] = [busy |-> TRUE, infos |-> agents', alone |-> alone]
        /\ snapshot'[p].busy /\ snapshot'[p].infos = agents' /\ snapshot'[p].alone = alone
    BY <1>1 DEF AddAgent, Encode
  <2>3. alone \subseteq AllInfos /\ alone \subseteq agents'
    BY <2>1
  <2>4. alone # {} => \A r \in Putters : ~snapshot[r].busy
    OBVIOUS
  <2> HIDE DEF alone
  <2>5. ASSUME NEW q \in Putters, q # p
        PROVE  /\ snapshot'[q] \in [busy : BOOLEAN, infos : SUBSET AllInfos,
                                    alone : SUBSET AllInfos]
               /\ snapshot'[q].busy = snapshot[q].busy
               /\ snapshot'[q].infos = snapshot[q].infos
               /\ snapshot'[q].alone = {}
    <3>1. snapshot[q] \in [busy : BOOLEAN, infos : SUBSET AllInfos, alone : SUBSET AllInfos]
      BY DEF PreflightIInv, PreflightTypeOK
    <3>2. snapshot'[q] = [snapshot[q] EXCEPT !.alone = {}]
      BY <1>1, <2>5 DEF AddAgent, Encode
    <3>3. QED BY <3>1, <3>2
  <2>6. PreflightTypeOK'
    <3>1. snapshot' = [q \in Putters |-> snapshot'[q]]
      BY <1>1 DEF AddAgent, Encode
    <3>2. snapshot'[p] \in [busy : BOOLEAN, infos : SUBSET AllInfos, alone : SUBSET AllInfos]
      BY <2>1, <2>2, <2>3
    <3>3. ASSUME NEW q \in Putters
          PROVE  snapshot'[q] \in [busy : BOOLEAN, infos : SUBSET AllInfos,
                                   alone : SUBSET AllInfos]
      BY <2>5, <3>2
    <3>4. QED BY <2>1, <3>1, <3>3 DEF PreflightIInv, PreflightTypeOK
  <2>7. ASSUME NEW q \in Busy' PROVE lone' \subseteq snapshot'[q].infos
    <3>1. q \in Putters /\ snapshot'[q].busy BY <2>7 DEF Busy
    <3>2. CASE q = p BY <2>1, <2>2, <3>2
    <3>3. CASE q # p
      <4>1. q \in Busy BY <2>5, <3>1, <3>3 DEF Busy
      <4>2. QED BY <2>1, <2>5, <3>1, <3>3, <4>1 DEF PreflightIInv
    <3>4. QED BY <3>2, <3>3
  <2>8. ASSUME NEW q \in Putters, snapshot'[q].alone # {}
        PROVE  snapshot'[q].alone \subseteq snapshot'[q].infos /\ Busy' = {q}
    <3>1. q = p BY <2>5, <2>8
    <3>2. \A r \in Putters : ~snapshot[r].busy BY <2>2, <2>4, <2>8, <3>1
    <3>3. \A r \in Putters : snapshot'[r].busy <=> r = p BY <2>2, <2>5, <3>2
    <3>4. Busy' = {p} BY <3>3 DEF Busy
    <3>5. QED BY <2>2, <2>3, <3>1, <3>4
  <2>9. lone' \subseteq preflight' BY <2>1 DEF PreflightIInv
  <2>10. QED BY <2>6, <2>7, <2>8, <2>9 DEF PreflightIInv
<1>2. ASSUME NEW p \in Putters, StorePreflight(p) PROVE PreflightIInv'
  <2>1. /\ snapshot' = [snapshot EXCEPT ![p] = Idle] /\ p \in Busy
        /\ lone' = lone \cup snapshot[p].alone /\ preflight' = snapshot[p].infos
        /\ agents' = agents
    BY <1>2 DEF StorePreflight, Busy
  <2>2. Idle.busy = FALSE /\ Idle.infos = {} /\ Idle.alone = {} BY DEF Idle
  <2>3. /\ PreflightTypeOK'
        /\ \A q \in Putters : snapshot'[q] = IF q = p THEN Idle ELSE snapshot[q]
    BY <2>1 DEF PreflightIInv, PreflightTypeOK, Idle
  <2>4. Busy' = Busy \ {p} BY <2>2, <2>3 DEF Busy
  <2>5. lone' \subseteq preflight' BY <2>1 DEF PreflightIInv, Busy
  <2>6. ASSUME NEW q \in Busy' PROVE lone' \subseteq snapshot'[q].infos
    <3>1. q # p /\ q \in Busy BY <2>4, <2>6
    <3>2. snapshot[p].alone = {} BY <3>1 DEF PreflightIInv, Busy
    <3>3. QED BY <2>1, <2>3, <3>1, <3>2 DEF PreflightIInv, Busy
  <2>7. ASSUME NEW q \in Putters, snapshot'[q].alone # {}
        PROVE  snapshot'[q].alone \subseteq snapshot'[q].infos /\ Busy' = {q}
    <3>1. q # p BY <2>2, <2>3, <2>7
    <3>2. QED BY <2>1, <2>3, <2>7, <3>1 DEF PreflightIInv
  <2>8. QED BY <2>3, <2>5, <2>6, <2>7 DEF PreflightIInv
<1>3. QED BY <1>1, <1>2 DEF PreflightNext

-----------------------------------------------------------------------------
\* The conductor's connections and calls

USE DEF ConnectPCs

\* The conductor's steps leave a call where it is, with less hope.
LEMMA UnsteadyKeeps ==
  ASSUME zome \in [Calls -> ZomeCalls], NEW app, Unsteady(app)
  PROVE  /\ zome' \in [Calls -> ZomeCalls]
         /\ \A c \in Calls :
               /\ zome'[c].pc = zome[c].pc /\ zome'[c].app = zome[c].app
               /\ zome'[c].ws = zome[c].ws /\ zome'[c].tries = zome[c].tries
               /\ zome'[c].apps = zome[c].apps /\ zome'[c].status = zome[c].status
               /\ zome'[c].born = zome[c].born
               /\ zome'[c].steady => zome[c].steady /\ app \notin {zome[c].app, NoCall}
<1>1. ASSUME NEW r \in ZomeCalls
      PROVE  LET s == [r EXCEPT !.steady = FALSE] IN
             /\ s \in ZomeCalls
             /\ s.pc = r.pc /\ s.app = r.app /\ s.ws = r.ws /\ s.tries = r.tries
             /\ s.apps = r.apps /\ s.status = r.status /\ s.born = r.born /\ s.steady = FALSE
  BY DEF ZomeCalls
<1>2. ASSUME NEW c \in Calls
      PROVE  zome'[c] = IF app \in {zome[c].app, NoCall}
                        THEN [zome[c] EXCEPT !.steady = FALSE] ELSE zome[c]
  BY DEF Unsteady
<1>3. ASSUME NEW c \in Calls
      PROVE  /\ zome'[c] \in ZomeCalls
             /\ zome'[c].pc = zome[c].pc /\ zome'[c].app = zome[c].app
             /\ zome'[c].ws = zome[c].ws /\ zome'[c].tries = zome[c].tries
             /\ zome'[c].apps = zome[c].apps /\ zome'[c].status = zome[c].status
             /\ zome'[c].born = zome[c].born
             /\ zome'[c].steady => zome[c].steady /\ app \notin {zome[c].app, NoCall}
  <2>1. zome[c] \in ZomeCalls OBVIOUS
  <2>2. CASE app \in {zome[c].app, NoCall} BY <1>1, <1>2, <2>1, <2>2
  <2>3. CASE app \notin {zome[c].app, NoCall} BY <1>2, <2>1, <2>3
  <2>4. QED BY <2>2, <2>3
<1>4. zome' = [c \in Calls |-> zome'[c]] BY DEF Unsteady
<1>5. QED BY <1>3, <1>4

\* A step of a call is a move of that call.
LEMMA CallMoves ==
  ASSUME zome \in [Calls -> ZomeCalls], NEW c \in Calls, NEW r,
         zome' = [zome EXCEPT ![c] = r]
  PROVE  /\ zome'[c] = r
         /\ \A d \in Calls \ {c} : zome'[d] = zome[d]
         /\ r \in ZomeCalls => zome' \in [Calls -> ZomeCalls]
  OBVIOUS

\* What a call is after each of its steps.
LEMMA ContinueIs ==
  ASSUME ConductorTypeOK, NEW c \in Calls, NEW pc, NEW ws, NEW tries, NEW apps,
         Continue(c, pc, ws, tries, apps)
  PROVE  /\ zome'[c] = [pc |-> pc, app |-> zome[c].app, ws |-> ws, tries |-> tries,
                        apps |-> apps, status |-> "none", born |-> zome[c].born,
                        steady |-> zome[c].steady]
         /\ \A d \in Calls \ {c} : zome'[d] = zome[d]
         /\ zome'[c] \in ZomeCalls => zome' \in [Calls -> ZomeCalls]
  BY CallMoves DEF Continue, ConductorTypeOK

\* What a step of call c owes to the other calls and to itself.
LEMMA CallStepIInv ==
  ASSUME ConductorIInv, NEW c \in Calls,
         \* the step
         ConductorTypeOK',
         UNCHANGED <<life, up, enabled>>,
         \A d \in Calls \ {c} : zome'[d] = zome[d],
         handle' \in {handle, NoSocket, life},
         app_info_cache' # app_info_cache => zome[c].pc = "store",
         \A a \in Apps : connections'[a] # connections[a] => connections'[a] = life,
         connections' # connections => writer = c,
         \A d \in Calls \ {c} : writer' = d <=> writer = d,
         zome'[c].pc \notin {"idle", "done"} =>
            zome'[c].born = life \/ (Active(c) /\ zome'[c].born = zome[c].born),
         \* and the call itself
         writer' = c <=> zome'[c].pc \in ConnectPCs,
         writer' = c => connections'[zome'[c].app] = NoSocket,
         zome'[c].pc \notin {"idle", "done"} => zome'[c].app \in Apps,
         zome'[c].ws <= life /\ zome'[c].born <= life,
         zome'[c].pc = "ask" /\ zome'[c].ws = life => Fresh',
         zome'[c].pc = "store" /\ zome'[c].born = life => Fresh',
         zome'[c].steady /\ zome'[c].pc \notin {"idle", "done"} => Prospects(c)',
         zome'[c].steady /\ zome'[c].pc = "done" => zome'[c].status = "ok"
  PROVE  ConductorIInv'
<1> USE DEF ConductorIInv
<1>1. life \in 0..MaxRestarts /\ MaxRestarts \in Nat /\ NoSocket = -1
  BY ConductorAssumption DEF ConductorTypeOK, NoSocket
<1>2. Fresh => Fresh' BY DEF Fresh
<1>3. LockIsHeld'
  <2> SUFFICES ASSUME NEW d \in Calls
               PROVE  /\ writer' = d <=> zome'[d].pc \in ConnectPCs
                      /\ writer' = d => connections'[zome'[d].app] = NoSocket
                      /\ Active(d)' => zome'[d].app \in Apps
    BY DEF LockIsHeld
  <2>1. CASE d = c BY <2>1 DEF Active
  <2>2. CASE d # c
    <3>1. writer = d => connections' = connections BY <2>2
    <3>2. QED BY <2>2, <3>1 DEF LockIsHeld, Active
  <2>3. QED BY <2>1, <2>2
<1>4. SocketsAreOld'
  <2>1. handle' <= life /\ \A a \in Apps : connections'[a] <= life
    BY <1>1 DEF SocketsAreOld
  <2>2. ASSUME NEW d \in Calls
        PROVE  /\ zome'[d].ws <= life /\ zome'[d].born <= life
               /\ zome'[d].pc = "ask" /\ zome'[d].ws = life => Fresh'
               /\ zome'[d].pc = "store" /\ zome'[d].born = life => Fresh'
    <3>1. CASE d = c BY <3>1
    <3>2. CASE d # c BY <1>2, <3>2 DEF SocketsAreOld
    <3>3. QED BY <3>1, <3>2
  <2>3. QED BY <2>1, <2>2 DEF SocketsAreOld
<1>5. HopeIsFounded'
  <2> SUFFICES ASSUME NEW d \in Calls, zome'[d].steady, Active(d)' PROVE Prospects(d)'
    BY DEF HopeIsFounded
  <2>1. CASE d = c BY <2>1 DEF Active
  <2>2. CASE d # c
    <3>1. zome'[d] = zome[d] BY <2>2
    <3>2. Prospects(d) BY <3>1 DEF HopeIsFounded, Active
    <3>3. zome[d].app \in Apps BY <3>1 DEF LockIsHeld, Active
    <3>4. /\ connections'[zome[d].app] \in {NoSocket, life}
          /\ connections'[zome[d].app] = NoSocket => connections[zome[d].app] = NoSocket
      BY <1>1, <3>2, <3>3 DEF Prospects
    <3>5. ASSUME NEW e \in Calls, Active(e)' PROVE zome'[e].born = life
      <4>1. CASE e = c BY <3>2, <3>5, <4>1 DEF Prospects, Active
      <4>2. CASE e # c BY <3>2, <3>5, <4>2 DEF Prospects, Active
      <4>3. QED BY <4>1, <4>2
    <3>6. app_info_cache' # app_info_cache => Fresh
      <4>1. zome[c].pc = "store" => zome[c].born = life BY <3>2 DEF Prospects, Active
      <4>2. QED BY <4>1 DEF SocketsAreOld
    <3>7. zome[d].app \in app_info_cache' => zome[d].app \in app_info_cache \/ Fresh
      BY <3>6
    <3>8. QED BY <1>2, <3>1, <3>2, <3>4, <3>5, <3>7 DEF Prospects
  <2>3. QED BY <2>1, <2>2
<1>6. HopefulCallsSucceed'
  BY DEF HopefulCallsSucceed
<1>7. QED BY <1>3, <1>4, <1>5, <1>6

\* The types of a call's local variables, and what the invariant says of it.
LEMMA CallFacts ==
  ASSUME ConductorIInv, NEW c \in Calls
  PROVE  /\ zome[c] \in ZomeCalls
         /\ life \in Nat /\ NoSocket = -1 /\ life \in 0..MaxRestarts
         /\ life \in Sockets /\ NoSocket \in Sockets /\ 0 \in 0..MaxRestarts
         /\ zome[c].ws \in Int /\ zome[c].born \in Nat
         /\ zome[c].ws <= life /\ zome[c].born <= life
         /\ Active(c) => zome[c].app \in Apps /\ connections[zome[c].app] \in Sockets
         /\ zome[c].steady /\ Active(c) => Prospects(c)
         /\ writer = c <=> zome[c].pc \in ConnectPCs
         /\ writer = c => connections[zome[c].app] = NoSocket
<1>1. zome[c] \in ZomeCalls /\ life \in 0..MaxRestarts /\ connections \in [Apps -> Sockets]
  BY DEF ConductorIInv, ConductorTypeOK
<1>2. MaxRestarts \in Nat BY ConductorAssumption
<1>3. /\ life \in Nat /\ NoSocket = -1
      /\ life \in Sockets /\ NoSocket \in Sockets /\ 0 \in 0..MaxRestarts
  BY <1>1, <1>2 DEF NoSocket, Sockets
<1>4. zome[c].ws \in Int /\ zome[c].born \in Nat
  BY <1>1, <1>2 DEF ZomeCalls, Sockets, NoSocket
<1>5. QED
  BY <1>1, <1>3, <1>4 DEF ConductorIInv, SocketsAreOld, LockIsHeld, HopeIsFounded

\* A call that goes on keeps the invariant if it has what its next place needs.
LEMMA ContinueIInv ==
  ASSUME ConductorIInv, NEW c \in Calls, Active(c),
         NEW pc \in {"list", "ask", "store", "get", "lock", "call"} \cup ConnectPCs,
         NEW ws \in Sockets, NEW tries \in {0, 1}, NEW apps \in SUBSET Apps,
         Continue(c, pc, ws, tries, apps),
         UNCHANGED <<life, up, enabled>>, ws <= life,
         handle' \in {handle, NoSocket, life},
         app_info_cache' # app_info_cache => zome[c].pc = "store", app_info_cache' \subseteq Apps,
         connections' \in [Apps -> Sockets],
         \A a \in Apps : connections'[a] # connections[a] => connections'[a] = life,
         connections' # connections => writer = c,
         writer' \in {writer, NoCall, c}, writer' # writer => writer \in {NoCall, c},
         writer' = c <=> pc \in ConnectPCs,
         writer' = c => connections'[zome[c].app] = NoSocket,
         pc = "ask" /\ ws = life => Fresh',
         pc = "store" => Fresh',
         zome[c].steady =>
            /\ pc \in {"get", "lock", "connect"} /\ connections'[zome[c].app] = NoSocket => Fresh'
            /\ pc = "list" /\ tries = 1 => Fresh'
            /\ pc = "ask" /\ tries = 1 => ws = life
            /\ pc = "store" => zome[c].app \in apps
            /\ pc \in {"issue", "port", "open", "authorize", "call"} => ws = life
  PROVE  ConductorIInv'
<1> DEFINE z == zome[c]
<1>1. /\ zome'[c] = [pc |-> pc, app |-> z.app, ws |-> ws, tries |-> tries,
                     apps |-> apps, status |-> "none", born |-> z.born, steady |-> z.steady]
      /\ \A d \in Calls \ {c} : zome'[d] = zome[d]
      /\ zome'[c] \in ZomeCalls => zome' \in [Calls -> ZomeCalls]
  BY ContinueIs DEF ConductorIInv
<1>2. ConductorTypeOK'
  <2>1. zome'[c] \in ZomeCalls BY <1>1, CallFacts DEF ZomeCalls
  <2>2. handle' \in Sockets BY CallFacts DEF ConductorIInv, ConductorTypeOK
  <2>3. QED BY <1>1, <2>1, <2>2 DEF ConductorIInv, ConductorTypeOK
<1>3. z.steady => Prospects(c)'
  <2> SUFFICES ASSUME z.steady PROVE Prospects(c)'
    OBVIOUS
  <2>1. Prospects(c) BY CallFacts
  <2>2. ASSUME NEW d \in Calls, Active(d)' PROVE zome'[d].born = life
    BY <1>1, <2>1, <2>2 DEF Prospects, Active
  <2>3. connections'[z.app] \in {NoSocket, life} BY <2>1, CallFacts DEF Prospects
  <2>4. QED BY <1>1, <2>1, <2>2, <2>3 DEF Prospects
<1>4. \A d \in Calls \ {c} : writer' = d <=> writer = d
  BY ConductorAssumption
<1>5. QED
  BY <1>1, <1>2, <1>3, <1>4, CallFacts, CallStepIInv

\* A call that answers keeps it if it had no hope or succeeds.
LEMMA AnswerIInv ==
  ASSUME ConductorIInv, NEW c \in Calls, Active(c),
         NEW status \in {"ok", "not_found", "unavailable", "error"},
         Answer(c, status),
         UNCHANGED <<life, up, enabled, connections>>,
         handle' \in {handle, NoSocket, life},
         app_info_cache' # app_info_cache => zome[c].pc = "store", app_info_cache' \subseteq Apps,
         writer' = IF writer = c THEN NoCall ELSE writer,
         zome[c].steady => status = "ok"
  PROVE  ConductorIInv'
<1>1. /\ zome'[c] = Ended("done", status, zome[c].steady)
      /\ \A d \in Calls \ {c} : zome'[d] = zome[d]
      /\ zome'[c] \in ZomeCalls => zome' \in [Calls -> ZomeCalls]
  BY CallMoves DEF Answer, ConductorIInv, ConductorTypeOK
<1>2. ConductorTypeOK'
  <2>1. zome'[c] \in ZomeCalls BY <1>1, CallFacts DEF ZomeCalls, Ended
  <2>2. handle' \in Sockets BY CallFacts DEF ConductorIInv, ConductorTypeOK
  <2>3. QED BY <1>1, <2>1, <2>2 DEF ConductorIInv, ConductorTypeOK
<1>3. /\ zome'[c].pc = "done" /\ zome'[c].ws = -1 /\ zome'[c].born = 0
      /\ zome'[c].status = status /\ zome'[c].steady = zome[c].steady
  BY <1>1 DEF Ended, NoSocket
<1>4. writer' # c /\ \A d \in Calls \ {c} : writer' = d <=> writer = d
  BY ConductorAssumption
<1>5. QED
  BY <1>1, <1>2, <1>3, <1>4, CallFacts, CallStepIInv

\* find_app_with_dna: the cache, the list of apps, the search.
LEMMA FindIInv ==
  ASSUME ConductorIInv, NEW c \in Calls,
         FindAppWithDna(c) \/ ListApps(c) \/ ListAppsBreaks(c) \/ StoreApps(c)
  PROVE  ConductorIInv'
<1> DEFINE z == zome[c]
<1>t. z \in ZomeCalls /\ app_info_cache \subseteq Apps /\ enabled \subseteq Apps
      /\ connections \in [Apps -> Sockets]
  BY CallFacts DEF ConductorIInv, ConductorTypeOK
<1>z. z.apps \in SUBSET Apps /\ z.tries \in {0, 1} /\ z.ws \in Sockets /\ NoSocket \in Sockets
      /\ z.ws <= life /\ NoSocket <= life
  BY <1>t, CallFacts DEF ZomeCalls
<1>a. Active(c) /\ writer # c /\ z.pc \in {"find", "ask", "store"}
  BY CallFacts DEF FindAppWithDna, ListApps, ListAppsBreaks, StoreApps, Active
<1>p. z.steady => Prospects(c) BY <1>a, CallFacts
<1>1. CASE FindAppWithDna(c)
  <2>1. PICK pc \in {"get", "list"} :
           Continue(c, pc, z.ws, z.tries, z.apps) /\ (pc = "get" => z.app \in app_info_cache)
    BY <1>1 DEF FindAppWithDna, Goto
  <2>2. UNCHANGED <<handle, app_info_cache, connections, writer, life, up, enabled>>
    BY <1>1 DEF FindAppWithDna
  <2>3. z.steady => /\ pc = "get" /\ connections[z.app] = NoSocket => Fresh'
                    /\ pc = "list" => z.tries = 0
    BY <1>1, <1>p, <2>1, <2>2 DEF Prospects, FindAppWithDna, Fresh
  <2>4. QED BY <1>t, <1>z, <1>a, <2>1, <2>2, <2>3, ContinueIInv
<1>2. CASE ListApps(c)
  <2>1. /\ Continue(c, "store", NoSocket, 0, enabled) /\ z.pc = "ask" /\ z.ws = life
        /\ UNCHANGED <<handle, app_info_cache, connections, writer, life, up, enabled>>
    BY <1>2 DEF ListApps, Works
  <2>2. Fresh' BY <2>1 DEF ConductorIInv, SocketsAreOld, Fresh
  <2>3. z.steady => z.app \in enabled BY <1>p DEF Prospects
  <2>4. QED BY <1>t, <1>z, <1>a, <2>1, <2>2, <2>3, ContinueIInv
<1>3. CASE ListAppsBreaks(c)
  <2>1. /\ z.pc = "ask" /\ ~Works(z.ws) /\ handle' = NoSocket
        /\ UNCHANGED <<app_info_cache, connections, writer, life, up, enabled>>
    BY <1>3 DEF ListAppsBreaks
  <2>2. Fresh' BY <2>1 DEF Fresh
  <2>3. CASE z.tries = 0
    <3>1. Continue(c, "list", NoSocket, 1, {}) BY <1>3, <2>3 DEF ListAppsBreaks
    <3>2. QED BY <1>t, <1>z, <1>a, <2>1, <2>2, <3>1, ContinueIInv
  <2>4. CASE z.tries # 0
    <3>1. Answer(c, "unavailable") BY <1>3, <2>4 DEF ListAppsBreaks
    <3>2. ~z.steady BY <1>z, <1>p, <2>1, <2>4 DEF Prospects, Works
    <3>3. QED BY <1>t, <1>a, <2>1, <3>1, <3>2, AnswerIInv
  <2>5. QED BY <2>3, <2>4
<1>4. CASE StoreApps(c)
  <2>1. /\ z.pc = "store" /\ app_info_cache' = z.apps
        /\ UNCHANGED <<handle, connections, writer, life, up, enabled>>
    BY <1>4 DEF StoreApps
  <2>2. z.steady => Fresh' /\ z.app \in z.apps
    BY <1>p, <1>a, <2>1 DEF Prospects, Fresh, ConductorIInv, SocketsAreOld
  <2>3. CASE z.app \in z.apps
    <3>1. Continue(c, "get", NoSocket, 0, {}) BY <1>4, <2>3 DEF StoreApps
    <3>2. QED BY <1>t, <1>z, <1>a, <2>1, <2>2, <3>1, ContinueIInv
  <2>4. CASE z.app \notin z.apps
    <3>1. Answer(c, "not_found") BY <1>4, <2>4 DEF StoreApps
    <3>2. QED BY <1>z, <1>a, <2>1, <2>2, <2>4, <3>1, AnswerIInv
  <2>5. QED BY <2>3, <2>4
<1>5. QED BY <1>1, <1>2, <1>3, <1>4

\* get_or_connect of the admin connection: what a call takes is fresh where a
\* hopeful call needs it to be.
LEMMA AdminIInv ==
  ASSUME ConductorIInv, NEW c \in Calls, ListGetOrConnect(c) \/ ConnectGetWebsocket(c)
  PROVE  ConductorIInv'
<1> DEFINE z == zome[c]
           next == IF z.pc = "list" THEN "ask" ELSE "issue"
<1>t. z \in ZomeCalls /\ app_info_cache \subseteq Apps /\ handle \in Sockets
      /\ connections \in [Apps -> Sockets]
  BY CallFacts DEF ConductorIInv, ConductorTypeOK
<1>z. z.apps \in SUBSET Apps /\ z.tries \in {0, 1} /\ handle <= life /\ life \in Sockets
      /\ life \in Int /\ NoSocket # life
  BY <1>t, CallFacts DEF ZomeCalls, ConductorIInv, SocketsAreOld
<1>a. Active(c) /\ z.pc \in {"list", "connect"} /\ AdminGetOrConnect(c, next)
  BY DEF ListGetOrConnect, ConnectGetWebsocket, Active
<1>w. writer = c <=> z.pc = "connect" BY <1>a, CallFacts
<1>p. z.steady => Prospects(c) BY <1>a, CallFacts
<1>u. UNCHANGED <<app_info_cache, connections, life, up, enabled>>
  BY <1>a DEF AdminGetOrConnect
<1>c. writer = c => connections'[z.app] = NoSocket BY <1>u, CallFacts
<1>1. CASE handle # NoSocket
  <2>1. Take(c, next, handle) /\ handle' = handle /\ writer' = writer
    BY <1>a, <1>1 DEF AdminGetOrConnect
  <2>2. handle = life => Fresh' BY <1>u, <2>1 DEF Fresh
  <2>3. z.steady => /\ next = "ask" /\ z.tries = 1 => handle = life
                    /\ next = "issue" => handle = life
    BY <1>a, <1>w, <1>c, <1>u, <1>1, <1>p DEF Prospects, Fresh
  <2>4. Continue(c, next, handle, z.tries, z.apps) BY <2>1 DEF Take
  <2>5. QED
    BY <1>t, <1>z, <1>a, <1>w, <1>u, <1>c, <2>1, <2>2, <2>3, <2>4, ContinueIInv
<1>2. CASE handle = NoSocket /\ up
  <2>1. Take(c, next, life) /\ handle' = life
    BY <1>a, <1>2 DEF AdminGetOrConnect
  <2>w. writer' = writer BY <1>a, <1>z, <2>1 DEF AdminGetOrConnect
  <2>2. Fresh' BY <1>u, <2>1 DEF Fresh
  <2>4. Continue(c, next, life, z.tries, z.apps) BY <2>1 DEF Take
  <2>5. QED
    BY <1>t, <1>z, <1>a, <1>w, <1>u, <1>c, <2>1, <2>w, <2>2, <2>4, ContinueIInv
<1>3. CASE handle = NoSocket /\ ~up
  <2>1. /\ Answer(c, "unavailable") /\ handle' = handle
        /\ writer' = IF writer = c THEN NoCall ELSE writer
    BY <1>a, <1>3 DEF AdminGetOrConnect
  <2>2. ~z.steady BY <1>p, <1>3 DEF Prospects
  <2>3. QED BY <1>t, <1>a, <1>u, <2>1, <2>2, AnswerIInv
<1>4. QED BY <1>1, <1>2, <1>3

\* get_or_connect of an app connection, under its two locks.
LEMMA GetIInv ==
  ASSUME ConductorIInv, NEW c \in Calls, GetOrConnect(c) \/ LockConnections(c)
  PROVE  ConductorIInv'
<1> DEFINE z == zome[c]
           ws == connections[z.app]
<1>t. z \in ZomeCalls /\ app_info_cache \subseteq Apps
      /\ connections \in [Apps -> Sockets]
  BY CallFacts DEF ConductorIInv, ConductorTypeOK
<1>a. Active(c) /\ writer = NoCall /\ z.pc \in {"get", "lock"}
      /\ UNCHANGED <<handle, app_info_cache, connections, life, up, enabled>>
  BY DEF GetOrConnect, LockConnections, Active
<1>z. z.apps \in SUBSET Apps /\ z.tries \in {0, 1} /\ z.ws \in Sockets /\ z.ws <= life
      /\ z.app \in Apps /\ ws \in Sockets /\ writer # c
  BY <1>t, <1>a, CallFacts, ConductorAssumption DEF ZomeCalls
<1>p. z.steady => /\ ws \in {NoSocket, life}
                  /\ ws = NoSocket => Fresh'
  BY <1>a, CallFacts DEF Prospects, Fresh
<1>1. CASE ws # NoSocket
  <2>1. Continue(c, "call", ws, z.tries, z.apps) /\ writer' = writer
    BY <1>1 DEF GetOrConnect, LockConnections, Take
  <2>2. ws <= life
    BY <1>z DEF ConductorIInv, SocketsAreOld
  <2>3. QED BY <1>t, <1>a, <1>z, <1>p, <1>1, <2>1, <2>2, ContinueIInv
<1>2. CASE ws = NoSocket /\ GetOrConnect(c)
  <2>1. Continue(c, "lock", z.ws, z.tries, z.apps) /\ writer' = writer
    BY <1>2 DEF GetOrConnect, Goto
  <2>2. QED BY <1>t, <1>a, <1>z, <1>p, <1>2, <2>1, ContinueIInv
<1>3. CASE ws = NoSocket /\ LockConnections(c)
  <2>1. Continue(c, "connect", z.ws, z.tries, z.apps) /\ writer' = c
    BY <1>3 DEF LockConnections, Goto
  <2>2. QED BY <1>t, <1>a, <1>z, <1>p, <1>3, <2>1, ContinueIInv
<1>4. QED BY <1>1, <1>2, <1>3

\* The steps of connect_app after the first: the call holds the lock until it
\* inserts its connection or fails.
LEMMA ConnectIInv ==
  ASSUME ConductorIInv, NEW c \in Calls,
         \/ IssueAppAuthToken(c) \/ GetAppPort(c) \/ OpenAppWebsocket(c)
         \/ AuthorizeAndInsert(c) \/ ConnectAppFails(c) \/ CallZome(c)
  PROVE  ConductorIInv'
<1> DEFINE z == zome[c]
<1>t. z \in ZomeCalls /\ app_info_cache \subseteq Apps /\ connections \in [Apps -> Sockets]
  BY CallFacts DEF ConductorIInv, ConductorTypeOK
<1>a. Active(c) /\ z.pc \in {"issue", "port", "open", "authorize", "call"}
      /\ UNCHANGED <<handle, app_info_cache, life, up, enabled>>
  BY DEF IssueAppAuthToken, GetAppPort, OpenAppWebsocket, AuthorizeAndInsert,
     ConnectAppFails, CallZome, Active
<1>z. z.apps \in SUBSET Apps /\ z.tries \in {0, 1} /\ z.app \in Apps /\ life \in Sockets
      /\ z.ws \in Sockets /\ z.ws <= life /\ life <= life /\ life # NoSocket
  BY <1>t, <1>a, CallFacts DEF ZomeCalls
<1>w. /\ writer = c <=> z.pc # "call"
      /\ writer = c => connections[z.app] = NoSocket
  BY <1>a, CallFacts
<1>p. z.steady => Works(z.ws) /\ z.app \in enabled
  BY <1>a, CallFacts DEF Prospects, Works
<1>1. CASE IssueAppAuthToken(c) \/ GetAppPort(c) \/ OpenAppWebsocket(c)
  <2>1. PICK pc \in {"port", "open", "authorize"} : Continue(c, pc, z.ws, z.tries, z.apps)
    BY <1>1 DEF IssueAppAuthToken, GetAppPort, OpenAppWebsocket, Goto
  <2>2. writer = c /\ z.ws = life /\ UNCHANGED <<writer, connections>>
    BY <1>1, <1>w DEF IssueAppAuthToken, GetAppPort, OpenAppWebsocket, Works
  <2>3. QED BY <1>t, <1>a, <1>z, <1>w, <2>1, <2>2, ContinueIInv
<1>2. CASE AuthorizeAndInsert(c)
  <2>1. /\ Continue(c, "call", life, z.tries, z.apps) /\ writer' = NoCall /\ writer = c
        /\ connections' = [connections EXCEPT ![z.app] = life]
    BY <1>2, <1>w DEF AuthorizeAndInsert, Take
  <2>2. connections' \in [Apps -> Sockets]
    BY <1>t, <1>z, <2>1
  <2>3. connections'[z.app] = life /\ \A a \in Apps : connections'[a] # connections[a] => connections'[a] = life
    BY <1>t, <1>z, <2>1
  <2>4. c # NoCall BY ConductorAssumption
  <2>5. QED BY <1>t, <1>a, <1>z, <2>1, <2>2, <2>3, <2>4, ContinueIInv
<1>3. CASE ConnectAppFails(c)
  <2>1. PICK status \in {"unavailable", "error"} : Answer(c, status)
    BY <1>3 DEF ConnectAppFails
  <2>2. writer = c /\ writer' = NoCall /\ UNCHANGED connections /\ ~z.steady
    BY <1>3, <1>w, <1>p DEF ConnectAppFails
  <2>3. QED BY <1>t, <1>a, <2>1, <2>2, AnswerIInv
<1>4. CASE CallZome(c)
  <2>1. PICK status \in {"ok", "error"} : Answer(c, status) /\ (z.steady => status = "ok")
    BY <1>4, <1>p DEF CallZome
  <2>2. writer # c /\ UNCHANGED <<writer, connections>>
    BY <1>4, <1>w DEF CallZome
  <2>3. QED BY <1>t, <1>a, <2>1, <2>2, AnswerIInv
<1>5. QED BY <1>1, <1>2, <1>3, <1>4

\* A call begins with the hope that Hopeful gives it, and ends with nothing.
LEMMA BeginAndEndIInv ==
  ASSUME ConductorIInv, NEW c \in Calls,
         (\E a \in Apps : ZomeCall(c, a)) \/ DropCall(c)
  PROVE  ConductorIInv'
<1>t. ConductorTypeOK BY DEF ConductorIInv
<1>1. ASSUME NEW a \in Apps, ZomeCall(c, a) PROVE ConductorIInv'
  <2>1. /\ zome[c].pc = "idle"
        /\ UNCHANGED <<handle, app_info_cache, connections, writer, life, up, enabled>>
    BY <1>1 DEF ZomeCall
  <2>2. /\ zome'[c] = [pc |-> "find", app |-> a, ws |-> NoSocket, tries |-> 0, apps |-> {},
                       status |-> "none", born |-> life, steady |-> Hopeful(a)]
        /\ \A d \in Calls \ {c} : zome'[d] = zome[d]
        /\ zome'[c] \in ZomeCalls => zome' \in [Calls -> ZomeCalls]
    BY <1>1, <1>t, CallMoves DEF ZomeCall, ConductorTypeOK
  <2>3. Hopeful(a) \in BOOLEAN BY DEF Hopeful
  <2>4. ConductorTypeOK'
    <3>1. zome'[c] \in ZomeCalls BY <2>2, <2>3, CallFacts DEF ZomeCalls
    <3>2. QED BY <1>t, <2>1, <2>2, <3>1 DEF ConductorTypeOK
  <2>5. Hopeful(a) => Prospects(c)'
    <3> SUFFICES ASSUME Hopeful(a) PROVE Prospects(c)'
      OBVIOUS
    <3>1. ASSUME NEW d \in Calls, Active(d)' PROVE zome'[d].born = life
      BY <2>2, <3>1 DEF Hopeful, Active
    <3>2. QED BY <2>1, <2>2, <3>1 DEF Prospects, Hopeful, Fresh
  <2>6. writer # c BY <2>1, CallFacts
  <2>7. NoSocket <= life /\ life <= life BY CallFacts
  <2>8. QED BY <2>1, <2>2, <2>4, <2>5, <2>6, <2>7, CallStepIInv
<1>2. CASE DropCall(c)
  <2>1. /\ writer' = IF writer = c THEN NoCall ELSE writer
        /\ UNCHANGED <<handle, app_info_cache, connections, life, up, enabled>>
    BY <1>2 DEF DropCall
  <2>2. /\ zome'[c] = NoZomeCall
        /\ \A d \in Calls \ {c} : zome'[d] = zome[d]
        /\ zome'[c] \in ZomeCalls => zome' \in [Calls -> ZomeCalls]
    BY <1>2, <1>t, CallMoves DEF DropCall, ConductorTypeOK
  <2>3. ConductorTypeOK'
    <3>1. zome'[c] \in ZomeCalls BY <2>2, CallFacts DEF ZomeCalls, NoZomeCall, Ended
    <3>2. QED BY <1>t, <2>1, <2>2, <3>1 DEF ConductorTypeOK
  <2>4. writer' # c /\ \A d \in Calls \ {c} : writer' = d <=> writer = d
    BY <2>1, ConductorAssumption
  <2>5. /\ zome'[c].pc = "idle" /\ zome'[c].ws = -1 /\ zome'[c].born = 0
        /\ zome'[c].steady = FALSE
    BY <2>2 DEF NoZomeCall, Ended, NoSocket
  <2>6. QED BY <2>1, <2>2, <2>3, <2>4, <2>5, CallFacts, CallStepIInv
<1>3. QED BY <1>1, <1>2

\* The conductor goes down, comes up, enables or disables an app: what a call
\* could count on is gone only for calls that lose their hope.
LEMMA ConductorStepIInv ==
  ASSUME ConductorIInv,
         GoesDown \/ ComesUp \/ \E a \in Apps : EnableApp(a) \/ DisableApp(a)
  PROVE  ConductorIInv'
<1>t. ConductorTypeOK /\ zome \in [Calls -> ZomeCalls] /\ life \in 0..MaxRestarts
      /\ MaxRestarts \in Nat /\ NoSocket = -1
  BY ConductorAssumption DEF ConductorIInv, ConductorTypeOK, NoSocket
<1>1. UNCHANGED <<handle, app_info_cache, connections, writer>>
  BY DEF GoesDown, ComesUp, EnableApp, DisableApp
<1>2. /\ zome' \in [Calls -> ZomeCalls]
      /\ \A c \in Calls :
            /\ zome'[c].pc = zome[c].pc /\ zome'[c].app = zome[c].app
            /\ zome'[c].ws = zome[c].ws /\ zome'[c].tries = zome[c].tries
            /\ zome'[c].apps = zome[c].apps /\ zome'[c].status = zome[c].status
            /\ zome'[c].born = zome[c].born
            /\ zome'[c].steady => zome[c].steady
  BY <1>t, UnsteadyKeeps DEF GoesDown, ComesUp, EnableApp, DisableApp
<1>3. ConductorTypeOK'
  <2>1. life' = life \/ (life < MaxRestarts /\ life' = life + 1)
    BY DEF GoesDown, ComesUp, EnableApp, DisableApp
  <2>2. life' \in 0..MaxRestarts BY <1>t, <2>1
  <2>3. up' \in BOOLEAN
    BY <1>t DEF ConductorTypeOK, GoesDown, ComesUp, EnableApp, DisableApp
  <2>4. enabled' \subseteq Apps
    BY <1>t DEF ConductorTypeOK, GoesDown, ComesUp, EnableApp, DisableApp
  <2>5. QED BY <1>t, <1>1, <1>2, <2>2, <2>3, <2>4 DEF ConductorTypeOK
<1>4. LockIsHeld'
  BY <1>1, <1>2 DEF ConductorIInv, LockIsHeld, Active
<1>5. SocketsAreOld'
  <2>1. CASE life' = life
    BY <1>1, <1>2, <2>1 DEF ConductorIInv, SocketsAreOld, Fresh
  <2>2. CASE life' # life
    <3>1. life' = life + 1 BY <2>2 DEF GoesDown, ComesUp, EnableApp, DisableApp
    <3>2. /\ handle \in Int /\ handle <= life
          /\ \A a \in Apps : connections[a] \in Int /\ connections[a] <= life
      BY <1>t DEF ConductorTypeOK, Sockets, ConductorIInv, SocketsAreOld
    <3>3. ASSUME NEW c \in Calls
          PROVE  /\ zome[c].ws \in Int /\ zome[c].ws <= life
                 /\ zome[c].born \in Nat /\ zome[c].born <= life
      BY CallFacts
    <3>4. life \in Int BY <1>t
    <3>5. QED BY <1>1, <1>2, <3>1, <3>2, <3>3, <3>4 DEF SocketsAreOld
  <2>3. QED BY <2>1, <2>2
<1>6. HopeIsFounded'
  <2> SUFFICES ASSUME NEW c \in Calls, zome'[c].steady, Active(c)' PROVE Prospects(c)'
    BY DEF HopeIsFounded
  <2>1. zome[c].steady /\ Active(c) BY <1>2 DEF Active
  <2>2. Prospects(c) BY <2>1 DEF ConductorIInv, HopeIsFounded
  <2>3. life' = life /\ up' = up /\ zome[c].app \in enabled'
    <3>1. CASE GoesDown BY <1>t, <3>1, UnsteadyKeeps DEF GoesDown
    <3>2. CASE ComesUp BY <2>2, <3>2 DEF ComesUp, Prospects
    <3>3. ASSUME NEW a \in Apps, EnableApp(a) PROVE life' = life /\ up' = up /\ zome[c].app \in enabled'
      BY <2>2, <3>3 DEF EnableApp, Prospects
    <3>4. ASSUME NEW a \in Apps, DisableApp(a) PROVE life' = life /\ up' = up /\ zome[c].app \in enabled'
      <4>1. a # zome[c].app BY <1>t, <3>4, UnsteadyKeeps DEF DisableApp
      <4>2. QED BY <2>2, <3>4, <4>1 DEF DisableApp, Prospects
    <3>5. QED BY <3>1, <3>2, <3>3, <3>4
  <2>4. QED BY <1>1, <1>2, <2>2, <2>3 DEF Prospects, Active, Fresh
<1>7. HopefulCallsSucceed'
  BY <1>2 DEF ConductorIInv, HopefulCallsSucceed
<1>8. QED BY <1>3, <1>4, <1>5, <1>6, <1>7 DEF ConductorIInv

\* The initial state satisfies the invariant.
LEMMA ConductorInitIInv == ConductorInit => ConductorIInv
<1> SUFFICES ASSUME ConductorInit PROVE ConductorIInv
  OBVIOUS
<1>1. MaxRestarts \in Nat /\ NoSocket = -1 /\ NoSocket \in Sockets /\ 0 \in 0..MaxRestarts
  BY ConductorAssumption DEF NoSocket, Sockets
<1>2. ASSUME NEW c \in Calls
      PROVE  /\ zome[c] \in ZomeCalls
             /\ zome[c].pc = "idle" /\ zome[c].ws = -1 /\ zome[c].born = 0
             /\ writer # c
  BY <1>1, ConductorAssumption DEF ConductorInit, NoZomeCall, Ended, ZomeCalls
<1>3. ConductorTypeOK
  <2>1. zome \in [Calls -> ZomeCalls] BY <1>2 DEF ConductorInit
  <2>2. QED BY <1>1, <2>1 DEF ConductorInit, ConductorTypeOK
<1>4. QED
  BY <1>1, <1>2, <1>3 DEF ConductorInit, ConductorIInv, LockIsHeld, SocketsAreOld,
     HopeIsFounded, HopefulCallsSucceed, Active, Fresh

\* Every step of Conductor keeps it.
LEMMA ConductorNextIInv == ConductorIInv /\ ConductorNext => ConductorIInv'
  BY FindIInv, AdminIInv, GetIInv, ConnectIInv, BeginAndEndIInv, ConductorStepIInv
  DEF ConductorNext, ConnectApp

-----------------------------------------------------------------------------
\* The process

ServiceIInv == RegistrationIInv /\ ReportsIInv /\ PreflightIInv /\ ConductorIInv

\* The parts share no variable, so each keeps what is said of the others.
LEMMA UnchangedParts ==
  /\ RegistrationIInv /\ UNCHANGED regVars => RegistrationIInv'
  /\ ReportsIInv /\ UNCHANGED reportVars => ReportsIInv'
  /\ PreflightIInv /\ UNCHANGED preflightVars => PreflightIInv'
  /\ ConductorIInv /\ UNCHANGED conductorVars => ConductorIInv'
<1>1. RegistrationIInv /\ UNCHANGED regVars => RegistrationIInv'
  BY DEF regVars, clientVars, serviceVars, RegistrationIInv, RegistrationTypeOK, SignOffInv,
     DeadlineInv, SignedOffMeansGone, ExitWaitsForClient
<1>2. ReportsIInv /\ UNCHANGED reportVars => ReportsIInv'
  BY DEF reportVars, ReportsIInv, LinkerReportTypeOK, ReportsAddUp
<1>3. PreflightIInv /\ UNCHANGED preflightVars => PreflightIInv'
  BY DEF preflightVars, PreflightIInv, PreflightTypeOK, Busy
<1>4. ConductorIInv /\ UNCHANGED conductorVars => ConductorIInv'
  BY DEF conductorVars, ConductorIInv, ConductorTypeOK, LockIsHeld, SocketsAreOld,
     HopeIsFounded, HopefulCallsSucceed, Prospects, Active, Fresh
<1>5. QED BY <1>1, <1>2, <1>3, <1>4

\* Every step of the process keeps the invariant.
LEMMA ServiceNextIInv == ServiceIInv /\ [Next]_vars => ServiceIInv'
<1> SUFFICES ASSUME ServiceIInv, [Next]_vars PROVE ServiceIInv'
  OBVIOUS
<1> USE UnchangedParts DEF ServiceIInv
<1>1. CASE ProcessStep(RegistrationNext /\ UNCHANGED reportVars)
  BY <1>1, RegistrationNextIInv DEF ProcessStep
<1>2. CASE ProcessStep(Running /\ (\E s \in Spaces : FetchedOp(s)) /\ UNCHANGED regVars)
  BY <1>2, ReportNextIInv DEF ProcessStep
<1>3. CASE ProcessStep(Running /\ ReportStep /\ UNCHANGED regVars)
  BY <1>3, ReportNextIInv DEF ProcessStep
<1>4. CASE PreflightNext /\ UNCHANGED <<regVars, reportVars, conductorVars>>
  BY <1>4, PreflightNextIInv
<1>5. CASE ConductorNext /\ UNCHANGED <<regVars, reportVars, preflightVars>>
  BY <1>5, ConductorNextIInv
<1>6. CASE UNCHANGED <<regVars, reportVars, preflightVars, conductorVars>>
  BY <1>6
<1>7. QED BY <1>1, <1>2, <1>3, <1>4, <1>5, <1>6 DEF Next, vars

\* The inductive invariant holds in every reachable state.
THEOREM ServiceInductive == Spec => []ServiceIInv
<1>1. Init => ServiceIInv
  BY RegistrationInitIInv, ReportInitIInv, PreflightInitIInv, ConductorInitIInv
  DEF Init, ServiceIInv
<1>2. QED BY <1>1, ServiceNextIInv, PTL DEF Spec

\* The state of the process keeps its types.
THEOREM TypeCorrect ==
  Spec => [](RegistrationTypeOK /\ LinkerReportTypeOK /\ PreflightTypeOK /\ ConductorTypeOK)
<1>1. ServiceIInv => RegistrationTypeOK /\ LinkerReportTypeOK /\ PreflightTypeOK /\ ConductorTypeOK
  BY DEF ServiceIInv, RegistrationIInv, ReportsIInv, PreflightIInv, ConductorIInv
<1>2. QED BY <1>1, ServiceInductive, PTL

\* After an answered DELETE the joining service does not list the linker,
\* unless a heartbeat it sent while unregistered was ever abandoned.
THEOREM SignOffIsFinal == Spec => []SignedOffMeansGone
<1>1. ServiceIInv => SignedOffMeansGone
  BY DEF ServiceIInv, RegistrationIInv, SignOffInv
<1>2. QED BY <1>1, ServiceInductive, PTL

\* For all timeouts, as long as that of the sign-off is the shorter one, run()
\* does not return while the client is signing off.
THEOREM ShutdownWaits == Spec => []ExitWaitsForClient
<1>1. ServiceIInv => ExitWaitsForClient
  BY DEF ServiceIInv, RegistrationIInv, DeadlineInv
<1>2. QED BY <1>1, ServiceInductive, PTL

\* No fetched op is counted twice, under another space, or lost unnoticed.
THEOREM ReportsAreExact == Spec => []ReportsAddUp
<1>1. ServiceIInv => ReportsAddUp
  BY DEF ServiceIInv, ReportsIInv
<1>2. QED BY <1>1, ServiceInductive, PTL

\* An info whose put overlapped no other stays in the preflight message.
THEOREM LonePutsAreKept == Spec => []LoneInfosArePresented
<1>1. ServiceIInv => LoneInfosArePresented
  BY DEF ServiceIInv, PreflightIInv, LoneInfosArePresented
<1>2. QED BY <1>1, ServiceInductive, PTL

\* Whichever calls connect, fail or are dropped on the way, a call owns a newly
\* opened connection to an app only while there is no other one: no connection
\* that calls are using is ever replaced.
THEOREM OneConnection == Spec => []OneConnectionPerApp
<1>1. ASSUME ServiceIInv, NEW a \in Apps, NEW c \in Opening(a)
      PROVE  connections[a] = NoSocket /\ Opening(a) = {c}
  <2>1. c \in Calls /\ zome[c].app = a /\ writer = c
    BY <1>1 DEF Opening, ServiceIInv, ConductorIInv, LockIsHeld
  <2>2. connections[a] = NoSocket
    BY <1>1, <2>1 DEF ServiceIInv, ConductorIInv, LockIsHeld
  <2>3. \A d \in Opening(a) : d = c
    BY <1>1, <2>1 DEF Opening, ServiceIInv, ConductorIInv, LockIsHeld
  <2>4. QED BY <1>1, <2>2, <2>3
<1>2. ServiceIInv => OneConnectionPerApp
  BY <1>1 DEF OneConnectionPerApp
<1>3. QED BY <1>2, ServiceInductive, PTL

\* A call that began with nothing broken that it will use succeeds if the
\* conductor stays up with its app enabled, whatever other calls do to the
\* admin connection, the cache and the lock meanwhile; calls that began before
\* the last restart must have ended when it began.
THEOREM HopeIsKept == Spec => []HopefulCallsSucceed
<1>1. ServiceIInv => HopefulCallsSucceed
  BY DEF ServiceIInv, ConductorIInv
<1>2. QED BY <1>1, ServiceInductive, PTL
=============================================================================
