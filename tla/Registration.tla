---------------------------- MODULE Registration ----------------------------
(***************************************************************************)
(* The registration client of src/registration.rs, which keeps the linker  *)
(* listed at the joining service, and the shutdown of src/service.rs that  *)
(* waits for it to sign off.                                               *)
(*                                                                         *)
(* The joining service is external: a heartbeat with the admin secret      *)
(* creates the entry, one without it renews an entry that exists, DELETE   *)
(* removes it; the entry may also expire or be lost.  A request whose      *)
(* caller gave up (a timeout, or the select of the loop dropped it) may    *)
(* still arrive (a late heartbeat without the secret changes nothing and   *)
(* is left out).  Time matters only during the shutdown.                   *)
(***************************************************************************)
EXTENDS Naturals

CONSTANTS DeregisterTimeout,   \* 3 s, in ticks
          ShutdownTimeout      \* 5 s, in ticks

ASSUME RegistrationAssumption ==
    /\ DeregisterTimeout \in Nat /\ ShutdownTimeout \in Nat
    /\ DeregisterTimeout < ShutdownTimeout

VARIABLES client,          \* where run() stands
          is_registered,
          call,            \* the request it awaits
          shutdown,        \* the watch channel
          service,         \* where LinkerService::run stands
          left,            \* ticks left to deregister
          grace,           \* ticks left to wait for the client
          entry,           \* external: the joining service lists the linker
          stray,           \* external: requests nobody awaits that may arrive
          calm,            \* external: nothing goes wrong any more
          unclaimed,       \* history: a heartbeat of an unregistered client was ever given up
          signedOff        \* history: DELETE was answered with success

clientVars == <<client, is_registered, call, left>>
serviceVars == <<service, grace>>
regVars == <<clientVars, serviceVars, shutdown, entry, stray, calm, unclaimed, signedOff>>

RegistrationTypeOK ==
    /\ client \in {"sleep", "heartbeat", "deregister", "stopped"}
    /\ is_registered \in BOOLEAN
    /\ call \in {"none", "flying", "ok", "rejected"}
    /\ shutdown \in BOOLEAN
    /\ service \in {"starting", "serving", "waiting", "exited", "failed"}
    /\ left \in 0..DeregisterTimeout
    /\ grace \in 0..ShutdownTimeout
    /\ entry \in BOOLEAN
    /\ stray \subseteq {"first", "delete"}
    /\ calm \in BOOLEAN /\ unclaimed \in BOOLEAN /\ signedOff \in BOOLEAN

\* RegistrationClient::new; run() starts with a heartbeat.
RegistrationInit ==
    /\ client = "sleep" /\ is_registered = FALSE /\ call = "none"
    /\ shutdown = FALSE
    /\ service = "starting"
    /\ left = 0 /\ grace = ShutdownTimeout
    /\ entry = FALSE /\ stray = {} /\ calm = FALSE
    /\ unclaimed = FALSE /\ signedOff = FALSE

Running == service \notin {"exited", "failed"}

-----------------------------------------------------------------------------
\* The heartbeat

\* Faulty: the secret goes with every heartbeat.
HeartbeatAlwaysFirst == "first"

\* is_first: the secret goes along unless the last heartbeat succeeded.
Heartbeat == IF is_registered THEN "renew" ELSE "first"

\* The kind of the request that is awaited.
Current == IF client = "deregister" THEN "delete" ELSE Heartbeat

\* The caller gives up on what it awaits.
Abandon ==
    IF call = "flying"
    THEN /\ stray' = stray \cup ({Current} \ {"renew"})
         /\ unclaimed' = (unclaimed \/ (client = "heartbeat" /\ ~is_registered))
    ELSE UNCHANGED <<stray, unclaimed>>

\* The interval is over.
SendHeartbeat ==
    /\ Running /\ client = "sleep"
    /\ client' = "heartbeat"
    /\ call' = "flying"
    /\ UNCHANGED <<is_registered, left, serviceVars, shutdown, entry, stray, calm,
                   unclaimed, signedOff>>

HeartbeatOk ==
    /\ Running /\ client = "heartbeat" /\ call = "ok"
    /\ client' = "sleep" /\ call' = "none"
    /\ is_registered' = TRUE
    /\ UNCHANGED <<left, serviceVars, shutdown, entry, stray, calm, unclaimed, signedOff>>

\* Faulty: a failed heartbeat leaves is_registered alone.
HeartbeatFailsQuietly ==
    /\ Running /\ client = "heartbeat"
    /\ call = "rejected" \/ ~calm
    /\ client' = "sleep" /\ call' = "none"
    /\ Abandon
    /\ UNCHANGED <<is_registered, left, serviceVars, shutdown, entry, calm, signedOff>>

\* Any error: it is rejected, it times out, the response can not be read or
\* says registered = false.
HeartbeatFails ==
    /\ Running /\ client = "heartbeat"
    /\ call = "rejected" \/ ~calm
    /\ client' = "sleep" /\ call' = "none"
    /\ is_registered' = FALSE
    /\ Abandon
    /\ UNCHANGED <<left, serviceVars, shutdown, entry, calm, signedOff>>

-----------------------------------------------------------------------------
\* LinkerService::run

\* The client is started before the address is bound.
Bind ==
    /\ service = "starting"
    /\ service' = "serving"
    /\ UNCHANGED <<clientVars, grace, shutdown, entry, stray, calm, unclaimed, signedOff>>

\* run returns the error at once, and the client goes with the process.
BindFails ==
    /\ service = "starting"
    /\ service' = "failed"
    /\ Abandon
    /\ UNCHANGED <<clientVars, grace, shutdown, entry, calm, signedOff>>

Shutdown ==
    /\ ~shutdown
    /\ shutdown' = TRUE
    /\ UNCHANGED <<clientVars, serviceVars, entry, stray, calm, unclaimed, signedOff>>

\* Faulty: only the timeout of the HTTP client, 30 s, ends the DELETE.
DeregisterWithinLong == ShutdownTimeout + 1

DeregisterWithin == DeregisterTimeout

\* Either select takes the shutdown branch: the heartbeat is dropped, and
\* handle_shutdown skips the DELETE unless the last heartbeat succeeded.
HandleShutdown ==
    /\ Running /\ shutdown /\ client \in {"sleep", "heartbeat"}
    /\ client' = IF is_registered THEN "deregister" ELSE "stopped"
    /\ call' = IF is_registered THEN "flying" ELSE "none"
    /\ left' = DeregisterWithin
    /\ Abandon
    /\ UNCHANGED <<is_registered, serviceVars, shutdown, entry, calm, signedOff>>

\* deregister returns: an Ok, an Err, or the timeout of handle_shutdown.
DeregisterOk ==
    /\ Running /\ client = "deregister" /\ call = "ok"
    /\ client' = "stopped" /\ call' = "none"
    /\ signedOff' = TRUE
    /\ UNCHANGED <<is_registered, left, serviceVars, shutdown, entry, stray, calm,
                   unclaimed>>

DeregisterFails ==
    /\ Running /\ client = "deregister"
    /\ call = "rejected" \/ ~calm
    /\ client' = "stopped" /\ call' = "none"
    /\ Abandon
    /\ UNCHANGED <<is_registered, left, serviceVars, shutdown, entry, calm, signedOff>>

DeregisterTimesOut ==
    /\ Running /\ client = "deregister" /\ left = 0
    /\ client' = "stopped" /\ call' = "none"
    /\ Abandon
    /\ UNCHANGED <<is_registered, left, serviceVars, shutdown, entry, calm, signedOff>>

\* axum has let its connections finish.
Drained ==
    /\ service = "serving" /\ shutdown
    /\ service' = "waiting"
    /\ UNCHANGED <<clientVars, grace, shutdown, entry, stray, calm, unclaimed, signedOff>>

\* The registration task has ended, or the wait for it is over; with the
\* process goes a client that still runs.
Exit ==
    /\ service = "waiting" /\ (client = "stopped" \/ grace = 0)
    /\ service' = "exited"
    /\ Abandon
    /\ UNCHANGED <<clientVars, grace, shutdown, entry, calm, signedOff>>

\* Time passes while a deadline runs; a task that can go on does so first.
Tick ==
    /\ Running
    /\ client = "deregister" \/ service = "waiting"
    /\ ~(shutdown /\ client \in {"sleep", "heartbeat"})
    /\ ~(client = "deregister" /\ left = 0)
    /\ service = "waiting" => client # "stopped" /\ grace > 0
    /\ left' = IF client = "deregister" THEN left - 1 ELSE left
    /\ grace' = IF service = "waiting" THEN grace - 1 ELSE grace
    /\ UNCHANGED <<client, is_registered, call, service, shutdown, entry, stray, calm,
                   unclaimed, signedOff>>

-----------------------------------------------------------------------------
\* The joining service (external)

Accepts(kind) == kind = "first" \/ entry
EntryAfter(kind) == IF kind = "delete" THEN FALSE ELSE entry \/ kind = "first"

ServerAccepts ==
    /\ call = "flying" /\ Running
    /\ Accepts(Current) \/ Current = "delete"
    /\ call' = "ok"
    /\ entry' = EntryAfter(Current)
    /\ UNCHANGED <<client, is_registered, left, serviceVars, shutdown, stray, calm,
                   unclaimed, signedOff>>

ServerRejects ==
    /\ call = "flying" /\ Running
    /\ ~calm \/ ~Accepts(Current)
    /\ call' = "rejected"
    /\ UNCHANGED <<client, is_registered, left, serviceVars, shutdown, entry, stray, calm,
                   unclaimed, signedOff>>

StrayArrives(kind) ==
    /\ kind \in stray
    /\ stray' = stray \ {kind}
    /\ entry' = EntryAfter(kind)
    /\ UNCHANGED <<clientVars, serviceVars, shutdown, calm, unclaimed, signedOff>>

StrayIsLost(kind) ==
    /\ kind \in stray
    /\ stray' = stray \ {kind}
    /\ UNCHANGED <<clientVars, serviceVars, shutdown, entry, calm, unclaimed, signedOff>>

EntryIsLost ==
    /\ ~calm /\ entry
    /\ entry' = FALSE
    /\ UNCHANGED <<clientVars, serviceVars, shutdown, stray, calm, unclaimed, signedOff>>

CalmDown ==
    /\ ~calm
    /\ calm' = TRUE
    /\ UNCHANGED <<clientVars, serviceVars, shutdown, entry, stray, unclaimed, signedOff>>

-----------------------------------------------------------------------------
ClientStep ==
    \/ SendHeartbeat \/ HeartbeatOk \/ HeartbeatFails
    \/ HandleShutdown \/ DeregisterOk \/ DeregisterFails \/ DeregisterTimesOut

ServerStep == ServerAccepts \/ ServerRejects

RegistrationNext ==
    \/ ClientStep \/ Bind \/ BindFails \/ Shutdown \/ Drained \/ Exit \/ Tick
    \/ ServerStep \/ EntryIsLost \/ CalmDown
    \/ \E kind \in {"first", "delete"} : StrayArrives(kind) \/ StrayIsLost(kind)

-----------------------------------------------------------------------------
\* Properties

\* The linker is not listed after it signed off, unless it ever gave up on a
\* heartbeat that it had sent while it was not registered: such a request may
\* arrive at any later time and list it again.
SignedOffMeansGone == signedOff /\ ~unclaimed => ~entry

\* An orderly shutdown does not end the process while the client is signing off.
ExitWaitsForClient == service = "exited" => client = "stopped"

\* A linker that was forgotten by the joining service is listed again once the
\* trouble is over: the loop falls back to a heartbeat with the secret.
ListedAgain == calm ~> (entry \/ shutdown \/ service = "failed")

-----------------------------------------------------------------------------
\* What makes the invariants inductive

\* Whoever awaits an answer is in a heartbeat or signing off; only a heartbeat
\* of an unregistered client can create an entry behind its back, so that none
\* is left when DELETE was answered.
SignOffInv ==
    /\ call # "none" => client \in {"heartbeat", "deregister"}
    /\ "first" \in stray => unclaimed
    /\ client = "deregister" /\ call = "ok" /\ ~unclaimed => ~entry
    /\ signedOff => client = "stopped"
    /\ SignedOffMeansGone

\* The wait of the service outlasts what is left of the sign-off, and does not
\* begin to run down before it.
DeadlineInv ==
    /\ service = "waiting" => shutdown
    /\ client \in {"sleep", "heartbeat"} => grace = ShutdownTimeout
    /\ client = "deregister" => left < grace
    /\ ExitWaitsForClient

RegistrationIInv == RegistrationTypeOK /\ SignOffInv /\ DeadlineInv
=============================================================================
