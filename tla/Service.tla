------------------------------ MODULE Service -------------------------------
(***************************************************************************)
(* What the linker process keeps beside its space and its sessions: the    *)
(* registration client, the reports of fetched ops, the preflight cache    *)
(* and the connections to a conductor.  The reports end with the process:  *)
(* what is still in the channel when it exits is gone.  The preflight      *)
(* cache and the conductor connections share no state with the others, so  *)
(* their steps are not interleaved with theirs: busy, which never changes, *)
(* says which side is at work.                                             *)
(***************************************************************************)
EXTENDS Registration, LinkerReport, Preflight, Conductor

VARIABLE busy

vars == <<regVars, reportVars, preflightVars, conductorVars, busy>>

Init ==
    /\ RegistrationInit /\ LinkerReportInit /\ PreflightInit /\ ConductorInit
    /\ busy \in {"process", "preflight", "conductor"}

ProcessStep(A) == busy = "process" /\ A /\ UNCHANGED <<preflightVars, conductorVars, busy>>

Next ==
    \/ ProcessStep(RegistrationNext /\ UNCHANGED reportVars)
    \/ ProcessStep(Running /\ (\E s \in Spaces : FetchedOp(s)) /\ UNCHANGED regVars)
    \/ ProcessStep(Running /\ ReportStep /\ UNCHANGED regVars)
    \/ /\ busy = "preflight" /\ PreflightNext
       /\ UNCHANGED <<regVars, reportVars, conductorVars, busy>>
    \/ /\ busy = "conductor" /\ ConductorNext
       /\ UNCHANGED <<regVars, reportVars, preflightVars, busy>>

\* tokio runs the client when it is ready; a request is answered, or its
\* timeout ends it.
Fairness ==
    /\ WF_vars(ProcessStep(ClientStep /\ UNCHANGED reportVars))
    /\ WF_vars(ProcessStep(ServerStep /\ UNCHANGED reportVars))

Spec == Init /\ [][Next]_vars /\ Fairness
=============================================================================
