---------------------------- MODULE LinkerReport ----------------------------
(***************************************************************************)
(* The fetched-op reports of src/linker_report.rs: kitsune2 reports every  *)
(* op it fetched into a bounded channel, without waiting, and a task       *)
(* drains it at intervals and writes one signed entry per space.           *)
(***************************************************************************)
EXTENDS Naturals, FiniteSetsExt

CONSTANTS Spaces,
          QueueCapacity,   \* 4096 in the code
          MaxFetched       \* bound: ops fetched per space

ASSUME LinkerReportAssumption == QueueCapacity \in Nat /\ MaxFetched \in Nat

VARIABLES queue,     \* commands in the channel, per space
          batch,     \* fetched_ops: what process_reports has taken out
          written,   \* op_count of the entries written, summed per space
          fetched,   \* history: calls of fetched_op
          dropped    \* history: those lost at a full channel or a failed write

reportVars == <<queue, batch, written, fetched, dropped>>

Counts == [Spaces -> 0..MaxFetched]
Zero == [s \in Spaces |-> 0]
Queued == MapThenSumSet(LAMBDA s : queue[s], Spaces)

LinkerReportTypeOK ==
    /\ queue \in Counts
    /\ batch \in Counts /\ written \in Counts /\ fetched \in Counts /\ dropped \in Counts

LinkerReportInit ==
    queue = Zero /\ batch = Zero /\ written = Zero /\ fetched = Zero /\ dropped = Zero

-----------------------------------------------------------------------------
\* fetched_op: try_send fails when the channel is full.
FetchedOp(s) ==
    /\ fetched[s] < MaxFetched
    /\ fetched' = [fetched EXCEPT ![s] = @ + 1]
    /\ IF Queued < QueueCapacity
       THEN queue' = [queue EXCEPT ![s] = @ + 1] /\ UNCHANGED dropped
       ELSE dropped' = [dropped EXCEPT ![s] = @ + 1] /\ UNCHANGED queue
    /\ UNCHANGED <<batch, written>>

\* One round of the loop in process_reports: try_recv and the sum of its
\* space.  The channel is drained while fetched_op goes on.
ProcessCmd(s) ==
    /\ queue[s] > 0
    /\ queue' = [queue EXCEPT ![s] = @ - 1]
    /\ batch' = [batch EXCEPT ![s] = @ + 1]
    /\ UNCHANGED <<written, fetched, dropped>>

\* Faulty: the round ends after the first entry.
WriteReportsOne(kept) ==
    /\ \E s \in kept :
          /\ batch[s] > 0
          /\ written' = [written EXCEPT ![s] = @ + batch[s]]
    /\ batch' = Zero
    /\ UNCHANGED <<queue, fetched, dropped>>

\* The channel was found empty, and may hold more by now: an entry per space
\* is signed and written; one that can not be written is gone.
WriteReports(kept) ==
    /\ batch # Zero
    /\ written' = [s \in Spaces |-> written[s] + IF s \in kept THEN batch[s] ELSE 0]
    /\ dropped' = [s \in Spaces |-> dropped[s] + IF s \in kept THEN 0 ELSE batch[s]]
    /\ batch' = Zero
    /\ UNCHANGED <<queue, fetched>>

ReportStep ==
    \/ \E s \in Spaces : ProcessCmd(s)
    \/ \E kept \in SUBSET Spaces : WriteReports(kept)

-----------------------------------------------------------------------------
\* Properties

\* Every fetched op is reported exactly once under its own space, or is still
\* under way, or was dropped at a full channel or with an entry that could not
\* be written; an op fetched while the channel is drained is not lost.
ReportsAddUp ==
    \A s \in Spaces : fetched[s] = written[s] + batch[s] + queue[s] + dropped[s]
=============================================================================
