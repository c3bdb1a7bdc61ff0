---------------------------- MODULE TempOpStore -----------------------------
(***************************************************************************)
(* The temporary op store of src/temp_op_store.rs: the ops that browsers   *)
(* publish are kept for OP_TTL, so that the peers that are told of them    *)
(* can fetch them, and a task removes what is older every                  *)
(* CLEANUP_INTERVAL.  One map is shared by all spaces.                     *)
(*                                                                         *)
(* Time passes in ticks; a stamp is kept as the age it has by now.  A task *)
(* whose sleep is over runs before time goes on, and waiting for the lock  *)
(* of the map takes no time.                                               *)
(***************************************************************************)
EXTENDS Integers

CONSTANTS Ops,               \* op ids
          OP_TTL,            \* in ticks
          CLEANUP_INTERVAL   \* in ticks

ASSUME TempOpStoreAssumption ==
    OP_TTL \in Nat \ {0} /\ CLEANUP_INTERVAL \in Nat \ {0}

VARIABLES age,     \* of the record of each op in the map, or Absent
          sleep,   \* what is left of the sleep of the cleanup task
          since    \* history: time since the op was last stored, up to OP_TTL

storeVars == <<age, sleep, since>>

Absent == -1
Stored == {o \in Ops : age[o] # Absent}

TempOpStoreTypeOK ==
    /\ age \in [Ops -> -1..(OP_TTL + CLEANUP_INTERVAL)]
    /\ sleep \in 0..CLEANUP_INTERVAL
    /\ since \in [Ops -> 0..OP_TTL]

TempOpStoreInit ==
    /\ age = [o \in Ops |-> Absent]
    /\ sleep = CLEANUP_INTERVAL
    /\ since = [o \in Ops |-> OP_TTL]

-----------------------------------------------------------------------------
\* Faulty: a record that is there is left as it is.
StoreOpOnce(o) ==
    /\ age' = [age EXCEPT ![o] = IF @ = Absent THEN 0 ELSE @]
    /\ since' = [since EXCEPT ![o] = 0]
    /\ UNCHANGED sleep

\* TempOpStoreHandle::store_op: insert replaces the record and its stamp.
StoreOp(o) ==
    /\ age' = [age EXCEPT ![o] = 0]
    /\ since' = [since EXCEPT ![o] = 0]
    /\ UNCHANGED sleep

\* What peers get of the ops they ask for, and what kitsune2 is told it lacks;
\* neither removes anything.  The gossip methods of the store return nothing.
RetrieveOps(ids) == ids \cap Stored
FilterOutExistingOps(ids) == ids \ Stored

\* Faulty: a record as old as OP_TTL is kept.
RetainTooLong(o) == age[o] <= OP_TTL

\* TempOpStoreInner::cleanup_expired
Retain(o) == age[o] < OP_TTL

\* Faulty: the task ends after its first round.
CleanupTaskEnds ==
    /\ sleep = 0
    /\ age' = [o \in Ops |-> IF Retain(o) THEN age[o] ELSE Absent]
    /\ sleep' = -1
    /\ UNCHANGED since

CleanupTask ==
    /\ sleep = 0
    /\ age' = [o \in Ops |-> IF Retain(o) THEN age[o] ELSE Absent]
    /\ sleep' = CLEANUP_INTERVAL
    /\ UNCHANGED since

\* Time passes (ages are capped where a record should be gone).
Tick ==
    /\ sleep # 0
    /\ sleep' = IF sleep > 0 THEN sleep - 1 ELSE sleep
    /\ age' = [o \in Ops |->
                 IF age[o] \in 0..(OP_TTL + CLEANUP_INTERVAL - 1) THEN age[o] + 1
                 ELSE age[o]]
    /\ since' = [o \in Ops |-> IF since[o] < OP_TTL THEN since[o] + 1 ELSE since[o]]
=============================================================================
