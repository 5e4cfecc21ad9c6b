-------------------------- MODULE IdempotencyRecords --------------------------
(***************************************************************************)
(* The rows of the table idempotency_records and the statements of         *)
(* repository/idempotency_repo.go, each of which is one SQL statement and   *)
(* so one atomic step.  The table has one row for one scope, actor and key; *)
(* the coordinator (Idempotency) and the lock of the administrator's system *)
(* operations (OperationLock) use one row each of the same table.           *)
(*                                                                         *)
(* An instant is a natural number.  A NULL locked_until is NoLock, which   *)
(* lies before every instant, so that "locked_until IS NULL OR              *)
(* locked_until <= now" is lock <= now.                                     *)
(***************************************************************************)
EXTENDS Integers

CONSTANTS
    ProcessingTimeout,  \* how long a claim or a lock lasts without renewal
    MaxTime             \* bound: the clock stops here

ASSUME TimesAssumption ==
    /\ ProcessingTimeout \in Nat \ {0}
    /\ MaxTime \in Nat

VARIABLE clock          \* time.Now() of every process (one clock)

NoLock == -1
Locks == Nat \cup {NoLock}
Statuses == {"processing", "succeeded", "failed_retryable"}

(* Rows over the fingerprints F and the stored responses R.  "none" is the  *)
(* status of the row that does not exist.                                   *)
Rows(F, R) ==
    [id : Nat, status : Statuses \cup {"none"}, fingerprint : F, lock : Locks,
     expires : Nat, response : R]

Absent(f, r) ==
    [id |-> 0, status |-> "none", fingerprint |-> f, lock |-> NoLock,
     expires |-> 0, response |-> r]

Exists(row) == row.status # "none"

(* CreateProcessing: INSERT ... ON CONFLICT DO NOTHING.  The caller tests   *)
(* that the row does not exist.                                             *)
Created(id, f, lock, expires, r) ==
    [id |-> id, status |-> "processing", fingerprint |-> f, lock |-> lock,
     expires |-> expires, response |-> r]

(* TryReclaim and TryReclaimOwned: which row they take, and what the row    *)
(* becomes.  The fingerprint is not written.                                *)
Reclaimable(row, id, from, now) ==
    /\ row.id = id
    /\ row.status = from
    /\ row.lock <= now

\* Mutant: the owner's lock and the status are not compared.
ReclaimableByLease(row, seen, now) ==
    /\ row.id = seen.id
    /\ row.fingerprint = seen.fingerprint
    /\ row.lock <= now

\* Mutant: neither status nor lock is tested.
ReclaimableById(row, seen, now) ==
    /\ row.id = seen.id
    /\ row.fingerprint = seen.fingerprint

ReclaimableOwned(row, seen, now) ==
    /\ Reclaimable(row, seen.id, seen.status, now)
    /\ row.fingerprint = seen.fingerprint
    /\ row.lock = seen.lock

Reclaimed(row, lock, expires) ==
    [row EXCEPT !.status = "processing", !.lock = lock, !.expires = expires]

(* ExtendProcessingLock. *)
Extendable(row, id, f) ==
    /\ row.id = id
    /\ row.status = "processing"
    /\ row.fingerprint = f

\* Mutant: only expires_at is extended.
ExtendedRowOnly(row, lock, expires) == [row EXCEPT !.expires = expires]

Extended(row, lock, expires) ==
    [row EXCEPT !.lock = lock, !.expires = expires]

(* MarkSucceeded and MarkFailedRetryable go by the id alone,                *)
(* PersistSuccess and MarkFailedRetryableOwned also by fingerprint and lock. *)
InProcess(row, id) ==
    /\ row.id = id
    /\ row.status = "processing"

InProcessOwned(row, id, f, lock) ==
    /\ InProcess(row, id)
    /\ row.fingerprint = f
    /\ row.lock = lock

Succeeded(row, r, expires) ==
    [row EXCEPT !.status = "succeeded", !.response = r, !.lock = NoLock,
                !.expires = expires]

FailedRetryable(row, lock, expires) ==
    [row EXCEPT !.status = "failed_retryable", !.lock = lock, !.expires = expires]

(* DeleteExpired takes a row of any status. *)
Sweepable(row, now) == Exists(row) /\ row.expires <= now

===============================================================================
