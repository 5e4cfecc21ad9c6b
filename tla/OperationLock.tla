---------------------------- MODULE OperationLock ----------------------------
(***************************************************************************)
(* The lock that keeps the administrator's system operations (update,       *)
(* rollback, restart) apart: service/system_operation_lock_service.go, on   *)
(* one row of idempotency_records, as handler/admin/system_handler.go uses  *)
(* it.  An operation acquires the lock, runs, and releases it; a goroutine  *)
(* renews the lock meanwhile.                                               *)
(*                                                                         *)
(* The lock is a lease, so it can only hold if nobody sleeps through one.   *)
(* The model therefore lets no time pass while an operation is between the  *)
(* statements of Acquire or Release, or while a renewal is due: what goes   *)
(* wrong here goes wrong with every process on time.  An operation itself   *)
(* takes as long as it likes, and may die.                                  *)
(***************************************************************************)
EXTENDS IdempotencyRecords

CONSTANTS
    Operations,          \* calls of the handlers, each with its operation id
    NoOperation,
    SystemOperationTTL,  \* how long the row is kept
    RenewInterval,       \* the renewal ticker
    MaxErrors            \* bound: renewals in a row that a store error defeats

ASSUME LockAssumption ==
    /\ NoOperation \notin Operations
    /\ RenewInterval \in Nat \ {0}
    /\ MaxErrors \in Nat
    /\ RenewInterval * (MaxErrors + 1) < ProcessingTimeout
    /\ SystemOperationTTL \in Nat
    /\ ProcessingTimeout <= SystemOperationTTL

VARIABLES
    lockRow,    \* the row of the lock
    lastLockId, \* the id sequence, as this row sees it
    phase,      \* phase[o]: where operation o is
    recordID,   \* recordID[o]: the row o means to hold
    existing,   \* existing[o]: the row o has read in Acquire
    renewed,    \* renewed[o]: when o's ticker last fired
    missed,     \* missed[o]: renewals lost to store errors since the last good one
    renewing    \* the operations whose renewal goroutine runs

lockVars == <<lockRow, lastLockId, phase, recordID, existing, renewed, missed, renewing>>
allLockVars == <<clock, lockRow, lastLockId, phase, recordID, existing, renewed,
                 missed, renewing>>

LockRows == Rows(Operations \cup {NoOperation}, {"none", "result"})
NoLockRow == Absent(NoOperation, "none")

lease == clock + ProcessingTimeout
ttl == clock + SystemOperationTTL

LockInit ==
    /\ lockRow = NoLockRow
    /\ lastLockId = 0
    /\ phase = [o \in Operations |-> "idle"]
    /\ recordID = [o \in Operations |-> 0]
    /\ existing = [o \in Operations |-> NoLockRow]
    /\ renewed = [o \in Operations |-> 0]
    /\ missed = [o \in Operations |-> 0]
    /\ renewing = {}

Enter(o, p) == phase' = [phase EXCEPT ![o] = p]

(* Acquire returns the lock, starts the renewals, and the operation begins. *)
Start(o, id) ==
    /\ recordID' = [recordID EXCEPT ![o] = id]
    /\ renewed' = [renewed EXCEPT ![o] = clock]
    /\ renewing' = renewing \cup {o}
    /\ UNCHANGED missed
    /\ Enter(o, "running")

AcquireNew(o) ==
    /\ phase[o] = "idle"
    /\ \/ /\ ~Exists(lockRow)
          /\ lastLockId' = lastLockId + 1
          /\ lockRow' = Created(lastLockId + 1, o, lease, ttl, "none")
          /\ Start(o, lastLockId + 1)
       \/ /\ Exists(lockRow)
          /\ Enter(o, "get")
          /\ UNCHANGED <<lockRow, lastLockId, recordID, renewed, missed, renewing>>
    /\ UNCHANGED existing

AcquireGet(o) ==
    /\ phase[o] = "get"
    /\ existing' = [existing EXCEPT ![o] = lockRow]
    /\ Enter(o, IF \/ ~Exists(lockRow)
                   \/ lockRow.status = "processing" /\ lockRow.lock > clock
                THEN "over" ELSE "reclaim")
    /\ UNCHANGED <<lockRow, lastLockId, recordID, renewed, missed, renewing>>

(* TryReclaim goes by id, status and lock, and leaves the operation id of   *)
(* the row's first owner in place.                                          *)
AcquireReclaim(o) ==
    /\ phase[o] = "reclaim"
    /\ \/ /\ Reclaimable(lockRow, existing[o].id, existing[o].status, clock)
          /\ lockRow' = Reclaimed(lockRow, lease, ttl)
          /\ Start(o, lockRow.id)
       \/ /\ ~Reclaimable(lockRow, existing[o].id, existing[o].status, clock)
          /\ Enter(o, "over")
          /\ UNCHANGED <<lockRow, recordID, renewed, missed, renewing>>
    /\ UNCHANGED <<lastLockId, existing>>

(* One round of renewLoop: an update that matches no row ends the loop, a   *)
(* store error does not.                                                    *)
Renew(o) ==
    /\ o \in renewing
    /\ clock >= renewed[o] + RenewInterval
    /\ \/ /\ Extendable(lockRow, recordID[o], o)
          /\ lockRow' = Extended(lockRow, lease, ttl)
          /\ renewed' = [renewed EXCEPT ![o] = clock]
          /\ missed' = [missed EXCEPT ![o] = 0]
          /\ renewing' = IF phase[o] = "running" THEN renewing ELSE renewing \ {o}
       \/ /\ ~Extendable(lockRow, recordID[o], o)
          /\ renewing' = renewing \ {o}
          /\ UNCHANGED <<lockRow, renewed, missed>>
       \/ /\ missed[o] < MaxErrors
          /\ renewed' = [renewed EXCEPT ![o] = clock]
          /\ missed' = [missed EXCEPT ![o] = @ + 1]
          /\ renewing' = IF phase[o] = "running" THEN renewing ELSE renewing \ {o}
          /\ UNCHANGED lockRow
    /\ UNCHANGED <<lastLockId, phase, recordID, existing>>

(* Release stops the renewals, then writes the row by its id; the handler   *)
(* ignores an error.  A renewal that is under way still reaches the row.    *)
StopRenewing(o) ==
    /\ phase[o] = "running"
    /\ \/ renewing' = renewing \ {o}
       \/ clock >= renewed[o] + RenewInterval /\ renewing' = renewing
    /\ Enter(o, "releasing")
    /\ UNCHANGED <<lockRow, lastLockId, recordID, existing, renewed, missed>>

Release(o) ==
    /\ phase[o] = "releasing"
    /\ \/ /\ InProcess(lockRow, recordID[o])
          /\ \/ lockRow' = Succeeded(lockRow, "result", ttl)
             \/ lockRow' = FailedRetryable(lockRow, clock, ttl)
       \/ /\ ~InProcess(lockRow, recordID[o])
          /\ UNCHANGED lockRow
    /\ Enter(o, "over")
    /\ UNCHANGED <<lastLockId, recordID, existing, renewed, missed, renewing>>

(* The process dies, and its renewals with it; between two statements of    *)
(* Acquire or Release this is also a store error.                           *)
Die(o) ==
    /\ phase[o] \in {"get", "reclaim", "running", "releasing"}
    /\ renewing' = renewing \ {o}
    /\ Enter(o, "over")
    /\ UNCHANGED <<lockRow, lastLockId, recordID, existing, renewed, missed>>

SweepLock ==
    /\ Sweepable(lockRow, clock)
    /\ lockRow' = NoLockRow
    /\ UNCHANGED <<lastLockId, phase, recordID, existing, renewed, missed, renewing>>

Operate(o) ==
    \/ AcquireNew(o) \/ AcquireGet(o) \/ AcquireReclaim(o) \/ Renew(o)
    \/ StopRenewing(o) \/ Release(o) \/ Die(o)

OnTime ==
    /\ \A o \in Operations : phase[o] \notin {"get", "reclaim", "releasing"}
    /\ \A o \in renewing : clock < renewed[o] + RenewInterval

LockTick ==
    /\ clock < MaxTime
    /\ OnTime
    /\ clock' = clock + 1

LockNext ==
    \/ (SweepLock \/ \E o \in Operations : Operate(o)) /\ clock' = clock
    \/ LockTick /\ UNCHANGED lockVars

LockSpec == clock = 0 /\ LockInit /\ [][LockNext]_allLockVars

-------------------------------------------------------------------------------
LockTypeOK ==
    /\ clock \in Nat
    /\ lastLockId \in Nat
    /\ lockRow \in LockRows /\ lockRow.id <= lastLockId
    /\ phase \in [Operations -> {"idle", "get", "reclaim", "running", "releasing", "over"}]
    /\ recordID \in [Operations -> Nat]
    /\ \A o \in Operations : recordID[o] <= lastLockId
    /\ existing \in [Operations -> LockRows]
    /\ renewed \in [Operations -> Nat]
    /\ \A o \in Operations : renewed[o] <= clock
    /\ missed \in [Operations -> 0..MaxErrors]
    /\ renewing \subseteq Operations

Running(o) == phase[o] \in {"running", "releasing"}

(* An operation that created the row renews it for as long as it runs, and  *)
(* then nobody else gets the lock while it runs: the row is still its own   *)
(* and has not run out.                                                     *)
Renewable(o) == phase[o] = "running" /\ o \in renewing /\ lockRow.fingerprint = o

RenewedLockHolds ==
    [][ \A o \in Operations : Renewable(o) =>
            \A p \in Operations : ~Running(p) => ~Running(p)' ]_allLockVars

(* Two system operations never run at the same time ("another system        *)
(* operation is in progress", system_operation_lock_service.go:21).         *)
OneOperation == \A o, p \in Operations : Running(o) /\ Running(p) => o = p

===============================================================================
