--------------------------- MODULE IdempotencyTable ---------------------------
(***************************************************************************)
(* The table idempotency_records with the record of a key and the row of    *)
(* the system operation lock: attempts and operations share the clock, and  *)
(* one sweep (idempotency_cleanup_service.go) deletes whatever has expired. *)
(***************************************************************************)
EXTENDS Idempotency, OperationLock

tableVars == <<clock, keyVars, lockVars>>

TableInit == clock = 0 /\ KeyInit /\ LockInit

CleanupOnce ==
    /\ DeleteExpired \/ SweepLock
    /\ DeleteExpired \/ (~Sweepable(row, clock) /\ UNCHANGED keyVars)
    /\ SweepLock \/ (~Sweepable(lockRow, clock) /\ UNCHANGED lockVars)
    /\ UNCHANGED clock

AttemptStep(a) == Attempt(a) /\ UNCHANGED <<clock, lockVars>>
OperationStep(o) == Operate(o) /\ UNCHANGED <<clock, keyVars>>
TimePasses == Tick /\ OnTime /\ UNCHANGED <<keyVars, lockVars>>

TableNext ==
    \/ \E a \in Attempts : AttemptStep(a)
    \/ \E o \in Operations : OperationStep(o)
    \/ CleanupOnce
    \/ TimePasses

TableSpec == TableInit /\ [][TableNext]_tableVars

===============================================================================
