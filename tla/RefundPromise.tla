----------------------------- MODULE RefundPromise -----------------------------
(***************************************************************************)
(* What a refund promises the buyer and the operator: money goes back only *)
(* while the order is in refund, at most once for each order, and an order *)
(* ends as refunded if and only if it did; otherwise the refund is called  *)
(* off and the order is as it was.  The promise ends for an order of which *)
(* the provider said what was not so.  PaymentRefund implements it.        *)
(***************************************************************************)
EXTENDS Naturals

CONSTANTS Orders, Rejected

VARIABLES
    phase,    \* "kept", "returning" or "refunded"
    paidBack, \* how often money went back to the buyer
    excused   \* orders to which the promise does not apply any more

promiseVars == <<phase, paidBack, excused>>

\* A payment that was rejected is in refund from the beginning.
RefundPromiseInit ==
    /\ phase    = [o \in Orders |-> IF o \in Rejected THEN "returning" ELSE "kept"]
    /\ paidBack = [o \in Orders |-> 0]
    /\ excused  = {}

Move(o, from, to) ==
    /\ phase[o] = from
    /\ phase' = [phase EXCEPT ![o] = to]
    /\ UNCHANGED <<paidBack, excused>>

Begin(o)   == Move(o, "kept", "returning")
CallOff(o) == paidBack[o] = 0 /\ Move(o, "returning", "kept")
Settle(o)  == paidBack[o] = 1 /\ Move(o, "returning", "refunded")

PayBack(o) ==
    /\ phase[o] = "returning" /\ paidBack[o] = 0
    /\ paidBack' = [paidBack EXCEPT ![o] = 1]
    /\ UNCHANGED <<phase, excused>>

Excuse(o) ==
    /\ excused' = excused \cup {o}
    /\ UNCHANGED <<phase, paidBack>>

\* An excused order goes its own way, and alone.
Stray(o) ==
    /\ o \in excused
    /\ phase'    = [phase EXCEPT ![o] = phase'[o]]
    /\ paidBack' = [paidBack EXCEPT ![o] = paidBack'[o]]
    /\ UNCHANGED excused

RefundPromiseNext ==
    \E o \in Orders :
       Begin(o) \/ CallOff(o) \/ PayBack(o) \/ Settle(o) \/ Excuse(o) \/ Stray(o)

RefundPromiseSpec == RefundPromiseInit /\ [][RefundPromiseNext]_promiseVars
=============================================================================
