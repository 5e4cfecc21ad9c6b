------------------------------ MODULE HoldPromise ------------------------------
(***************************************************************************)
(* What the hold of a batch image job promises its user: credit is held at *)
(* most once for a job, and then either charged, once and for no more than *)
(* was held, or given up; neither is ever taken back.  CreditLedger        *)
(* implements it.                                                          *)
(***************************************************************************)
EXTENDS Naturals

CONSTANTS Jobs, HoldAmount

VARIABLES
    stage, \* "none", "reserved", "captured" or "released", by job
    charge \* what the job cost its user

holdPromiseVars == <<stage, charge>>

HoldPromiseInit ==
    /\ stage  = [j \in Jobs |-> "none"]
    /\ charge = [j \in Jobs |-> 0]

Hold(j) ==
    /\ stage[j] = "none"
    /\ stage' = [stage EXCEPT ![j] = "reserved"]
    /\ UNCHANGED charge

ChargeHold(j) ==
    /\ stage[j] = "reserved"
    /\ stage' = [stage EXCEPT ![j] = "captured"]
    /\ \E n \in 0..HoldAmount[j] : charge' = [charge EXCEPT ![j] = n]

GiveUp(j) ==
    /\ stage[j] = "reserved"
    /\ stage' = [stage EXCEPT ![j] = "released"]
    /\ UNCHANGED charge

HoldPromiseNext == \E j \in Jobs : Hold(j) \/ ChargeHold(j) \/ GiveUp(j)

HoldPromiseSpec == HoldPromiseInit /\ [][HoldPromiseNext]_holdPromiseVars
================================================================================
