---------------------------- MODULE MCTransactions ----------------------------
(***************************************************************************)
(* The modules in which an action is all of a transaction, or one of its   *)
(* locks: the ledger, the limits of a rolling product, and the locks of    *)
(* the ledger's transactions.  They share no variable, so no step of one   *)
(* is hindered by another, and each is run while the others rest where     *)
(* they begin: their sum instead of their product.                         *)
(***************************************************************************)
EXTENDS CreditLedger, LedgerLocks, PurchaseLimits, TLC

CONSTANTS r1, j1, j2

CostOf == [r \in Requests |-> 1]
HoldOf == [j \in Jobs |-> 2]

Symmetry == Permutations(Jobs)

\* One choice of the transactions is enough for the other parts.
LocksRest == LocksInit /\ \A t \in Transactions : kind[t] = "bank"

LedgerMoves ==
    /\ LocksRest /\ LimitInit
    /\ LedgerNext
    /\ UNCHANGED <<lockOrderVars, limitVars>>

LocksMove ==
    /\ LedgerInit /\ LimitInit
    /\ LocksNext
    /\ UNCHANGED <<ledgerVars, limitVars>>

LimitsMove ==
    /\ LedgerInit /\ LocksRest
    /\ LimitNext
    /\ UNCHANGED <<ledgerVars, lockOrderVars>>

TransactionsInit == LedgerInit /\ LocksInit /\ LimitInit

TransactionsNext == LedgerMoves \/ LocksMove \/ LimitsMove

TransactionsSpec ==
    TransactionsInit /\ [][TransactionsNext]_<<ledgerVars, lockOrderVars, limitVars>>
===============================================================================
