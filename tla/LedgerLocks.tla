------------------------------ MODULE LedgerLocks ------------------------------
(***************************************************************************)
(* The order in which the transactions of CreditLedger lock rows of one    *)
(* user, and what the database does when they wait for each other.         *)
(*                                                                         *)
(* The rows are the user and, as one, its grants.  The rows of a batch     *)
(* image job and of its hold are left out: a transaction locks them before *)
(* anything else, so whoever waits for them holds nothing.                 *)
(***************************************************************************)
EXTENDS Naturals, Sequences

CONSTANTS
    Transactions  \* connections with a transaction on this user

VARIABLES
    kind,   \* kind[t]: what transaction t is
    taken,  \* taken[t]: how many locks of its plan t has
    outcome \* outcome[t]: "none", "running", "committed" or "failed"

lockOrderVars == <<kind, taken, outcome>>

\* Mutant: the bank locks the grants before their user.
PlanGrantsFirst ==
    [charge  |-> << <<"user", "keyShare">>, <<"user", "update">>, <<"grants", "update">> >>,
     bank    |-> << <<"grants", "update">>, <<"user", "update">> >>,
     reserve |-> << <<"user", "update">>, <<"grants", "update">>, <<"user", "update">> >>,
     settle  |-> << <<"grants", "update">>, <<"user", "noKeyUpdate">> >>]

(* The locks of a transaction, in order, with their mode in PostgreSQL: a  *)
(* foreign key that is checked (FOR KEY SHARE), an UPDATE that touches no  *)
(* key (FOR NO KEY UPDATE), SELECT FOR UPDATE.                             *)
Plan ==
    [charge  |-> << <<"user", "keyShare">>, <<"user", "update">>, <<"grants", "update">> >>,
     bank    |-> << <<"user", "update">>, <<"grants", "update">> >>,
     reserve |-> << <<"user", "update">>, <<"grants", "update">>, <<"user", "update">> >>,
     settle  |-> << <<"grants", "update">>, <<"user", "noKeyUpdate">> >>]

Conflicts(a, b) ==
    /\ a[1] = b[1]
    /\ a[2] = "update" \/ b[2] = "update" \/ (a[2] = "noKeyUpdate" /\ b[2] = a[2])

\* What t has locked, and what it asks for next.
Held(t)     == {Plan[kind[t]][i] : i \in 1..taken[t]}
Complete(t) == taken[t] = Len(Plan[kind[t]])
Wanted(t)   == Plan[kind[t]][taken[t] + 1]

Blockers(t) ==
    {u \in Transactions \ {t} :
        /\ outcome[t] = "running" /\ outcome[u] = "running"
        /\ ~Complete(t)
        /\ \E lock \in Held(u) : Conflicts(lock, Wanted(t))}

CircularWait(group) ==
    /\ group # {}
    /\ \A t \in group : Blockers(t) \cap group # {}

---------------------------------------------------------------------------

LocksInit ==
    /\ kind \in [Transactions -> DOMAIN Plan]
    /\ taken = [t \in Transactions |-> 0]
    /\ outcome = [t \in Transactions |-> "none"]

Begin(t) ==
    /\ outcome[t] = "none"
    /\ outcome' = [outcome EXCEPT ![t] = "running"]
    /\ UNCHANGED <<kind, taken>>

Take(t) ==
    /\ outcome[t] = "running" /\ ~Complete(t)
    /\ Blockers(t) = {}
    /\ taken' = [taken EXCEPT ![t] = @ + 1]
    /\ UNCHANGED <<kind, outcome>>

Commit(t) ==
    /\ outcome[t] = "running" /\ Complete(t)
    /\ outcome' = [outcome EXCEPT ![t] = "committed"]
    /\ UNCHANGED <<kind, taken>>

\* The database ends one of those that wait for each other; nobody retries it.
Fail(t) ==
    /\ \E group \in SUBSET Transactions : t \in group /\ CircularWait(group)
    /\ outcome' = [outcome EXCEPT ![t] = "failed"]
    /\ UNCHANGED <<kind, taken>>

LocksNext == \E t \in Transactions : Begin(t) \/ Take(t) \/ Commit(t) \/ Fail(t)

LocksSpec == LocksInit /\ [][LocksNext]_lockOrderVars

---------------------------------------------------------------------------

(* "All transactions that can touch both balances and temporary grants     *)
(* lock the user row first, then grant rows", says lockTemporaryCreditUser *)
(* (temporary_credit_tx_executor.go:116).  If they did, no two of them     *)
(* could ever wait for each other.                                         *)
NoCircularWait == \A group \in SUBSET Transactions : ~CircularWait(group)

\* A settlement of a hold, which locks grants before their user, or two charges, which
\* share the user before each asks for it alone.
OutOfOrder(group) ==
    \/ \E t \in group : kind[t] = "settle"
    \/ \E t, u \in group : t # u /\ kind[t] = "charge" /\ kind[u] = "charge"

(* What the lock order does give: a circle always has transactions in it   *)
(* that do not keep it.  The bank, reservations and one charge at a time   *)
(* never wait for each other, whatever the rest does.                      *)
CirclesOutOfOrder == \A group \in SUBSET Transactions : CircularWait(group) => OutOfOrder(group)

(* So the database ends a transaction, of whatever kind, only if some of   *)
(* this user were out of order.                                            *)
FailuresOutOfOrder ==
    (\E t \in Transactions : outcome[t] = "failed") => OutOfOrder(Transactions)
================================================================================
