------------------------------ MODULE CreditLedger ------------------------------
(***************************************************************************)
(* The permanent balance and the temporary credit of one user:             *)
(* usage_billing_repo.go and usage_billing_batch_image_hold_repo.go charge *)
(* requests and hold credit for batch image jobs, bank_service.go and      *)
(* bank_auto_exchange.go lend credit, exchange balance for it and settle   *)
(* the debt, temporary_credit_repo.go and temporary_credit_tx_executor.go  *)
(* keep the grants.                                                        *)
(*                                                                         *)
(* Every action is one transaction.  It holds the rows it touches to its   *)
(* end (LedgerLocks is about the order in which it takes them), and every  *)
(* error rolls all of it back, so only those that commit are actions; a    *)
(* request, a job or an idempotency key met again changes nothing.         *)
(*                                                                         *)
(* Abstractions: amounts are whole units, so nothing is rounded; exchange  *)
(* and repayment ratios are constants; the exchanges one transaction makes *)
(* by itself, each a grant with the same window, are one grant; a day is   *)
(* one instant, and credit of the bank lasts until the next.               *)
(***************************************************************************)
EXTENDS Integers, FiniteSets, FiniteSetsExt, Functions

CONSTANTS
    Grants,          \* ids of temporary_credit_grants, in the order of creation
    Requests, Jobs,  \* billed requests, batch image jobs
    Cost,            \* what each request costs
    HoldAmount,      \* the most each job may cost
    ExchangeAmounts, \* settings of the automatic exchange
    Threshold,       \* credit below which it starts
    ExchangeRate, ConversionRatio, UnusedRatio, TemporaryRatio, PermanentRatio,
    GraceDays,       \* from the end of an advance to the day its debt is due
    Amounts,         \* other amounts a user or an operator enters
    MaxIncome,       \* bound on the balance paid in
    MaxDay           \* bound on the day

Positive == Nat \ {0}

ASSUME LedgerAssumption ==
    /\ Grants \subseteq Nat /\ IsFiniteSet(Grants)
    /\ IsFiniteSet(Requests) /\ IsFiniteSet(Jobs)
    /\ Cost \in [Requests -> Positive]
    /\ HoldAmount \in [Jobs -> Positive]
    /\ ExchangeAmounts \subseteq Positive
    /\ Amounts \subseteq Positive
    /\ {ExchangeRate, ConversionRatio, UnusedRatio, TemporaryRatio, PermanentRatio}
         \subseteq Positive
    /\ GraceDays \in Positive
    /\ Threshold \in Nat /\ MaxIncome \in Nat /\ MaxDay \in Nat

VARIABLES
    day,    \* today
    ledger, \* the rows of the user, its grants and its loans
    charge, \* what the requests that were billed took
    hold,   \* batch_image_credit_holds with its allocations
    income  \* balance paid in from outside

ledgerVars == <<day, ledger, charge, hold, income>>

NoDue == 0 \* no debt is due
NoCharge == [taken |-> [g \in Grants |-> 0], permanent |-> 0, billed |-> FALSE]

Nothing == [g \in Grants |-> 0]
Credit  == [Grants -> Nat]

\* A row of temporary_credit_grants; amount 0: not created.
Grant == [amount : Nat, remaining : Nat, available : Nat, expires : Nat]

\* The bank loan that belongs to a grant.
Loan == [status : {"none", "active", "repaid", "settled"}, owed : Nat,
         swept : BOOLEAN,  \* unused_credit_settled_at is set
         unused : Nat]     \* unused_credit_amount

Ledger ==
    [balance : Int, frozen : Int,
     exchange : Nat,          \* amount of the automatic exchange, 0: disabled
     debt : Nat, due : Nat,
     grant : [Grants -> Grant], loan : [Grants -> Loan],
     consumed : Credit,       \* temporary_credit_consumptions, by grant
     banked : Int]            \* sum of permanent_delta in bank_ledger

NoHold == [status |-> "none", taken |-> Nothing, permanent |-> 0,
           captured |-> 0, permanentCaptured |-> 0, expired |-> Nothing]

LedgerInit ==
    /\ day    = 0
    /\ ledger = [balance |-> 0, frozen |-> 0, exchange |-> 0, debt |-> 0, due |-> NoDue,
                 grant |-> [g \in Grants |-> [amount |-> 0, remaining |-> 0,
                                              available |-> 0, expires |-> 0]],
                 loan |-> [g \in Grants |-> [status |-> "none", owed |-> 0,
                                             swept |-> FALSE, unused |-> 0]],
                 consumed |-> Nothing, banked |-> 0]
    /\ charge = [r \in Requests |-> NoCharge]
    /\ hold   = [j \in Jobs |-> NoHold]
    /\ income = 0

---------------------------------------------------------------------------
(* Grants and the order in which they are spent. *)

Least(m, n) == IF m <= n THEN m ELSE n
Total(credit) == MapThenSumSet(LAMBDA g : credit[g], Grants)

Usable(s, g) ==
    IF s.grant[g].available <= day /\ day < s.grant[g].expires
    THEN s.grant[g].remaining
    ELSE 0

UsableCredit(s) == [g \in Grants |-> Usable(s, g)]

\* First expired, first out; then by id.
Earlier(s, g, h) ==
    \/ s.grant[g].expires < s.grant[h].expires
    \/ s.grant[g].expires = s.grant[h].expires /\ g < h

(* The one way to split n units: from the grants in order, each as far as  *)
(* limit allows, and only the rest from the permanent part.                *)
Split(s, limit, n) ==
    {d \in [taken : [Grants -> 0..n], permanent : 0..n] :
        /\ \A g \in Grants : d.taken[g] <= limit[g]
        /\ d.permanent + Total(d.taken) = n
        /\ d.permanent > 0 => d.taken = limit
        /\ \A g, h \in Grants :
             Earlier(s, g, h) /\ d.taken[h] > 0 => d.taken[g] = limit[g]}

\* A grant with n units more, or less.
Moved(row, n) == [row EXCEPT !.remaining = @ + n]

\* Takes credit out of the grants.
SetAside(s, taken) ==
    [s EXCEPT !.grant = [g \in Grants |-> Moved(s.grant[g], -taken[g])]]

\* Allocate: takes the credit and records the consumptions.
Consume(s, taken) ==
    [SetAside(s, taken) EXCEPT !.consumed = [g \in Grants |-> s.consumed[g] + taken[g]]]

\* The id the next row of temporary_credit_grants gets.
FreshGrants(s) ==
    {g \in Grants : /\ s.grant[g].amount = 0
                    /\ \A h \in Grants : h < g => s.grant[h].amount > 0}

CreateGrant(s, g, n, from, until) ==
    [s EXCEPT !.grant[g] = [amount |-> n, remaining |-> n,
                            available |-> from, expires |-> until]]

Tomorrow == day + 1

---------------------------------------------------------------------------
(* Debt: what is settled whenever the bank has locked the user. *)

\* The due date goes with the last of the debt.
ReduceDebt(s, n) ==
    [s EXCEPT !.debt = @ - n,
              !.due = IF n > 0 /\ s.debt = n THEN NoDue ELSE @]

ReduceLoan(loan, n) ==
    [loan EXCEPT !.owed = @ - n, !.status = IF loan.owed = n THEN "repaid" ELSE @]

\* Mutant: settled advances are settled again.
LapsedAgain(s) ==
    {g \in Grants : /\ s.loan[g].status \in {"active", "repaid"}
                    /\ s.grant[g].expires <= day}

Lapsed(s) ==
    {g \in Grants : /\ s.loan[g].status \in {"active", "repaid"}
                    /\ ~s.loan[g].swept
                    /\ s.grant[g].expires <= day}

\* What the unused credit of an advance takes off its debt.
UnusedReduction(s, g) ==
    Least(s.grant[g].remaining * UnusedRatio, Least(s.debt, s.loan[g].owed))

(* settleUnusedAdvanceLocked for every lapsed advance.  The code goes      *)
(* through them by id; a repaid one owes nothing and reduces nothing, so   *)
(* that only the reduction of the active one reaches the debt.             *)
SettleUnused(s) ==
    LET owing == {g \in Lapsed(s) : s.loan[g].owed > 0}
        reduced == IF owing = {} THEN s
                   ELSE ReduceDebt(s, UnusedReduction(s, CHOOSE g \in owing : TRUE))
    IN  [reduced EXCEPT
           !.grant = [g \in Grants |-> IF g \in Lapsed(s) THEN [@[g] EXCEPT !.remaining = 0]
                                       ELSE @[g]],
           !.loan  = [g \in Grants |-> IF g \in Lapsed(s)
                                       THEN [ReduceLoan(@[g], UnusedReduction(s, g)) EXCEPT
                                               !.swept = TRUE,
                                               !.unused = s.grant[g].remaining]
                                       ELSE @[g]]]

Due(s) == s.debt > 0 /\ s.due # NoDue /\ s.due <= day

\* settleBankDebtLocked: what is due comes out of the balance, even below zero.
SettleDebt(s) ==
    IF ~Due(s) THEN s
    ELSE [s EXCEPT !.balance = @ - s.debt * ConversionRatio,
                   !.banked  = @ - s.debt * ConversionRatio,
                   !.debt = 0, !.due = NoDue,
                   !.loan = [g \in Grants |-> IF @[g].status = "active"
                                              THEN [@[g] EXCEPT !.status = "settled", !.owed = 0]
                                              ELSE @[g]]]

Reconciled(s) == SettleDebt(SettleUnused(s))

---------------------------------------------------------------------------
(* Exchanging balance for credit. *)

Deposit(amount) == 2 * amount

\* Spends n units of balance on credit until midnight.
Exchange(s, g, n) ==
    CreateGrant([s EXCEPT !.balance = @ - n, !.banked = @ - n],
                g, n * ExchangeRate, day, Tomorrow)

NeedsExchange(s) ==
    /\ IF Threshold = 0 THEN Total(UsableCredit(s)) = 0
                        ELSE Total(UsableCredit(s)) < Threshold
    /\ s.balance >= s.exchange

\* How often it exchanges: until the credit exceeds the threshold.
Rounds(s) ==
    LET Again(k) == /\ Total(UsableCredit(s)) + k * s.exchange * ExchangeRate <= Threshold
                    /\ s.balance - k * s.exchange >= s.exchange
    IN  {k \in 1..s.balance : ~Again(k) /\ \A l \in 1..(k - 1) : Again(l)}

\* BankAutoExchangeInTx
AutoExchanged(s) ==
    LET r == Reconciled(s)
    IN  IF s.exchange = 0 THEN {s}
        ELSE IF s.frozen < Deposit(s.exchange) THEN {}
        ELSE IF ~NeedsExchange(r) THEN {r}
        ELSE {Exchange(r, g, k * r.exchange) : g \in FreshGrants(r), k \in Rounds(r)}

---------------------------------------------------------------------------
(* Billing. *)

\* Mutant: the request is not looked up in usage_billing_dedup.
ChargeAgain(r) ==
    /\ \E s \in AutoExchanged(ledger) : \E d \in Split(s, UsableCredit(s), Cost[r]) :
         /\ ledger' = [Consume(s, d.taken) EXCEPT !.balance = @ - d.permanent]
         /\ charge' = [charge EXCEPT ![r] = [taken |-> d.taken, permanent |-> d.permanent,
                                             billed |-> TRUE]]
    /\ UNCHANGED <<day, hold, income>>

\* Mutant: the split is made before the automatic exchange.
ChargeBeforeExchange(r) ==
    /\ ~charge[r].billed
    /\ \E s \in AutoExchanged(ledger), d \in Split(ledger, UsableCredit(ledger), Cost[r]) :
         /\ ledger' = [Consume(s, d.taken) EXCEPT !.balance = @ - d.permanent]
         /\ charge' = [charge EXCEPT ![r] = [taken |-> d.taken, permanent |-> d.permanent,
                                             billed |-> TRUE]]
    /\ UNCHANGED <<day, hold, income>>

\* usageBillingRepository.Apply: the balance may go below zero.
Charge(r) ==
    /\ ~charge[r].billed
    /\ \E s \in AutoExchanged(ledger) : \E d \in Split(s, UsableCredit(s), Cost[r]) :
         /\ ledger' = [Consume(s, d.taken) EXCEPT !.balance = @ - d.permanent]
         /\ charge' = [charge EXCEPT ![r] = [taken |-> d.taken, permanent |-> d.permanent,
                                             billed |-> TRUE]]
    /\ UNCHANGED <<day, hold, income>>

\* Moves n units of balance under the frozen balance.
Freeze(s, n) == [s EXCEPT !.balance = @ - n, !.frozen = @ + n]

\* reserveBatchImageCreditHold
Reserve(j) ==
    /\ hold[j].status = "none"
    /\ \E s \in AutoExchanged(ledger) : \E d \in Split(s, UsableCredit(s), HoldAmount[j]) :
         /\ s.balance >= d.permanent
         /\ s.frozen >= 0
         /\ ledger' = Freeze(SetAside(s, d.taken), d.permanent)
         /\ hold' = [hold EXCEPT ![j].status = "reserved", ![j].taken = d.taken,
                                 ![j].permanent = d.permanent]
    /\ UNCHANGED <<day, charge, income>>

\* Mutant: expired grants get their credit back.
RestoredLate(s, j, captured) == [g \in Grants |-> hold[j].taken[g] - captured[g]]

\* Credit of a hold that was not charged goes back to the grants that last.
Restored(s, j, captured) ==
    [g \in Grants |-> IF s.grant[g].expires > day THEN hold[j].taken[g] - captured[g] ELSE 0]

\* applyBatchImageCreditHoldSettlement: n units are charged, the rest is given up.
SettleHold(j, status, n) ==
    /\ hold[j].status = "reserved"
    /\ ledger.frozen >= hold[j].permanent
    /\ \E d \in Split(ledger, hold[j].taken, n) :
         LET back == Restored(ledger, j, d.taken) IN
         /\ ledger' = [ledger EXCEPT
              !.grant = [g \in Grants |-> Moved(ledger.grant[g], back[g])],
              !.consumed = [g \in Grants |-> ledger.consumed[g] + d.taken[g]],
              !.balance = @ + (hold[j].permanent - d.permanent),
              !.frozen = @ - hold[j].permanent]
         /\ hold' = [hold EXCEPT ![j] =
              [@ EXCEPT !.status = status, !.captured = n, !.permanentCaptured = d.permanent,
                        !.expired = [g \in Grants |-> hold[j].taken[g] - d.taken[g] - back[g]]]]
    /\ UNCHANGED <<day, charge, income>>

\* Mutant: a hold that was settled is captured.
CaptureAgain(j) ==
    /\ hold[j].status # "none"
    /\ \E n \in 0..HoldAmount[j] : hold' = [hold EXCEPT ![j].status = "captured", ![j].captured = n]
    /\ UNCHANGED <<day, ledger, charge, income>>

Capture(j) == \E n \in 0..HoldAmount[j] : SettleHold(j, "captured", n)
Release(j) == SettleHold(j, "released", 0)

---------------------------------------------------------------------------
(* The bank, and what else moves balance or credit. *)

OnlyLedger == UNCHANGED <<day, charge, hold, income>>

\* AdvanceAtomic; the settlement of what is due is a transaction before it.
Advance(n) ==
    /\ ledger.balance >= 0
    /\ ledger.debt = 0
    /\ \A g \in Grants : ledger.loan[g].status # "active"
    /\ \E g \in FreshGrants(ledger) :
         ledger' = [CreateGrant(ledger, g, n, day, Tomorrow) EXCEPT
                      !.loan[g] = [status |-> "active", owed |-> n,
                                   swept |-> FALSE, unused |-> 0],
                      !.debt = @ + n,
                      !.due = Tomorrow + GraceDays]
    /\ OnlyLedger

\* ExchangeAtomic
ExchangeCredit(n) ==
    LET r == Reconciled(ledger) IN
    /\ r.balance >= n
    /\ \E g \in FreshGrants(r) : ledger' = Exchange(r, g, n)
    /\ OnlyLedger

\* capBankRepaymentCredit: no more than the debt needs.
UsefulCredit(n, debt, ratio) == Least(n, (debt + ratio - 1) \div ratio)

\* Mutant: bank_loans is not updated.
RepaidUserOnly(s, n, ratio) == ReduceDebt(s, Least(n * ratio, s.debt))

\* What a repayment of n units leaves of the debt and of the active loan.
Repaid(s, n, ratio) ==
    LET reduction == Least(n * ratio, s.debt)
    IN  [ReduceDebt(s, reduction) EXCEPT
           !.loan = [g \in Grants |-> IF @[g].status = "active"
                                      THEN ReduceLoan(@[g], Least(reduction, @[g].owed))
                                      ELSE @[g]]]

\* RepayAtomic when the debt was settled while it waited for the lock.
RepayNothing ==
    /\ ledger.debt > 0
    /\ Reconciled(ledger).debt = 0
    /\ ledger' = Reconciled(ledger)
    /\ OnlyLedger

RepayPermanent(n) ==
    LET r == Reconciled(ledger)
        use == UsefulCredit(n, r.debt, PermanentRatio) IN
    /\ ledger.debt > 0 /\ r.debt > 0
    /\ r.balance >= use
    /\ ledger' = Repaid([r EXCEPT !.balance = @ - use, !.banked = @ - use],
                        use, PermanentRatio)
    /\ OnlyLedger

\* As far as there is credit.
RepayTemporary(n) ==
    LET r == Reconciled(ledger)
        use == UsefulCredit(n, r.debt, TemporaryRatio) IN
    /\ ledger.debt > 0 /\ r.debt > 0
    /\ \E d \in Split(r, UsableCredit(r), use) :
         /\ d.permanent < use
         /\ ledger' = Repaid(Consume(r, d.taken), use - d.permanent, TemporaryRatio)
    /\ OnlyLedger

\* SettleDueForUser
SettleDue ==
    /\ ledger' = Reconciled(ledger)
    /\ ledger' # ledger
    /\ OnlyLedger

\* AutoExchangeIfNeeded, after SettleDueForUser
AutoExchangeIfNeeded ==
    /\ ledger' \in AutoExchanged(ledger)
    /\ ledger' # ledger
    /\ OnlyLedger

\* Mutant: only a larger deposit moves balance.
SetExchangeKeep(amount) ==
    LET delta == Deposit(amount) - Deposit(ledger.exchange) IN
    /\ amount # ledger.exchange
    /\ delta > 0 => ledger.balance >= delta
    /\ ledger' = [Freeze(ledger, IF delta > 0 THEN delta ELSE 0) EXCEPT !.exchange = amount]
    /\ OnlyLedger

\* UpdateAutoExchangePreferenceAtomic; 0 disables.
SetExchange(amount) ==
    LET delta == Deposit(amount) - Deposit(ledger.exchange) IN
    /\ amount # ledger.exchange
    /\ ledger.frozen >= Deposit(ledger.exchange)
    /\ delta > 0 => ledger.balance >= delta
    /\ ledger.frozen + delta >= 0
    /\ ledger' = [Freeze(ledger, delta) EXCEPT !.exchange = amount]
    /\ OnlyLedger

\* A check-in, an administrator or the mall grants credit.
IssueGrant(n, from, until) ==
    /\ \E g \in FreshGrants(ledger) : ledger' = CreateGrant(ledger, g, n, from, until)
    /\ OnlyLedger

\* Balance paid in: a recharge, a redeem code, an administrator.
PayIn(n) ==
    /\ income + n <= MaxIncome
    /\ income' = income + n
    /\ ledger' = [ledger EXCEPT !.balance = @ + n]
    /\ UNCHANGED <<day, charge, hold>>

NextDay ==
    /\ day < MaxDay
    /\ day' = day + 1
    /\ UNCHANGED <<ledger, charge, hold, income>>

Bill == (\E r \in Requests : Charge(r)) \/ (\E j \in Jobs : Reserve(j) \/ Capture(j) \/ Release(j))

Repay == RepayNothing \/ (\E n \in Amounts : RepayPermanent(n) \/ RepayTemporary(n))

Issue ==
    \E n \in Amounts : \E from \in {day, Tomorrow} : \E until \in {Tomorrow, Tomorrow + 1} :
        from < until /\ IssueGrant(n, from, until)

LedgerNext ==
    \/ Bill
    \/ Repay
    \/ \E n \in Amounts : Advance(n) \/ ExchangeCredit(n) \/ PayIn(n)
    \/ \E amount \in ExchangeAmounts \cup {0} : SetExchange(amount)
    \/ SettleDue
    \/ AutoExchangeIfNeeded
    \/ Issue
    \/ NextDay

LedgerSpec == LedgerInit /\ [][LedgerNext]_ledgerVars

---------------------------------------------------------------------------
(* Properties *)

(* Type invariant of the rows (usage_billing_repo.go, bank_service.go).  No *)
(* grant and no debt goes below zero; the balance may.                      *)
LedgerTypeOK ==
    /\ day \in Nat /\ income \in Nat
    /\ ledger \in Ledger
    /\ charge \in [Requests -> [taken : Credit, permanent : Nat, billed : BOOLEAN]]
    /\ hold \in [Jobs -> [status : {"none", "reserved", "captured", "released"},
                          taken : Credit, permanent : Nat,
                          captured : Nat, permanentCaptured : Nat, expired : Credit]]

(* The frozen balance is what the holds that are not settled and the       *)
(* deposit of the automatic exchange put there: none of their guards       *)
(* "frozen >= ..." ever fails, and disabling or settling one never         *)
(* releases what the other froze.                                          *)
FrozenIsHeld ==
    ledger.frozen =
      Deposit(ledger.exchange)
        + SumFunctionOnSet([j \in Jobs |-> hold[j].permanent],
                           {j \in Jobs : hold[j].status = "reserved"})

\* What a job keeps of a grant: held for it, or expired in its hold.
Kept(j, g) == IF hold[j].status = "reserved" THEN hold[j].taken[g] ELSE hold[j].expired[g]

(* Whatever was granted is left, was consumed by a charge, a capture or a  *)
(* repayment, is held for a job, expired in a hold or was taken back as    *)
(* unused: a hold is never restored twice, nor what the bank settled.      *)
CreditAddsUp ==
    \A g \in Grants :
       ledger.grant[g].amount =
         ledger.grant[g].remaining + ledger.consumed[g] + ledger.loan[g].unused
           + SumFunction([j \in Jobs |-> Kept(j, g)])

(* The balance, with what is frozen, is what was paid in and what the bank *)
(* booked, less the permanent part of every charge and of every capture.   *)
BalanceIsBooked ==
    ledger.balance + ledger.frozen =
      income + ledger.banked
        - SumFunction([r \in Requests |-> charge[r].permanent])
        - SumFunction([j \in Jobs |-> hold[j].permanentCaptured])

(* The debt of the user row and the loan rows never part: the user owes    *)
(* what the one active loan owes, and a day is set for it as long as there *)
(* is debt, whichever of repayment, unused credit and forced settlement    *)
(* comes first.                                                            *)
DebtIsOwed ==
    /\ ledger.debt > 0 <=> ledger.due # NoDue
    /\ \A g \in Grants :
         /\ ledger.loan[g].owed > 0 <=> ledger.loan[g].status = "active"
         /\ ledger.loan[g].status = "active" => ledger.debt = ledger.loan[g].owed
    /\ ledger.debt > 0 => \E g \in Grants : ledger.loan[g].status = "active"

(* A charge and a hold touch the balance only when no temporary credit     *)
(* that can be used is left, that of an automatic exchange included.       *)
PermanentLast ==
    [][(\/ \E r \in Requests : charge'[r].permanent # charge[r].permanent
        \/ \E j \in Jobs : hold'[j].permanent # hold[j].permanent)
         => \A g \in Grants : Usable(ledger', g) = 0]_ledgerVars

(* Credit moves only within its window: before it begins and after it ends *)
(* nothing is taken from a grant and nothing given back to it, except that *)
(* the bank takes all that is left of an advance.                          *)
MovesInWindow ==
    [][\A g \in Grants :
         LET row == ledger.grant[g] IN
         /\ row.amount > 0
         /\ row.remaining # ledger'.grant[g].remaining
         => \/ row.available <= day /\ day < row.expires
            \/ ledger.loan[g].status # "none" /\ ledger'.grant[g].remaining = 0]_ledgerVars

Promise == INSTANCE HoldPromise WITH
    stage  <- [j \in Jobs |-> hold[j].status],
    charge <- [j \in Jobs |-> hold[j].captured]

(* The holds keep the promise made to the user (HoldPromise). *)
KeepsHoldPromise == Promise!HoldPromiseSpec
================================================================================
