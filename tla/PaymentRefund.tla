----------------------------- MODULE PaymentRefund -----------------------------
(***************************************************************************)
(* Refunds of one user's orders (payment_refund.go,                        *)
(* payment_refund_attempt_state.go, payment_purchase_limit_refund.go).     *)
(*                                                                         *)
(* A refund attempt takes the refunded balance or subscription term away   *)
(* from the user first (the hold), asks the provider second, and then      *)
(* consumes the hold or gives it back, each in a transaction of its own.   *)
(* The provider answers when it likes, an answer may be lost, handlers run *)
(* on any replica and may die between two steps; whoever queries the       *)
(* provider later applies its answer to the stored attempt.                *)
(*                                                                         *)
(* Two providers may tell of a refund what it does not come to: Alipay     *)
(* "failed" of one that goes on, Stripe the state of the payment's newest  *)
(* refund.  misled records the orders to which that happened: what the     *)
(* code does for them can only be as good as the answer.                   *)
(*                                                                         *)
(* Abstractions: "failed" stands for the answers failed and canceled,      *)
(* which the code treats alike; an order's subscription days are one term, *)
(* and no term ends by itself; the purchase slot is in PaymentOrder.       *)
(***************************************************************************)
EXTENDS Integers, FiniteSets, FiniteSetsExt, Functions

CONSTANTS
    Orders,             \* delivered orders of the user ...
    SubscriptionOrders, \* ... of which these bought a subscription, and
    RejectedOrders,     \* late payments claimed for a refund, never delivered
    Attempts,           \* ids of refund attempts
    Subscriptions,      \* ids of subscription rows of the user
    Workers,            \* handlers that may run at the same time
    NoOrder, NoAttempt, NoRow,
    Amount,             \* what each order cost
    MaxTerms,           \* bound on the subscription terms the user buys
    MaxFaults,          \* bound on the deaths of handlers
    HastyOrders,        \* paid with Alipay: a query says "failed" till success
    IntentOrders        \* paid with Stripe: a query that has no refund id is
                        \* answered for the newest refund of the payment

BalanceOrders == Orders \ (SubscriptionOrders \cup RejectedOrders)

ASSUME RefundAssumption ==
    /\ IsFiniteSet(Orders)
    /\ SubscriptionOrders \subseteq Orders
    /\ RejectedOrders \subseteq Orders
    /\ NoOrder \notin Orders
    /\ NoAttempt \notin Attempts
    /\ NoRow \notin Subscriptions
    /\ Amount \in Nat \ {0}
    /\ MaxTerms \in Nat /\ MaxFaults \in Nat
    /\ HastyOrders \subseteq Orders /\ IntentOrders \subseteq Orders

VARIABLES
    status,   \* status of the order
    latest,   \* its latest row of payment_refund_attempts
    refunds,  \* payment_refund_attempts
    balance,  \* the user's balance
    own,      \* what it would be without refunds
    expires,  \* terms left of each subscription row
    alive,    \* the rows that are not soft-deleted
    terms,    \* subscription terms the user bought
    gateway,  \* the refund at the provider, by attempt id
    newest,   \* the newest refund the provider has of an order's payment
    misled,   \* orders a query gave a final answer that was not so (history)
    pc, at,   \* next step of a handler, and the attempt it works on
    answer,   \* the provider's answer it holds
    faults    \* deaths so far

tableVars    == <<status, latest, refunds>>
balanceVars  == <<balance, own>>
termVars     == <<expires, alive, terms>>
providerVars == <<gateway, newest, misled>>
workerVars   == <<pc, at, answer>>

refundVars == <<tableVars, balanceVars, termVars, providerVars, workerVars, faults>>

LiveState == {"calling", "pending", "unknown"}

Settled == {"REFUNDED", "PARTIALLY_REFUNDED"}

Attempt ==
    [order    : Orders \cup {NoOrder},
     amount   : Nat,                                    \* refund_amount
     state    : LiveState \cup {"none", "succeeded", "failed"}, \* provider_state
     hold     : {"none", "held", "consumed", "returned"}, \* deduction_state
     review   : BOOLEAN,                                \* manual_review
     held     : Nat,                                    \* held_balance_amount
     row      : Subscriptions \cup {NoRow},             \* subscription_id
     original : Nat]                           \* subscription_original_expires_at

Unused ==
    [order |-> NoOrder, amount |-> 0, state |-> "none", hold |-> "none",
     review |-> FALSE, held |-> 0, row |-> NoRow, original |-> 0]

Answer == {"none", "pending", "unknown", "manual", "succeeded", "failed"}

RefundTypeOK ==
    /\ status  \in [Orders -> {"COMPLETED", "REFUND_REQUESTED", "REFUNDING",
                               "REFUND_PENDING", "REFUND_FAILED"} \cup Settled]
    /\ latest  \in [Orders -> Attempts \cup {NoAttempt}]
    /\ refunds \in [Attempts -> Attempt]
    /\ balance \in Int /\ own \in Int
    /\ expires \in [Subscriptions -> Nat]
    /\ alive \subseteq Subscriptions
    /\ terms \in Nat
    /\ gateway \in [Attempts -> {"unsent", "sent", "pending", "refunded", "failed"}]
    /\ newest \in [Orders -> Attempts \cup {NoAttempt}]
    /\ misled \subseteq Orders
    /\ pc \in [Workers -> {"idle", "call", "wait", "query", "apply"}]
    /\ at \in [Workers -> Attempts \cup {NoAttempt}]
    /\ \A w \in Workers : pc[w] # "idle" => at[w] \in Attempts /\ refunds[at[w]].order \in Orders
    /\ answer \in [Workers -> Answer]
    /\ faults \in 0 .. MaxFaults

RefundInit ==
    /\ status  = [o \in Orders |-> IF o \in RejectedOrders THEN "REFUNDING" ELSE "COMPLETED"]
    /\ latest  = [o \in Orders |-> NoAttempt]
    /\ refunds = [a \in Attempts |-> Unused]
    /\ own     = Amount * Cardinality(BalanceOrders)
    /\ balance = own
    /\ terms   = Cardinality(SubscriptionOrders)
    /\ \E s \in Subscriptions :
          /\ alive = {s}
          /\ expires = [r \in Subscriptions |-> IF r = s THEN terms ELSE 0]
    /\ gateway = [a \in Attempts |-> "unsent"]
    /\ newest  = [o \in Orders |-> NoAttempt]
    /\ misled  = {}
    /\ pc      = [w \in Workers |-> "idle"]
    /\ at      = [w \in Workers |-> NoAttempt]
    /\ answer  = [w \in Workers |-> "none"]
    /\ faults  = 0

-----------------------------------------------------------------------------
(* Handlers. *)

Start(w, a, l) ==
    /\ pc[w] = "idle"
    /\ pc' = [pc EXCEPT ![w] = l]
    /\ at' = [at EXCEPT ![w] = a]
    /\ UNCHANGED faults

Finish(w) ==
    /\ pc'     = [pc EXCEPT ![w] = "idle"]
    /\ at'     = [at EXCEPT ![w] = NoAttempt]
    /\ answer' = [answer EXCEPT ![w] = "none"]
    /\ UNCHANGED faults

\* The provider's answer, or what the handler makes of its absence.
Hear(w, r) ==
    /\ pc'     = [pc EXCEPT ![w] = "apply"]
    /\ answer' = [answer EXCEPT ![w] = r]
    /\ UNCHANGED <<tableVars, balanceVars, termVars, gateway, newest, at, faults>>

-----------------------------------------------------------------------------
(* RequestRefund, beginRefundAttempt: the hold. *)

RequestRefund(o) ==
    /\ o \in BalanceOrders /\ status[o] = "COMPLETED"
    /\ balance >= Amount
    /\ status' = [status EXCEPT ![o] = "REFUND_REQUESTED"]
    /\ UNCHANGED <<latest, refunds, balanceVars, termVars, providerVars, workerVars, faults>>

\* refundAttemptAllowsRetry.
Retryable(r) == ~r.review /\ r.state = "failed" /\ r.hold \in {"returned", "none"}

\* Mutant: an attempt that is pending does not stop another one.
MayBeginAgain(o) ==
    \/ status[o] \in {"COMPLETED", "REFUND_REQUESTED", "REFUND_PENDING"}
    \/ status[o] = "REFUND_FAILED" /\ latest[o] # NoAttempt

MayBegin(o) ==
    /\ status[o] \in {"COMPLETED", "REFUND_REQUESTED", "REFUND_FAILED"}
    /\ IF latest[o] = NoAttempt
       THEN status[o] # "REFUND_FAILED" ELSE Retryable(refunds[latest[o]])

Store(o, a, r) ==
    /\ refunds[a] = Unused
    /\ refunds' = [refunds EXCEPT ![a] = r]
    /\ latest'  = [latest EXCEPT ![o] = a]

NewAttempt(o, amt, hold, held, row, original) ==
    [order |-> o, amount |-> amt, state |-> "calling", hold |-> hold,
     review |-> FALSE, held |-> held, row |-> row, original |-> original]

\* A forced refund need not take anything from the user.
NoHold(o, a, amt) ==
    /\ Store(o, a, NewAttempt(o, amt, "none", 0, NoRow, 0))
    /\ UNCHANGED <<balanceVars, termVars>>

\* An ordinary refund holds its whole amount; a forced one what there is.
HoldBalance(o, a, amt) ==
    LET available == IF balance > 0 THEN balance ELSE 0
        take      == IF available < amt THEN available ELSE amt
    IN
    /\ o \in BalanceOrders
    /\ Store(o, a, NewAttempt(o, amt, IF take > 0 THEN "held" ELSE "none", take, NoRow, 0))
    /\ balance' = balance - take
    /\ UNCHANGED <<own, termVars>>

\* The subscription loses the order's term, and is deleted when none is left.
HoldTerm(o, a, amt) ==
    /\ o \in SubscriptionOrders
    /\ \E s \in alive :
          /\ expires[s] > 0
          /\ Store(o, a, NewAttempt(o, amt, "held", 0, s, expires[s]))
          /\ IF expires[s] = 1
             THEN alive' = alive \ {s} /\ UNCHANGED expires
             ELSE expires' = [expires EXCEPT ![s] = @ - 1] /\ UNCHANGED alive
    /\ UNCHANGED <<balanceVars, terms>>

\* beginRefundAttempt locks the order and the user, so the hold, the attempt and
\* the status are one transaction.
BeginRefund(w, o) ==
    /\ MayBegin(o)
    /\ \E a \in Attempts, amt \in 1 .. Amount :
          /\ \/ NoHold(o, a, amt) \/ HoldBalance(o, a, amt)
             \/ o \notin RejectedOrders /\ HoldTerm(o, a, amt)
          /\ Start(w, a, "call")
    /\ status' = [status EXCEPT ![o] = "REFUNDING"]
    /\ UNCHANGED <<providerVars, answer>>

\* createPurchaseLimitRejectedAttempt, for an order that was never delivered.
\* Without a provider for the order the attempt fails before any call.
BeginRejected(w, o) ==
    /\ o \in RejectedOrders /\ status[o] = "REFUNDING" /\ latest[o] = NoAttempt
    /\ \E a \in Attempts :
          /\ NoHold(o, a, Amount)
          /\ \/ Start(w, a, "call") /\ UNCHANGED answer
             \/ Start(w, a, "apply") /\ answer' = [answer EXCEPT ![w] = "failed"]
    /\ UNCHANGED <<status, providerVars>>

-----------------------------------------------------------------------------
(* The provider is asked: callRefundProvider, QueryAndFinalizeRefund. *)

\* The request is sent, or the connection fails before it is.
Call(w) ==
    /\ pc[w] = "call"
    /\ pc' = [pc EXCEPT ![w] = "wait"]
    /\ \/ /\ gateway' = [gateway EXCEPT ![at[w]] = "sent"]
          /\ newest'  = [newest EXCEPT ![refunds[at[w]].order] = at[w]]
       \/ UNCHANGED <<gateway, newest>>
    /\ UNCHANGED <<tableVars, balanceVars, termVars, misled, at, answer, faults>>

\* Mutant: a refund the provider accepted counts as done.
RefundAnswersEager(g) ==
    {"unknown"} \cup IF g \in {"refunded", "pending"} THEN {"succeeded"} ELSE {}

\* What Refund may return for a refund in state g; an error, which is possible
\* at any time, leaves the result unknown.
RefundAnswers(g) ==
    {"unknown"} \cup
    CASE g = "refunded" -> {"succeeded", "pending"}
      [] g = "failed"   -> {"failed", "pending"}
      [] g = "pending"  -> {"pending"}
      [] OTHER          -> {}

WaitAnswer(w) ==
    /\ pc[w] = "wait"
    /\ \E r \in RefundAnswers(gateway[at[w]]) : Hear(w, r)
    /\ UNCHANGED misled

\* Mutant: only attempts the provider called pending are queried.
QueryPendingOnly(w, o) ==
    /\ status[o] = "REFUND_PENDING"
    /\ latest[o] # NoAttempt /\ refunds[latest[o]].state = "pending"
    /\ Start(w, latest[o], "query")
    /\ UNCHANGED <<tableVars, balanceVars, termVars, providerVars, answer>>

\* An administrator asks what became of the latest attempt.
Query(w, o) ==
    /\ status[o] \in {"REFUNDING", "REFUND_PENDING"}
    /\ latest[o] # NoAttempt /\ refunds[latest[o]].state \in LiveState
    /\ Start(w, latest[o], "query")
    /\ UNCHANGED <<tableVars, balanceVars, termVars, providerVars, answer>>

\* What a provider tells of a refund in state g.
Tells(g) ==
    CASE g = "refunded" -> {"succeeded"}
      [] g = "failed"   -> {"failed"}
      [] g = "pending"  -> {"pending"}
      [] OTHER          -> {}

\* What QueryRefund may return about attempt a: an error at any time, "manual" of
\* a provider that cannot be queried, and what the provider of the order tells.
QueryAnswers(a) ==
    LET o == refunds[a].order
        g == gateway[a]
    IN
    {"unknown", "manual"} \cup
    (IF o \in HastyOrders /\ g # "refunded" THEN {"failed"} ELSE Tells(g)) \cup
    (IF o \in IntentOrders /\ newest[o] # NoAttempt THEN Tells(gateway[newest[o]]) ELSE {})

\* The refund has failed, or its request was never sent and never will be.
Dead(a) ==
    \/ gateway[a] = "failed"
    \/ gateway[a] = "unsent" /\ \A w \in Workers : ~(pc[w] = "call" /\ at[w] = a)

Misleads(a, r) ==
    (r = "failed" /\ ~Dead(a)) \/ (r = "succeeded" /\ gateway[a] # "refunded")

QueryAnswer(w) ==
    /\ pc[w] = "query"
    /\ \E r \in QueryAnswers(at[w]) :
          /\ Hear(w, r)
          /\ misled' = IF Misleads(at[w], r)
                       THEN misled \cup {refunds[at[w]].order} ELSE misled

\* Mutant: an automatic refund that was interrupted counts as failed.
InterruptedFailed(w, o) ==
    /\ o \in RejectedOrders /\ status[o] = "REFUNDING"
    /\ latest[o] # NoAttempt /\ refunds[latest[o]].state \in LiveState
    /\ Start(w, latest[o], "apply")
    /\ answer' = [answer EXCEPT ![w] = "failed"]
    /\ UNCHANGED <<tableVars, balanceVars, termVars, providerVars>>

\* recoverRejectedProductRefund: a repeated notification finds an automatic
\* refund that was interrupted five minutes ago.
Interrupted(w, o) ==
    /\ o \in RejectedOrders /\ status[o] = "REFUNDING"
    /\ latest[o] # NoAttempt /\ refunds[latest[o]].state \in LiveState
    /\ Start(w, latest[o], "apply")
    /\ answer' = [answer EXCEPT
                    ![w] = IF refunds[latest[o]].state = "pending" THEN "pending" ELSE "unknown"]
    /\ UNCHANGED <<tableVars, balanceVars, termVars, providerVars>>

-----------------------------------------------------------------------------
(* The answer is applied, under the locks of order and attempt. *)

InRefund(o) == status[o] \in {"REFUNDING", "REFUND_PENDING"}

Record(a, state, review, hold) ==
    refunds' = [refunds EXCEPT ![a].state = state, ![a].review = review, ![a].hold = hold]

\* updateRefundAttemptNonterminal.
Park(w) ==
    LET a == at[w]
        o == refunds[a].order
    IN
    /\ pc[w] = "apply" /\ answer[w] \in {"pending", "unknown", "manual"}
    /\ IF refunds[a].state \in LiveState /\ InRefund(o)
       THEN /\ Record(a, IF answer[w] = "manual" THEN refunds[a].state ELSE answer[w],
                      answer[w] # "pending", refunds[a].hold)
            /\ status' = [status EXCEPT ![o] = "REFUND_PENDING"]
       ELSE UNCHANGED <<status, refunds>>
    /\ Finish(w)
    /\ UNCHANGED <<latest, balanceVars, termVars, providerVars>>

\* finalizeRefundSuccess.  A success that was already applied, that comes after
\* the hold was returned, or after the order left its refund, changes nothing.
Settle(w) ==
    LET a == at[w]
        r == refunds[a]
    IN
    /\ pc[w] = "apply" /\ answer[w] = "succeeded"
    /\ IF /\ ~(r.state = "succeeded" /\ r.hold \in {"consumed", "none"})
          /\ r.hold # "returned"
          /\ InRefund(r.order)
       THEN /\ Record(a, "succeeded", FALSE, IF r.hold = "held" THEN "consumed" ELSE r.hold)
            /\ status' = [status EXCEPT
                            ![r.order] = IF r.amount < Amount THEN "PARTIALLY_REFUNDED"
                                         ELSE "REFUNDED"]
       ELSE UNCHANGED <<status, refunds>>
    /\ Finish(w)
    /\ UNCHANGED <<latest, balanceVars, termVars, providerVars>>

\* The row cannot be restored beside a newer one: one row of a subscription may
\* be alive, and the transaction fails.
Blocked(r) == r.hold = "held" /\ r.row # NoRow /\ alive \ {r.row} # {}

\* Mutant: a repeated failure gives the hold back again.
ReturnTwice(w) ==
    LET a == at[w]
        r == refunds[a]
    IN
    /\ pc[w] = "apply" /\ answer[w] = "failed"
    /\ Record(a, "failed", FALSE, IF r.hold = "held" THEN "returned" ELSE r.hold)
    /\ status'  = [status EXCEPT ![r.order] = "REFUND_FAILED"]
    /\ balance' = balance + r.held
    /\ Finish(w)
    /\ UNCHANGED <<latest, own, termVars, providerVars>>

\* finalizeRefundReturned: the hold goes back as it was taken, the subscription
\* to the end it had before.
Return(w) ==
    LET a == at[w]
        r == refunds[a]
    IN
    /\ pc[w] = "apply" /\ answer[w] = "failed"
    /\ IF /\ ~(r.state = "failed" /\ r.hold \in {"returned", "none"})
          /\ r.hold # "consumed"
          /\ InRefund(r.order) \/ status[r.order] = "REFUND_FAILED"
          /\ ~Blocked(r)
       THEN /\ Record(a, "failed", FALSE, IF r.hold = "held" THEN "returned" ELSE r.hold)
            /\ status' = [status EXCEPT ![r.order] = "REFUND_FAILED"]
            /\ balance' = IF r.hold = "held" THEN balance + r.held ELSE balance
            /\ IF r.hold = "held" /\ r.row # NoRow
               THEN /\ expires' = [expires EXCEPT ![r.row] = r.original]
                    /\ alive' = alive \cup {r.row}
               ELSE UNCHANGED <<expires, alive>>
       ELSE UNCHANGED <<status, refunds, balance, expires, alive>>
    /\ Finish(w)
    /\ UNCHANGED <<latest, own, terms, providerVars>>

-----------------------------------------------------------------------------
(* The provider, the user, and faults. *)

\* The provider works on the request and decides; it may refuse at once.
Decide(a) ==
    /\ \/ gateway[a] = "sent" /\ \E g \in {"pending", "refunded", "failed"} :
                                    gateway' = [gateway EXCEPT ![a] = g]
       \/ gateway[a] = "pending" /\ \E g \in {"refunded", "failed"} :
                                       gateway' = [gateway EXCEPT ![a] = g]
    /\ UNCHANGED <<tableVars, balanceVars, termVars, newest, misled, workerVars, faults>>

\* The user spends balance while there is some.
Spend ==
    /\ balance > 0 /\ own > 0
    /\ balance' = balance - 1
    /\ own' = own - 1
    /\ UNCHANGED <<tableVars, termVars, providerVars, workerVars, faults>>

\* The user buys the subscription again: the row that is alive is extended,
\* otherwise a new one is created (assignOrExtendSubscription).
Renew ==
    /\ terms < MaxTerms
    /\ terms' = terms + 1
    /\ \/ \E s \in alive : expires' = [expires EXCEPT ![s] = @ + 1] /\ UNCHANGED alive
       \/ /\ alive = {}
          /\ \E s \in Subscriptions :
                /\ expires[s] = 0
                /\ expires' = [expires EXCEPT ![s] = 1]
                /\ alive' = {s}
    /\ UNCHANGED <<tableVars, balanceVars, providerVars, workerVars, faults>>

\* The process dies or the request ends between two steps.
Stop(w) ==
    /\ faults < MaxFaults /\ pc[w] # "idle"
    /\ pc'     = [pc EXCEPT ![w] = "idle"]
    /\ at'     = [at EXCEPT ![w] = NoAttempt]
    /\ answer' = [answer EXCEPT ![w] = "none"]
    /\ faults' = faults + 1
    /\ UNCHANGED <<tableVars, balanceVars, termVars, providerVars>>

-----------------------------------------------------------------------------
Continue(w) ==
    Call(w) \/ WaitAnswer(w) \/ QueryAnswer(w) \/ Park(w) \/ Settle(w) \/ Return(w)

Begin(w, o) == BeginRefund(w, o) \/ BeginRejected(w, o) \/ Query(w, o) \/ Interrupted(w, o)

RefundNext ==
    \/ \E w \in Workers : Continue(w) \/ Stop(w) \/ \E o \in Orders : Begin(w, o)
    \/ \E o \in Orders : RequestRefund(o)
    \/ \E a \in Attempts : Decide(a)
    \/ Spend \/ Renew

RefundSpec == RefundInit /\ [][RefundNext]_refundVars

\* A query that tells what the provider decided.
Told(w) == QueryAnswer(w) /\ answer'[w] \in {"succeeded", "failed"}

\* Handlers go on, an administrator asks again about an open refund, and of the
\* queries of a decided refund some get the decision.
FairRefundSpec ==
    /\ RefundSpec
    /\ \A w \in Workers : WF_refundVars(Continue(w)) /\ SF_refundVars(Told(w))
    /\ \A o \in Orders : SF_refundVars(\E w \in Workers : Query(w, o))
-----------------------------------------------------------------------------
(* Safety.  No query has misled the code about the orders concerned. *)

OfOrder(o) == {a \in Attempts : refunds[a].order = o}

\* An order has one live attempt at most, its latest; a hold is never left over
\* when the refund of its order is decided, whatever old handlers still apply.
HoldFollowsOrder ==
    \A o \in Orders \ misled : \A a \in OfOrder(o) :
       /\ refunds[a].state \in LiveState => a = latest[o] /\ InRefund(o)
       /\ refunds[a].hold = "held" => a = latest[o] /\ InRefund(o)
       /\ refunds[a].hold = "consumed" => a = latest[o] /\ status[o] \in Settled

Holding == {a \in Attempts : refunds[a].hold \in {"held", "consumed"}}

\* Each hold was taken from the balance once, and once only given back, whatever
\* the providers answer.
BalanceAddsUp ==
    balance = own - SumFunctionOnSet([a \in Attempts |-> refunds[a].held], Holding)

PaidBack(o) == Cardinality({a \in OfOrder(o) : gateway[a] = "refunded"})

\* The buyer is refunded once if the order says so and not at all if it does
\* not, now or later.
RefundedOnce ==
    \A o \in Orders \ misled :
       /\ PaidBack(o) <= 1
       /\ status[o] \in Settled => PaidBack(o) = 1
       /\ status[o] \in {"COMPLETED", "REFUND_REQUESTED", "REFUND_FAILED"} =>
            \A a \in OfOrder(o) : gateway[a] \in {"unsent", "failed"}

\* What the user bought is either usable or held for a refund.  (The code breaks
\* it: see "Observations" in the README.)
TermsAddUp ==
    MapThenSumSet(LAMBDA s : expires[s], alive) +
       Cardinality({a \in Holding : refunds[a].row # NoRow}) = terms

\* The phase of RefundPromise that an order is in.
phases ==
    [o \in Orders |-> IF InRefund(o) THEN "returning"
                      ELSE IF status[o] \in Settled THEN "refunded" ELSE "kept"]

Promise == INSTANCE RefundPromise
             WITH Rejected <- RejectedOrders, phase <- phases,
                  paidBack <- [o \in Orders |-> PaidBack(o)], excused <- misled

\* Refunds keep RefundPromise: an order leaves it only by an answer of its
\* provider that was not so, and takes no other order with it.
KeepsRefundPromise == Promise!RefundPromiseSpec
-----------------------------------------------------------------------------
(* Liveness, under FairRefundSpec. *)

\* A decision of the provider reaches the order, whichever handler dies.  The
\* exceptions are a subscription that was bought anew while its term was held,
\* and an order that was misled.
RefundDecided ==
    \A a \in Attempts :
       gateway[a] \in {"refunded", "failed"}
         ~> \/ refunds[a].state \in {"succeeded", "failed"}
            \/ Blocked(refunds[a]) \/ refunds[a].order \in misled
=============================================================================
