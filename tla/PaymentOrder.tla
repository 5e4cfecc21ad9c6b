---------------------------- MODULE PaymentOrder ----------------------------
(***************************************************************************)
(* The life of the payment orders of one user: creation, payment, delivery *)
(* of what was bought, cancellation, expiry, and the refund of payments    *)
(* that came too late (payment_order.go, payment_order_lifecycle.go,       *)
(* payment_fulfillment.go, payment_purchase_limits.go,                     *)
(* payment_purchase_limit_refund.go).                                      *)
(*                                                                         *)
(* Several handlers work on the same rows at once: HTTP requests, provider *)
(* webhooks, the expiry service and administrators, on any replica.  A     *)
(* worker runs one handler at a time; pc[w] names its next step and job[w] *)
(* the order it works on.  A step is one database statement, one           *)
(* transaction or one call of the payment provider, so steps of different  *)
(* workers interleave exactly where the code holds no lock.                *)
(*                                                                         *)
(* updated_at is kept in two parts.  Every UPDATE of a row moves it (ent's *)
(* UpdateDefault), and the code only compares it with two limits, both of  *)
(* five minutes (paymentGraceMinutes, paymentFulfillmentLeaseDuration):    *)
(* aged[o] says that it is older than that.  A fulfilment lease is the     *)
(* updated_at a worker read back: holders[o] are the workers whose lease   *)
(* still equals it.                                                        *)
(***************************************************************************)
EXTENDS PurchaseLimits

CONSTANTS
    Orders,             \* every order the user may ever create
    SubscriptionOrders, \* those that buy a subscription (else balance)
    Workers,            \* handlers that may run at the same time
    NoOrder,            \* the job of an idle worker
    MaxPending,         \* MaxPendingOrders
    MaxFaults           \* bound on process deaths and database errors

ASSUME OrderAssumption ==
    /\ IsFiniteSet(Orders)
    /\ OrderPurchases \subseteq Orders
    /\ Orders \cap MallPurchases = {}
    /\ SubscriptionOrders \subseteq Orders
    /\ NoOrder \notin Orders
    /\ MaxPending \in Nat \ {0}
    /\ MaxFaults \in Nat

VARIABLES
    \* the row of payment_orders
    status,    \* status
    paidAt,    \* paid_at is set
    tradeNo,   \* payment_trade_no is the provider's number of the payment
    due,       \* expires_at has passed
    aged,      \* updated_at is more than five minutes old
    holders,   \* the workers whose lease equals updated_at
    \* what the order gave to its user
    code,      \* the redeem code; for a subscription, SUBSCRIPTION_ASSIGNED
    credited,  \* how often the user got the balance or the subscription
    rebated,   \* how often the inviter got the rebate
    \* the provider and the refund tables
    bill,      \* the bill the provider keeps for the order
    rejected,  \* audit PURCHASE_LIMIT_PAYMENT_REJECTED was written
    attempt,   \* a row of payment_refund_attempts exists
    \* the workers
    pc,        \* next step of the handler
    job,       \* the order it works on
    snap,      \* tradeNo as the handler read it
    goal,      \* the status cancelCore wants to set
    faults     \* faults so far

rowVars      == <<status, paidAt, tradeNo, holders, aged>>
deliveryVars == <<code, credited, rebated>>
outsideVars  == <<bill, rejected, attempt, due>>
workerVars   == <<pc, job, snap, goal>>

orderVars == <<limitVars, rowVars, deliveryVars, outsideVars, workerVars, faults>>

RefundStatus ==
    {"REFUNDING", "REFUND_PENDING", "REFUND_FAILED", "REFUNDED", "PARTIALLY_REFUNDED"}

OrderStatus ==
    RefundStatus \cup
    {"NONE", "PENDING", "PAID", "RECHARGING", "COMPLETED", "EXPIRED", "CANCELLED",
     "FAILED", "REFUND_REQUESTED"}

Step ==
    {"idle", "insert", "invoke", "details", "initFailed",        \* create
     "confirm", "reject", "audit", "attempt", "already", "recover", \* payment
     "check", "acquire", "reload", "lookup", "create", "redeem",  \* delivery
     "assign", "rebate", "complete", "fail",
     "query", "persist", "cancel"}                                \* cancellation

RowTypeOK ==
    /\ status   \in [Orders -> OrderStatus]
    /\ paidAt   \in [Orders -> BOOLEAN]
    /\ tradeNo  \in [Orders -> BOOLEAN]
    /\ due      \in [Orders -> BOOLEAN]
    /\ aged     \in [Orders -> BOOLEAN]
    /\ holders  \in [Orders -> SUBSET Workers]
    /\ code     \in [Orders -> {"none", "unused", "used"}]
    /\ credited \in [Orders -> Nat]
    /\ rebated  \in [Orders -> Nat]
    /\ bill     \in [Orders -> {"absent", "open", "paid", "mismatch", "closed"}]
    /\ rejected \in [Orders -> BOOLEAN]
    /\ attempt  \in [Orders -> BOOLEAN]

WorkerTypeOK ==
    /\ pc   \in [Workers -> Step]
    /\ job  \in [Workers -> Orders \cup {NoOrder}]
    /\ \A w \in Workers : pc[w] \notin {"idle", "insert"} => job[w] \in Orders
    /\ snap \in [Workers -> BOOLEAN]
    /\ goal \in [Workers -> {"none", "CANCELLED", "EXPIRED"}]
    /\ faults \in 0 .. MaxFaults

\* What every step keeps of the values the rows and the handlers may have; in
\* particular a handler past its insert works on a real order (the id it got
\* from createOrderInTxWithProduct or from its request).
OrderTypeOK == LimitTypeOK /\ RowTypeOK /\ WorkerTypeOK

OrderInit ==
    /\ LimitInit
    /\ status   = [o \in Orders |-> "NONE"]
    /\ paidAt   = [o \in Orders |-> FALSE]
    /\ tradeNo  = [o \in Orders |-> FALSE]
    /\ due      = [o \in Orders |-> FALSE]
    /\ aged     = [o \in Orders |-> FALSE]
    /\ holders  = [o \in Orders |-> {}]
    /\ code     = [o \in Orders |-> "none"]
    /\ credited = [o \in Orders |-> 0]
    /\ rebated  = [o \in Orders |-> 0]
    /\ bill     = [o \in Orders |-> "absent"]
    /\ rejected = [o \in Orders |-> FALSE]
    /\ attempt  = [o \in Orders |-> FALSE]
    /\ pc   = [w \in Workers |-> "idle"]
    /\ job  = [w \in Workers |-> NoOrder]
    /\ snap = [w \in Workers |-> FALSE]
    /\ goal = [w \in Workers |-> "none"]
    /\ faults = 0

-----------------------------------------------------------------------------
(* Workers and rows. *)

Goto(w, l) ==
    /\ pc' = [pc EXCEPT ![w] = l]
    /\ UNCHANGED <<job, snap, goal, faults>>

Start(w, o, l) ==
    /\ pc[w] = "idle"
    /\ pc'  = [pc EXCEPT ![w] = l]
    /\ job' = [job EXCEPT ![w] = o]
    /\ UNCHANGED <<snap, goal, faults>>

Finish(w) ==
    /\ pc'   = [pc EXCEPT ![w] = "idle"]
    /\ job'  = [job EXCEPT ![w] = NoOrder]
    /\ snap' = [snap EXCEPT ![w] = FALSE]
    /\ goal' = [goal EXCEPT ![w] = "none"]
    /\ UNCHANGED faults

\* Any UPDATE of the row: updated_at moves, and no lease equals it any more.
Touch(o) ==
    /\ aged'    = [aged EXCEPT ![o] = FALSE]
    /\ holders' = [holders EXCEPT ![o] = {}]

SetStatus(o, s) ==
    /\ status' = [status EXCEPT ![o] = s]
    /\ Touch(o)

\* Mutant: the reservation is updated and its counters are not.
ReleaseRowOnly(o) ==
    IF o \in OrderPurchases /\ reservation[o] = "reserved"
    THEN /\ reservation' = [reservation EXCEPT ![o] = "released"]
         /\ UNCHANGED <<clock, periodStart, occurredAt, periodCount, totalCount>>
    ELSE UNCHANGED limitVars

\* releaseReservedPurchaseTx inside the order's transaction: a no-op for an
\* order without a reserved slot.
ReleaseSlot(o) ==
    IF o \in OrderPurchases /\ reservation[o] = "reserved"
    THEN ReleaseReserved(o)
    ELSE UNCHANGED limitVars

OnlyWorker == UNCHANGED <<limitVars, rowVars, deliveryVars, outsideVars>>

-----------------------------------------------------------------------------
(* Creation: CreateOrder, one transaction, one provider call, one update. *)

Pending == {o \in Orders : status[o] = "PENDING"}

\* checkPendingLimit counts the rows it can see and locks none: the transaction
\* inserts later.
CreateCheck(w) ==
    /\ \E o \in Orders : status[o] = "NONE"
    /\ Cardinality(Pending) < MaxPending
    /\ Start(w, NoOrder, "insert")
    /\ OnlyWorker

\* createOrderInTxWithProduct: the row, and the slot when it buys a product.
CreateInsert(w, o) ==
    /\ pc[w] = "insert"
    /\ status[o] = "NONE"
    /\ SetStatus(o, "PENDING")
    /\ IF o \in OrderPurchases
       THEN \E t \in Stamps : ReservePurchase(o, t)
       ELSE UNCHANGED limitVars
    /\ pc'  = [pc EXCEPT ![w] = "invoke"]
    /\ job' = [job EXCEPT ![w] = o]
    /\ UNCHANGED <<snap, goal, faults, paidAt, tradeNo, deliveryVars, outsideVars>>

\* No slot is left, or the amount of the day is spent (checkDailyLimit): the
\* transaction rolls back.
CreateRefused(w) ==
    /\ pc[w] = "insert"
    /\ Finish(w)
    /\ OnlyWorker

\* CreatePayment at the provider; on an error the bill may exist all the same.
InvokeProvider(w) ==
    /\ pc[w] = "invoke"
    /\ \E answered \in BOOLEAN, opened \in BOOLEAN :
          /\ answered => opened
          /\ bill' = IF opened /\ bill[job[w]] = "absent"
                     THEN [bill EXCEPT ![job[w]] = "open"] ELSE bill
          /\ Goto(w, IF answered THEN "details" ELSE "initFailed")
    /\ UNCHANGED <<limitVars, rowVars, deliveryVars, rejected, attempt, due>>

\* The row gets the answer of the provider by id alone, in whatever status it
\* is by now.  Some providers name the payment already, others their own order
\* reference, others nothing.
RecordDetails(w) ==
    /\ pc[w] = "details"
    /\ Touch(job[w])
    /\ \E named \in BOOLEAN : tradeNo' = [tradeNo EXCEPT ![job[w]] = named]
    /\ Finish(w)
    /\ UNCHANGED <<limitVars, status, paidAt, deliveryVars, outsideVars>>

\* Mutant: the order fails and keeps its slot.
FailPendingOnly(w) ==
    /\ pc[w] = "initFailed"
    /\ IF status[job[w]] = "PENDING"
       THEN SetStatus(job[w], "FAILED")
       ELSE UNCHANGED <<status, aged, holders>>
    /\ Finish(w)
    /\ UNCHANGED <<limitVars, paidAt, tradeNo, deliveryVars, outsideVars>>

\* failPendingOrderAndReleasePurchase.
FailPending(w) ==
    /\ pc[w] = "initFailed"
    /\ IF status[job[w]] = "PENDING"
       THEN SetStatus(job[w], "FAILED") /\ ReleaseSlot(job[w])
       ELSE UNCHANGED <<limitVars, status, aged, holders>>
    /\ Finish(w)
    /\ UNCHANGED <<paidAt, tradeNo, deliveryVars, outsideVars>>

-----------------------------------------------------------------------------
(* A payment arrives: HandlePaymentNotification, toPaid. *)

\* The provider delivers its notification, as often as it likes.
Webhook(w, o) ==
    /\ bill[o] \in {"paid", "mismatch"}
    /\ Start(w, o, "confirm")
    /\ OnlyWorker

\* A payment of the wrong amount is audited and refused.
RefuseAmount(w) ==
    /\ pc[w] = "confirm"
    /\ bill[job[w]] = "mismatch"
    /\ Finish(w)
    /\ OnlyWorker

\* Closed without a payment.
Closed(o) == status[o] \in {"CANCELLED", "EXPIRED"} \/ (status[o] = "FAILED" /\ ~paidAt[o])

\* The last moment of payment after expiry has passed.
BeyondGrace(o) == status[o] = "EXPIRED" /\ aged[o]

\* A confirmed payment still revives the order.
Revivable(o) == Closed(o) /\ ~BeyondGrace(o)

\* transitionOrderToPaidWithPurchase: under the row lock, the slot is consumed,
\* or taken again for an order that had given it back.
ToPaid(w) ==
    LET o == job[w] IN
    /\ pc[w] = "confirm"
    /\ bill[o] = "paid"
    /\ \/ /\ status[o] = "PENDING"
          /\ IF o \in OrderPurchases THEN ConsumePurchase(o) ELSE UNCHANGED limitVars
       \/ /\ Revivable(o)
          /\ IF o \in OrderPurchases
             THEN \E t \in Stamps : ReacquirePurchase(o, t)
             ELSE UNCHANGED limitVars
    /\ SetStatus(o, "PAID")
    /\ paidAt'  = [paidAt EXCEPT ![o] = TRUE]
    /\ tradeNo' = [tradeNo EXCEPT ![o] = TRUE]
    /\ Goto(w, "check")
    /\ UNCHANGED <<deliveryVars, outsideVars>>

\* The payment came too late.  A product order is to be refunded; for a plain
\* recharge alreadyProcessed looks at the row once more.
TooLate(w) ==
    LET o == job[w] IN
    /\ pc[w] = "confirm"
    /\ bill[o] = "paid"
    /\ \/ BeyondGrace(o)
       \/ o \in OrderPurchases /\ Revivable(o) /\ \E t \in Stamps : ~HasRoom(t)
    /\ Goto(w, IF o \in OrderPurchases THEN "reject" ELSE "already")
    /\ OnlyWorker

\* recoverRejectedProductRefund: an interrupted automatic refund is given up
\* five minutes after the order was claimed.
RecoverRejected(w, o) ==
    /\ status[o] = "REFUNDING" /\ rejected[o]
    /\ IF aged[o] THEN Goto(w, "recover") ELSE Finish(w)

\* Every other status leaves the order alone.
NotToPaid(w) ==
    LET o == job[w] IN
    /\ pc[w] = "confirm"
    /\ bill[o] = "paid"
    /\ status[o] # "PENDING" /\ ~Closed(o)
    /\ \/ RecoverRejected(w, o)
       \/ /\ ~(status[o] = "REFUNDING" /\ rejected[o])
          /\ Goto(w, "already")
    /\ OnlyWorker

\* Mutant: the claim is an update by id alone.
RejectUnclaimed(w) ==
    /\ pc[w] = "reject"
    /\ SetStatus(job[w], "REFUNDING")
    /\ paidAt'  = [paidAt EXCEPT ![job[w]] = TRUE]
    /\ tradeNo' = [tradeNo EXCEPT ![job[w]] = TRUE]
    /\ Goto(w, "audit")
    /\ UNCHANGED <<limitVars, deliveryVars, outsideVars>>

\* rejectLateProductPayment claims the order for an automatic refund.
RejectPayment(w) ==
    LET o == job[w] IN
    /\ pc[w] = "reject"
    /\ \/ /\ Closed(o)
          /\ SetStatus(o, "REFUNDING")
          /\ paidAt'  = [paidAt EXCEPT ![o] = TRUE]
          /\ tradeNo' = [tradeNo EXCEPT ![o] = TRUE]
          /\ Goto(w, "audit")
       \/ RecoverRejected(w, o) /\ UNCHANGED rowVars
       \/ /\ ~Closed(o) /\ ~(status[o] = "REFUNDING" /\ rejected[o])
          /\ Goto(w, "already")
          /\ UNCHANGED rowVars
    /\ UNCHANGED <<limitVars, deliveryVars, outsideVars>>

\* The audit is written by itself, and its failure is only logged.
RejectAudit(w) ==
    /\ pc[w] = "audit"
    /\ \/ rejected' = [rejected EXCEPT ![job[w]] = TRUE]
       \/ UNCHANGED rejected
    /\ Goto(w, "attempt")
    /\ UNCHANGED <<limitVars, rowVars, deliveryVars, bill, attempt, due>>

\* createPurchaseLimitRejectedAttempt: unless somebody moved the order or
\* already stored an attempt.
RejectAttempt(w) ==
    /\ pc[w] = "attempt"
    /\ attempt' = IF status[job[w]] = "REFUNDING"
                  THEN [attempt EXCEPT ![job[w]] = TRUE] ELSE attempt
    /\ Finish(w)
    /\ UNCHANGED <<limitVars, rowVars, deliveryVars, bill, rejected, due>>

\* An administrator who asks about the refund runs the same recovery.
AdminRecover(w, o) ==
    /\ status[o] = "REFUNDING" /\ rejected[o] /\ aged[o]
    /\ Start(w, o, "recover")
    /\ OnlyWorker

Recover(w) ==
    /\ pc[w] = "recover"
    /\ IF status[job[w]] = "REFUNDING"
       THEN SetStatus(job[w], "REFUND_PENDING")
       ELSE UNCHANGED <<status, aged, holders>>
    /\ Finish(w)
    /\ UNCHANGED <<limitVars, paidAt, tradeNo, deliveryVars, outsideVars>>

\* Paid, and perhaps not delivered yet.
Fulfillable(o) ==
    status[o] \in {"PAID", "RECHARGING"} \/ (status[o] = "FAILED" /\ paidAt[o])

\* Mutant: a repeated notification is only acknowledged.
AcknowledgeOnly(w) ==
    /\ pc[w] = "already"
    /\ Finish(w)
    /\ OnlyWorker

\* alreadyProcessed: a repeated notification pushes a delivery that is missing.
AlreadyProcessed(w) ==
    /\ pc[w] = "already"
    /\ IF Fulfillable(job[w]) THEN Goto(w, "check") ELSE Finish(w)
    /\ OnlyWorker

-----------------------------------------------------------------------------
(* Delivery: executeFulfillment, doBalance, doSub. *)

\* The first read of the handler decides whether there is anything to deliver.
Check(w) ==
    /\ pc[w] = "check"
    /\ IF Fulfillable(job[w]) THEN Goto(w, "acquire") ELSE Finish(w)
    /\ OnlyWorker

\* acquirePaymentFulfillmentLease: a conditional update takes the order, also
\* from a worker that held it for five minutes.
Acquire(w) ==
    LET o == job[w] IN
    /\ pc[w] = "acquire"
    /\ IF status[o] \in {"PAID", "FAILED"} \/ (status[o] = "RECHARGING" /\ aged[o])
       THEN SetStatus(o, "RECHARGING") /\ Goto(w, "reload")
       ELSE UNCHANGED <<status, aged, holders>> /\ Finish(w)
    /\ UNCHANGED <<limitVars, paidAt, tradeNo, deliveryVars, outsideVars>>

\* The lease is the updated_at of a second read.
Reload(w) ==
    LET o == job[w] IN
    /\ pc[w] = "reload"
    /\ IF status[o] = "RECHARGING"
       THEN /\ holders' = [holders EXCEPT ![o] = @ \cup {w}]
            /\ Goto(w, IF o \in SubscriptionOrders THEN "assign" ELSE "lookup")
       ELSE UNCHANGED holders /\ Finish(w)
    /\ UNCHANGED <<limitVars, status, paidAt, tradeNo, aged, deliveryVars, outsideVars>>

\* resolveRedeemAction.
Lookup(w) ==
    LET c == code[job[w]] IN
    /\ pc[w] = "lookup"
    /\ Goto(w, IF c = "used" THEN "rebate" ELSE IF c = "unused" THEN "redeem" ELSE "create")
    /\ OnlyWorker

\* The code is unique: of two workers that found none, one fails here.
CreateCode(w) ==
    LET o == job[w] IN
    /\ pc[w] = "create"
    /\ IF code[o] = "none"
       THEN code' = [code EXCEPT ![o] = "unused"] /\ Goto(w, "redeem")
       ELSE UNCHANGED code /\ Goto(w, "fail")
    /\ UNCHANGED <<limitVars, rowVars, credited, rebated, outsideVars>>

\* RedeemService.Redeem: one transaction marks the code used and adds to the
\* balance; a used code is an error.
Redeem(w) ==
    LET o == job[w] IN
    /\ pc[w] = "redeem"
    /\ IF code[o] = "unused"
       THEN /\ code' = [code EXCEPT ![o] = "used"]
            /\ credited' = [credited EXCEPT ![o] = @ + 1]
            /\ Goto(w, "rebate")
       ELSE UNCHANGED <<code, credited>> /\ Goto(w, "fail")
    /\ UNCHANGED <<limitVars, rowVars, rebated, outsideVars>>

\* Mutant: the audit SUBSCRIPTION_ASSIGNED is not asked for.
AssignAgain(w) ==
    LET o == job[w] IN
    /\ pc[w] = "assign"
    /\ \/ /\ code' = [code EXCEPT ![o] = "used"]
          /\ credited' = [credited EXCEPT ![o] = @ + 1]
          /\ Goto(w, "rebate")
       \/ UNCHANGED <<code, credited>> /\ Goto(w, "fail")
    /\ UNCHANGED <<limitVars, rowVars, rebated, outsideVars>>

\* ensurePaymentSubscriptionAssigned: one transaction extends the subscription
\* and writes SUBSCRIPTION_ASSIGNED, unless the audit is there.  The group of
\* the subscription may be gone.
AssignSubscription(w) ==
    LET o == job[w] IN
    /\ pc[w] = "assign"
    /\ \/ /\ code[o] = "none"
          /\ code' = [code EXCEPT ![o] = "used"]
          /\ credited' = [credited EXCEPT ![o] = @ + 1]
          /\ Goto(w, "rebate")
       \/ code[o] = "used" /\ UNCHANGED <<code, credited>> /\ Goto(w, "rebate")
       \/ UNCHANGED <<code, credited>> /\ Goto(w, "fail")
    /\ UNCHANGED <<limitVars, rowVars, rebated, outsideVars>>

\* Mutant: the rebate is accrued without the unique claim.
RebateUnclaimed(w) ==
    /\ pc[w] = "rebate"
    /\ rebated' = [rebated EXCEPT ![job[w]] = @ + 1]
    /\ Goto(w, "complete")
    /\ UNCHANGED <<limitVars, rowVars, code, credited, outsideVars>>

\* applyAffiliateRebateForOrder: claim and accrual are one transaction.
Rebate(w) ==
    LET o == job[w] IN
    /\ pc[w] = "rebate"
    /\ rebated' = IF rebated[o] = 0 THEN [rebated EXCEPT ![o] = @ + 1] ELSE rebated
    /\ Goto(w, "complete")
    /\ UNCHANGED <<limitVars, rowVars, code, credited, outsideVars>>

\* The worker's lease still equals updated_at.
Leases(w, o) == status[o] = "RECHARGING" /\ w \in holders[o]

\* markCompleted.
Complete(w) ==
    LET o == job[w] IN
    /\ pc[w] = "complete"
    /\ \/ Leases(w, o) /\ SetStatus(o, "COMPLETED") /\ Finish(w)
       \/ /\ ~Leases(w, o)
          /\ IF status[o] = "COMPLETED" THEN Finish(w) ELSE Goto(w, "fail")
          /\ UNCHANGED <<status, aged, holders>>
    /\ UNCHANGED <<limitVars, paidAt, tradeNo, deliveryVars, outsideVars>>

\* markFailed.
MarkFailed(w) ==
    LET o == job[w] IN
    /\ pc[w] = "fail"
    /\ IF Leases(w, o) THEN SetStatus(o, "FAILED") ELSE UNCHANGED <<status, aged, holders>>
    /\ Finish(w)
    /\ UNCHANGED <<limitVars, paidAt, tradeNo, deliveryVars, outsideVars>>

\* RetryFulfillment by an administrator.
RetryFulfillment(w, o) ==
    /\ paidAt[o] /\ Fulfillable(o)
    /\ Start(w, o, "check")
    /\ OnlyWorker

-----------------------------------------------------------------------------
(* Cancellation and expiry: cancelCore, checkPaid. *)

\* The handler reads the row and will ask the provider before it changes it.
Ask(w, o, s) ==
    /\ pc[w] = "idle"
    /\ pc'   = [pc EXCEPT ![w] = "query"]
    /\ job'  = [job EXCEPT ![w] = o]
    /\ snap' = [snap EXCEPT ![w] = tradeNo[o]]
    /\ goal' = [goal EXCEPT ![w] = s]
    /\ UNCHANGED faults
    /\ OnlyWorker

\* CancelOrder, AdminCancelOrder.
Cancel(w, o) == status[o] = "PENDING" /\ Ask(w, o, "CANCELLED")

\* ExpireTimedOutOrders.
Expire(w, o) == status[o] = "PENDING" /\ due[o] /\ Ask(w, o, "EXPIRED")

\* VerifyOrderByOutTradeNo; ReconcilePendingPaymentOrders does the same for
\* pending orders only.
Verify(w, o) == status[o] \in {"PENDING", "EXPIRED"} /\ Ask(w, o, "none")

\* Mutant: an unanswered query ends the expiry of the order.
QueryOrGiveUp(w) ==
    LET o == job[w]
        unpaid == IF goal[w] = "none" THEN Finish(w) ELSE Goto(w, "cancel")
    IN
    /\ pc[w] = "query"
    /\ \/ /\ bill[o] \in {"paid", "mismatch"}
          /\ Goto(w, IF snap[w] THEN "confirm" ELSE "persist")
          /\ UNCHANGED bill
       \/ Finish(w) /\ UNCHANGED bill
       \/ /\ bill[o] = "open" /\ goal[w] # "none"
          /\ unpaid
          /\ bill' = [bill EXCEPT ![o] = "closed"]
    /\ UNCHANGED <<limitVars, rowVars, deliveryVars, rejected, attempt, due>>

\* checkPaid: a payment found is processed as a notification, an unpaid bill is
\* closed when the provider can, an unanswered query counts as unpaid.
QueryProvider(w) ==
    LET o == job[w]
        unpaid == IF goal[w] = "none" THEN Finish(w) ELSE Goto(w, "cancel")
    IN
    /\ pc[w] = "query"
    /\ \/ /\ bill[o] \in {"paid", "mismatch"}
          /\ Goto(w, IF snap[w] THEN "confirm" ELSE "persist")
          /\ UNCHANGED bill
       \/ unpaid /\ UNCHANGED bill
       \/ /\ bill[o] = "open" /\ goal[w] # "none"
          /\ unpaid
          /\ bill' = [bill EXCEPT ![o] = "closed"]
    /\ UNCHANGED <<limitVars, rowVars, deliveryVars, rejected, attempt, due>>

\* The provider's number is stored by id alone, whatever the status is by now.
PersistTradeNo(w) ==
    /\ pc[w] = "persist"
    /\ Touch(job[w])
    /\ tradeNo' = [tradeNo EXCEPT ![job[w]] = TRUE]
    /\ Goto(w, "confirm")
    /\ UNCHANGED <<limitVars, status, paidAt, deliveryVars, outsideVars>>

\* Mutant: the update does not ask for a pending order.
CancelAny(w) ==
    /\ pc[w] = "cancel"
    /\ SetStatus(job[w], goal[w])
    /\ ReleaseSlot(job[w])
    /\ Finish(w)
    /\ UNCHANGED <<paidAt, tradeNo, deliveryVars, outsideVars>>

\* cancelCore's transaction.
CancelOrder(w) ==
    /\ pc[w] = "cancel"
    /\ IF status[job[w]] = "PENDING"
       THEN SetStatus(job[w], goal[w]) /\ ReleaseSlot(job[w])
       ELSE UNCHANGED <<limitVars, status, aged, holders>>
    /\ Finish(w)
    /\ UNCHANGED <<paidAt, tradeNo, deliveryVars, outsideVars>>

-----------------------------------------------------------------------------
(* Refunds of delivered orders: the transactions of payment_refund.go and   *)
(* payment_refund_attempt_state.go, as far as the order row and the slot    *)
(* see them.                                                                *)

\* A refund transaction moves the row and nothing else.
MoveRow(o, s) ==
    /\ SetStatus(o, s)
    /\ UNCHANGED <<paidAt, tradeNo, deliveryVars, workerVars, faults, bill, rejected, due>>

RequestRefund(o) ==
    /\ status[o] = "COMPLETED" /\ o \notin SubscriptionOrders
    /\ MoveRow(o, "REFUND_REQUESTED")
    /\ UNCHANGED <<limitVars, attempt>>

\* beginRefundAttempt.
BeginRefund(o) ==
    /\ \/ status[o] \in {"COMPLETED", "REFUND_REQUESTED"}
       \/ status[o] = "REFUND_FAILED" /\ attempt[o]
    /\ MoveRow(o, "REFUNDING")
    /\ attempt' = [attempt EXCEPT ![o] = TRUE]
    /\ UNCHANGED limitVars

InRefund(o) == attempt[o] /\ status[o] \in {"REFUNDING", "REFUND_PENDING"}

\* updateRefundAttemptNonterminal: the provider has not decided yet.
ParkRefund(o) ==
    /\ InRefund(o) /\ status[o] = "REFUNDING"
    /\ MoveRow(o, "REFUND_PENDING")
    /\ UNCHANGED <<limitVars, attempt>>

\* finalizeRefundSuccess: a refund in full gives the consumed slot back.
SettleRefund(o) ==
    /\ InRefund(o)
    /\ \/ /\ MoveRow(o, "REFUNDED")
          /\ IF o \in OrderPurchases /\ reservation[o] = "consumed"
             THEN ReleaseConsumed(o) ELSE UNCHANGED limitVars
       \/ MoveRow(o, "PARTIALLY_REFUNDED") /\ UNCHANGED limitVars
    /\ UNCHANGED attempt

\* finalizeRefundReturned: the provider refused, the hold is given back.
ReturnRefund(o) ==
    /\ InRefund(o)
    /\ MoveRow(o, "REFUND_FAILED")
    /\ UNCHANGED <<limitVars, attempt>>

Refund(o) ==
    RequestRefund(o) \/ BeginRefund(o) \/ ParkRefund(o) \/ SettleRefund(o) \/ ReturnRefund(o)

-----------------------------------------------------------------------------
(* The user at the provider, time, and faults. *)

\* The user pays the bill, or (by another channel) a wrong amount.
Pay(o) ==
    /\ bill[o] = "open"
    /\ \E b \in {"paid", "mismatch"} : bill' = [bill EXCEPT ![o] = b]
    /\ UNCHANGED <<limitVars, rowVars, deliveryVars, rejected, attempt, due,
                   workerVars, faults>>

Day ==
    /\ Tick
    /\ UNCHANGED <<rowVars, deliveryVars, outsideVars, workerVars, faults>>

\* A purchase inside the mall competes for the slots.
BuyInMall ==
    /\ \E m \in MallPurchases, t \in Stamps : ImmediatePurchase(m, t)
    /\ UNCHANGED <<rowVars, deliveryVars, outsideVars, workerVars, faults>>

TimeOut(o) ==
    /\ status[o] = "PENDING" /\ ~due[o]
    /\ due' = [due EXCEPT ![o] = TRUE]
    /\ UNCHANGED <<limitVars, rowVars, deliveryVars, bill, rejected, attempt,
                   workerVars, faults>>

\* Five minutes without a write, in a status where the code asks for them.
Age(o) ==
    /\ status[o] \in {"EXPIRED", "RECHARGING", "REFUNDING"} /\ ~aged[o]
    /\ aged' = [aged EXCEPT ![o] = TRUE]
    /\ UNCHANGED <<limitVars, status, paidAt, tradeNo, holders, deliveryVars,
                   outsideVars, workerVars, faults>>

\* The process dies or the request ends between two steps.
Stop(w) ==
    /\ faults < MaxFaults
    /\ pc[w] # "idle"
    /\ pc'   = [pc EXCEPT ![w] = "idle"]
    /\ job'  = [job EXCEPT ![w] = NoOrder]
    /\ snap' = [snap EXCEPT ![w] = FALSE]
    /\ goal' = [goal EXCEPT ![w] = "none"]
    /\ faults' = faults + 1
    /\ OnlyWorker

\* Where a handler goes when the statement of its step fails; elsewhere it
\* returns the error, which is a Stop.
AfterError ==
    {<<"details", "initFailed">>, <<"persist", "confirm">>, <<"lookup", "create">>,
     <<"create", "fail">>, <<"redeem", "fail">>, <<"assign", "fail">>,
     <<"rebate", "fail">>, <<"complete", "fail">>}

\* A statement fails, before or (as the step before it) after its effect.
DatabaseError(w) ==
    /\ faults < MaxFaults
    /\ \E e \in AfterError : pc[w] = e[1] /\ pc' = [pc EXCEPT ![w] = e[2]]
    /\ faults' = faults + 1
    /\ UNCHANGED <<job, snap, goal>>
    /\ OnlyWorker

-----------------------------------------------------------------------------
\* The next step of a handler that runs.
Continue(w) ==
    \/ CreateRefused(w) \/ \E o \in Orders : CreateInsert(w, o)
    \/ InvokeProvider(w) \/ RecordDetails(w) \/ FailPending(w)
    \/ RefuseAmount(w) \/ ToPaid(w) \/ TooLate(w) \/ NotToPaid(w)
    \/ RejectPayment(w) \/ RejectAudit(w) \/ RejectAttempt(w) \/ Recover(w)
    \/ AlreadyProcessed(w)
    \/ Check(w) \/ Acquire(w) \/ Reload(w)
    \/ Lookup(w) \/ CreateCode(w) \/ Redeem(w) \/ AssignSubscription(w)
    \/ Rebate(w) \/ Complete(w) \/ MarkFailed(w)
    \/ QueryProvider(w) \/ PersistTradeNo(w) \/ CancelOrder(w)

\* A handler begins.
Begin(w) ==
    \/ CreateCheck(w)
    \/ \E o \in Orders :
          \/ Webhook(w, o) \/ AdminRecover(w, o) \/ RetryFulfillment(w, o)
          \/ Cancel(w, o) \/ Expire(w, o) \/ Verify(w, o)

Environment ==
    \/ Day \/ BuyInMall
    \/ \E o \in Orders : Refund(o) \/ Pay(o) \/ TimeOut(o) \/ Age(o)
    \/ \E w \in Workers : Stop(w) \/ DatabaseError(w)

OrderNext == Environment \/ \E w \in Workers : Begin(w) \/ Continue(w)

OrderSpec == OrderInit /\ [][OrderNext]_orderVars

\* A handler that runs takes its next step, time passes, the expiry service
\* comes back to every due order, and the provider repeats a notification that
\* was not acknowledged.
Fairness ==
    /\ \A w \in Workers : WF_orderVars(Continue(w))
    /\ \A o \in Orders :
          /\ WF_orderVars(TimeOut(o)) /\ WF_orderVars(Age(o))
          /\ SF_orderVars(\E w \in Workers : Expire(w, o))
          /\ SF_orderVars(\E w \in Workers : Webhook(w, o))
          /\ SF_orderVars(\E w \in Workers : AdminRecover(w, o))

FairOrderSpec == OrderSpec /\ Fairness
-----------------------------------------------------------------------------
(* Safety. *)

\* However many notifications, retries and restarts there are, and however
\* often a lease is taken over, the user gets what was bought once, and so does
\* the inviter get the rebate.
DeliveredOnce == \A o \in Orders : credited[o] <= 1 /\ rebated[o] <= 1

\* Nothing is delivered for a bill that was not paid in full, and no order
\* counts as paid without it.
PaidForDelivery ==
    \A o \in Orders : paidAt[o] \/ credited[o] > 0 => bill[o] = "paid"

\* rejectLateProductPayment: "It never fulfills the product".  An order that is
\* in refund without having been delivered stays undelivered, whatever the other
\* handlers that saw it paid are still about to do.
RejectedNeverDelivered ==
    \A o \in Orders :
       /\ rejected[o] => credited[o] = 0
       /\ status[o] \in RefundStatus /\ credited[o] = 0 =>
            \A w \in Workers : job[w] = o => pc[w] \notin {"redeem", "assign", "rebate"}

\* A completed order was delivered and its rebate is settled.
CompletedMeansDelivered ==
    \A o \in Orders :
       status[o] \in {"COMPLETED", "REFUND_REQUESTED"} => credited[o] = 1 /\ rebated[o] = 1

\* The slot of a product order follows its status: pending orders hold a
\* reserved slot, paid and delivered ones a consumed one, and an order that was
\* cancelled, expired, never paid, rejected or refunded in full holds none.
SlotMatches(o) ==
    LET held == reservation[o] IN
    /\ (status[o] = "PENDING") <=> (held = "reserved")
    /\ status[o] \in {"PAID", "RECHARGING", "COMPLETED", "REFUND_REQUESTED"}
         => held = "consumed"
    /\ status[o] = "FAILED" => held = IF paidAt[o] THEN "consumed" ELSE "released"
    /\ status[o] \in {"CANCELLED", "EXPIRED", "REFUNDED"} => held = "released"
    /\ status[o] \in RefundStatus \ {"REFUNDED"} =>
         held = IF credited[o] = 0 THEN "released" ELSE "consumed"

\* Whatever handlers race on an order, its slot and its status agree after every
\* one of their transactions.
SlotMatchesStatus == \A o \in OrderPurchases : SlotMatches(o)

\* The phase of OrderPromise that a row is in.
Promised(o) ==
    IF status[o] = "NONE" THEN "none"
    ELSE IF status[o] = "PENDING" THEN "open"
    ELSE IF Closed(o) THEN "closed"
    ELSE IF status[o] \in {"REFUNDED", "PARTIALLY_REFUNDED"} THEN "refunded"
    ELSE IF status[o] \in RefundStatus
         THEN IF credited[o] = 0 THEN "rejected" ELSE "returning"
    ELSE IF credited[o] = 0 THEN "paid" ELSE "delivered"

phases == [o \in Orders |-> Promised(o)]

Promise == INSTANCE OrderPromise WITH promise <- phases

\* Every step of the handlers keeps what OrderPromise promises: nothing is
\* delivered twice, after a refund began or to an order that was rejected, and a
\* completed order is never reopened.
KeepsPromise == Promise!PromiseSpec
-----------------------------------------------------------------------------
(* Liveness, under FairOrderSpec. *)

\* ExpireTimedOutOrders: an order whose time is up does not stay pending, so it
\* frees its slot and its place among the user's pending orders.  The exception
\* is an order whose bill was paid with a wrong amount: checkPaid calls it paid
\* at every attempt, and confirmPayment refuses it.
DueOrdersClose ==
    \A o \in Orders :
       status[o] = "PENDING" /\ due[o] ~> status[o] # "PENDING" \/ bill[o] = "mismatch"

\* The user gets the balance that was paid, whatever handler dies or fails on
\* the way, as long as the provider repeats its notification.
PaidIsDelivered ==
    \A o \in Orders \ SubscriptionOrders :
       Fulfillable(o) /\ paidAt[o] ~> credited[o] = 1
-----------------------------------------------------------------------------
(* What the code says of itself and does not keep. *)

\* rejectLateProductPayment: "refunds a captured product payment that can no
\* longer reclaim its released purchase slot."  An order claimed for that gets
\* its refund attempt, or leaves REFUNDING for an administrator to see.
RejectedIsRefunded ==
    \A o \in Orders :
       status[o] = "REFUNDING" /\ ~attempt[o] ~> attempt[o] \/ status[o] # "REFUNDING"
=============================================================================
