--------------------------- MODULE PurchaseLimits ---------------------------
(***************************************************************************)
(* Per-user purchase limits of one product (payment_purchase_limits.go).   *)
(*                                                                         *)
(* A product may limit how many a user buys per period and in total.  An   *)
(* external order reserves a slot when it is created, consumes it when it  *)
(* is paid and gives it back when it is cancelled, expires, fails before   *)
(* payment or is refunded in full; a late payment takes the slot again.    *)
(* A mall purchase consumes a slot at once.  Three tables hold this:       *)
(* payment_purchase_reservations (one row per order),                      *)
(* payment_purchase_counters (reserved and consumed per period and in      *)
(* total) and, for a rolling window, payment_purchase_limit_events.        *)
(*                                                                         *)
(* Every action is one database transaction.  Its parameter t is the       *)
(* instant the handler read the clock, BEFORE the transaction took its     *)
(* first lock: up to MaxSkew ticks older than the commit.                  *)
(*                                                                         *)
(* The component is self-contained: LimitSpec lets the transactions come   *)
(* in any order.  PaymentOrder runs the same transactions from the order   *)
(* lifecycle.                                                              *)
(***************************************************************************)
EXTENDS Integers, FiniteSets

CONSTANTS
    OrderPurchases, \* payment orders that buy the product
    MallPurchases,  \* purchases settled inside the mall
    Rolling,        \* purchase_limit_mode = rolling (else calendar)
    PeriodLimit,    \* daily_purchase_limit, 0 = no limit
    TotalLimit,     \* total_purchase_limit, 0 = no limit
    PeriodLength,   \* ticks in a calendar period, or in the rolling window
    MaxTime,        \* bound on the clock
    MaxSkew         \* ticks between a handler's time.Now() and its commit

ASSUME LimitAssumption ==
    /\ IsFiniteSet(OrderPurchases)
    /\ IsFiniteSet(MallPurchases)
    /\ OrderPurchases \cap MallPurchases = {}
    /\ Rolling \in BOOLEAN
    /\ PeriodLimit \in Nat
    /\ TotalLimit \in Nat
    /\ PeriodLength \in Nat \ {0}
    /\ MaxTime \in Nat
    /\ MaxSkew \in Nat

VARIABLES
    clock,        \* the current instant
    reservation,  \* status of each purchase's slot
    periodStart,  \* daily_period_start: the period the slot was taken in
    occurredAt,   \* occurred_at of the purchase's rolling event
    periodCount,  \* reserved_count and consumed_count of each period
    totalCount    \* reserved_count and consumed_count of the total scope

limitVars ==
    <<clock, reservation, periodStart, occurredAt, periodCount, totalCount>>

Purchases == OrderPurchases \cup MallPurchases
Time      == 0 .. MaxTime
Count     == [reserved : Nat, consumed : Nat]

\* purchaseCalendarPeriodStart: the period an instant falls into.
Period(t) == t \div PeriodLength

\* purchasePeriodTypeForSpec: a rolling product without a period limit keeps
\* calendar counters.
UsesEvents == Rolling /\ PeriodLimit > 0

SlotStates == {"none", "reserved", "consumed", "released"}

\* The tables hold counts, never negative ones: "reserved_count + $6 >= 0" in
\* updatePurchaseCounter never refuses a transition of a slot.
LimitTypeOK ==
    /\ clock \in Time
    /\ reservation \in [Purchases -> SlotStates]
    /\ periodStart \in [Purchases -> Time]
    /\ occurredAt  \in [Purchases -> Time]
    /\ periodCount \in [Time -> Count]
    /\ totalCount  \in Count

LimitInit ==
    /\ clock = 0
    /\ reservation = [p \in Purchases |-> "none"]
    /\ periodStart = [p \in Purchases |-> 0]
    /\ occurredAt  = [p \in Purchases |-> 0]
    /\ periodCount = [t \in Time |-> [reserved |-> 0, consumed |-> 0]]
    /\ totalCount  = [reserved |-> 0, consumed |-> 0]

-----------------------------------------------------------------------------
Active(p) == reservation[p] \in {"reserved", "consumed"}

\* The instants a handler that commits now may have read.  Two handlers never
\* read the same microsecond, so no rolling event has it yet.
Stamps ==
    {t \in Time :
        /\ t <= clock
        /\ clock - t <= MaxSkew
        /\ UsesEvents => \A p \in Purchases : Active(p) => occurredAt[p] # t}

\* Mutant: the guard of reservePurchaseCounter forgets the reserved slots.
ConsumedRoomIn(count, limit) == limit = 0 \/ count.consumed < limit

\* reserved_count + consumed_count < limit, and limit 0 is no limit.
RoomIn(count, limit) == limit = 0 \/ count.reserved + count.consumed < limit

\* Mutant: only consumed events are counted.
ConsumedEventsBefore(t) ==
    {p \in Purchases : /\ reservation[p] = "consumed"
                       /\ t - PeriodLength <= occurredAt[p]
                       /\ occurredAt[p] < t}

\* The events a reservation stamped t counts: those in [t - window, t).
EventsBefore(t) ==
    {p \in Purchases : /\ Active(p)
                       /\ t - PeriodLength <= occurredAt[p]
                       /\ occurredAt[p] < t}

\* A purchase stamped t finds a free slot.
HasRoom(t) ==
    /\ IF UsesEvents
       THEN Cardinality(EventsBefore(t)) < PeriodLimit
       ELSE RoomIn(periodCount[Period(t)], PeriodLimit)
    /\ RoomIn(totalCount, TotalLimit)

Shift(count, reserved, consumed) ==
    [reserved |-> count.reserved + reserved, consumed |-> count.consumed + consumed]

\* updatePurchaseCounter: the period row (calendar only) and the total row
\* change by the same amounts.
CountersShift(start, reserved, consumed) ==
    /\ periodCount' =
         IF UsesEvents THEN periodCount
         ELSE [periodCount EXCEPT ![start] = Shift(@, reserved, consumed)]
    /\ totalCount' = Shift(totalCount, reserved, consumed)

\* The slot of p is taken at instant t and left in state s.
TakeSlot(p, t, s) ==
    /\ HasRoom(t)
    /\ reservation' = [reservation EXCEPT ![p] = s]
    /\ periodStart' = [periodStart EXCEPT ![p] = Period(t)]
    /\ occurredAt'  = [occurredAt EXCEPT ![p] = IF UsesEvents THEN t ELSE @]
    /\ CountersShift(Period(t), IF s = "reserved" THEN 1 ELSE 0,
                                IF s = "consumed" THEN 1 ELSE 0)
    /\ UNCHANGED clock

\* The slot of p moves from state s to state r in the period it was taken in.
MoveSlot(p, s, r, reserved, consumed) ==
    /\ reservation[p] = s
    /\ reservation' = [reservation EXCEPT ![p] = r]
    /\ CountersShift(periodStart[p], reserved, consumed)
    /\ UNCHANGED <<clock, periodStart, occurredAt>>
-----------------------------------------------------------------------------
\* reservePurchaseTx: a new order takes a slot.
ReservePurchase(o, t) ==
    /\ reservation[o] = "none"
    /\ TakeSlot(o, t, "reserved")

\* consumePurchaseReservationRequiredTx: a pending order was paid.
ConsumePurchase(o) == MoveSlot(o, "reserved", "consumed", -1, 1)

\* releaseReservedPurchaseTx: the order was cancelled, expired or failed.
ReleaseReserved(o) == MoveSlot(o, "reserved", "released", -1, 0)

\* releaseConsumedPurchaseTx: a delivered order was refunded in full.
ReleaseConsumed(o) == MoveSlot(o, "consumed", "released", 0, -1)

\* reacquireAndConsumePurchaseTx: a late payment takes the released slot again,
\* in the period of the payment, and consumes it in the same transaction.
ReacquirePurchase(o, t) ==
    /\ reservation[o] = "released"
    /\ TakeSlot(o, t, "consumed")

\* consumeImmediatePurchaseCounters: a mall purchase settles at once.
ImmediatePurchase(m, t) ==
    /\ reservation[m] = "none"
    /\ TakeSlot(m, t, "consumed")

Tick ==
    /\ clock < MaxTime
    /\ clock' = clock + 1
    /\ UNCHANGED <<reservation, periodStart, occurredAt, periodCount, totalCount>>

LimitNext ==
    \/ \E o \in OrderPurchases :
          \/ \E t \in Stamps : ReservePurchase(o, t) \/ ReacquirePurchase(o, t)
          \/ ConsumePurchase(o)
          \/ ReleaseReserved(o)
          \/ ReleaseConsumed(o)
    \/ \E m \in MallPurchases : \E t \in Stamps : ImmediatePurchase(m, t)
    \/ Tick

\* The transactions of payment_purchase_limits.go in any order.  As a property of
\* PaymentOrder: whatever its handlers do to the tables is one of them.
LimitSpec == LimitInit /\ [][LimitNext]_limitVars
-----------------------------------------------------------------------------
SlotsIn(s, t) == {p \in Purchases : reservation[p] = s /\ periodStart[p] = t}
Slots(s)      == {p \in Purchases : reservation[p] = s}

\* The counters are a cache of the reservation rows: reserved_count and
\* consumed_count of every period, and of the total scope, are the numbers of
\* rows in that state, whatever sequence of reserve, pay, cancel, late payment
\* and refund led here, also when a slot is taken again in a later period.
CountersMatchSlots ==
    /\ ~UsesEvents =>
         \A t \in Time :
            /\ periodCount[t].reserved = Cardinality(SlotsIn("reserved", t))
            /\ periodCount[t].consumed = Cardinality(SlotsIn("consumed", t))
    /\ totalCount.reserved = Cardinality(Slots("reserved"))
    /\ totalCount.consumed = Cardinality(Slots("consumed"))

\* No user holds more slots of a product than its limits allow: pending and
\* paid purchases of one calendar period, and of all time.
WithinLimits ==
    /\ PeriodLimit > 0 /\ ~UsesEvents =>
         \A t \in Time :
            Cardinality(SlotsIn("reserved", t)) + Cardinality(SlotsIn("consumed", t))
              <= PeriodLimit
    /\ TotalLimit > 0 =>
         Cardinality(Slots("reserved")) + Cardinality(Slots("consumed")) <= TotalLimit

\* The purchases that hold a slot in the rolling window that begins at u.
InWindow(u) ==
    {p \in Purchases : Active(p) /\ u <= occurredAt[p] /\ occurredAt[p] < u + PeriodLength}

\* Two handlers cannot have overtaken each other between reading the clock and
\* taking the lock of the scope.
Apart(p, q) == \/ occurredAt[p] - occurredAt[q] > MaxSkew
               \/ occurredAt[q] - occurredAt[p] > MaxSkew

\* reserveRollingPurchaseEvent counts up to an instant that was read before its
\* lock, so a purchase may miss one that overtook it.  No window is over its limit
\* otherwise: of its purchases at most the limit are pairwise further apart than
\* a handler can be late, whatever was released, retaken and refunded meanwhile.
RollingLimitButOvertaken ==
    UsesEvents =>
      \A u \in Time : \A bought \in SUBSET InWindow(u) :
        (\A p, q \in bought : p # q => Apart(p, q)) => Cardinality(bought) <= PeriodLimit

\* The rolling limit as the limits were announced ("concurrency-safe", migration 188):
\* no window of PeriodLength ticks holds more purchases than the limit.
WithinRollingLimit ==
    UsesEvents => \A u \in Time : Cardinality(InWindow(u)) <= PeriodLimit
=============================================================================
