------------------------- MODULE PaymentOrderProofs -------------------------
(***************************************************************************)
(* Proofs about PurchaseLimits and PaymentOrder, for any set of orders,    *)
(* workers and mall purchases, any limits and any number of faults.        *)
(*                                                                         *)
(* 0. PurchaseLimits by itself.  LimitInv is inductive: the counters are   *)
(*    the numbers of reservation rows and stay within the limits.  The     *)
(*    first conjunct is what makes a decrement legal, the second what      *)
(*    makes the guard of an increment (reserved + consumed < limit) a      *)
(*    statement about purchases.                                           *)
(* 1. Every step of the order lifecycle is a step of PurchaseLimits or     *)
(*    leaves its tables alone, so what is proved of the counters holds     *)
(*    here (OrderLimits).                                                  *)
(* 2. OrderInv is inductive (OrderInvariance) and implies the safety       *)
(*    properties of PaymentOrder.                                          *)
(* 3. With it every step is a step of OrderPromise (OrderPromised).        *)
(***************************************************************************)
EXTENDS PaymentOrder, FiniteSetTheorems, TLAPS

--------------------------------------------------------------------------------
(* 0. PurchaseLimits by itself. *)

CountsWithinLimits ==
    /\ PeriodLimit > 0 /\ ~UsesEvents =>
         \A t \in Time : periodCount[t].reserved + periodCount[t].consumed <= PeriodLimit
    /\ TotalLimit > 0 => totalCount.reserved + totalCount.consumed <= TotalLimit

LimitInv == LimitTypeOK /\ CountersMatchSlots /\ CountsWithinLimits

-----------------------------------------------------------------------------
\* An instant lies in one of the modelled periods.
LEMMA PeriodInTime == \A t \in Time : Period(t) \in Time
  <1>1. SUFFICES ASSUME NEW t \in Nat, NEW n \in Nat \ {0}, t <= MaxTime
                 PROVE  t \div n \in 0 .. MaxTime
    BY LimitAssumption DEF Time, Period
  <1>2. t = (n * (t \div n)) + (t % n) /\ t % n \in 0 .. (n - 1)
    BY SMT
  <1>3. t \div n \in Int
    BY SMT
  <1>4. t \div n >= 0 /\ t \div n <= t
    BY <1>2, <1>3, SMT
  <1> QED BY <1>1, <1>3, <1>4, LimitAssumption, SMT

\* There are finitely many purchases, hence finitely many slots of any kind.
LEMMA PurchasesFinite ==
    /\ IsFiniteSet(Purchases)
    /\ \A S \in SUBSET Purchases : IsFiniteSet(S) /\ Cardinality(S) \in Nat
  <1>1. IsFiniteSet(Purchases)
    BY LimitAssumption, FS_Union DEF Purchases
  <1> QED BY <1>1, FS_Subset, FS_CardinalityType

\* A slot more or a slot less changes the number of slots by one.
LEMMA OneMore ==
    ASSUME NEW S \in SUBSET Purchases, NEW p \in Purchases, p \notin S
    PROVE  Cardinality(S \cup {p}) = Cardinality(S) + 1
  BY PurchasesFinite, FS_AddElement

LEMMA OneLess ==
    ASSUME NEW S \in SUBSET Purchases, NEW p \in S
    PROVE  Cardinality(S \ {p}) = Cardinality(S) - 1 /\ Cardinality(S) >= 1
  <1>1. IsFiniteSet(S) /\ Cardinality(S) \in Nat /\ p \in Purchases
    BY PurchasesFinite
  <1>2. IsFiniteSet(S \ {p}) /\ Cardinality(S \ {p}) = Cardinality(S) - 1
    BY <1>1, FS_RemoveElement
  <1> QED BY <1>1, <1>2, FS_CardinalityType

-----------------------------------------------------------------------------
\* A purchase takes a slot: one row enters a period, one count goes up.
LEMMA TakeSlotStep ==
    ASSUME LimitInv,
           NEW p \in Purchases, NEW t \in Time, NEW s \in {"reserved", "consumed"},
           ~Active(p),
           TakeSlot(p, t, s)
    PROVE  LimitInv'
  <1> DEFINE q == Period(t)
             other == IF s = "reserved" THEN "consumed" ELSE "reserved"
  <1>0. q \in Time /\ ~Active(p)
    BY PeriodInTime
  <1>1. LimitTypeOK'
    BY <1>0 DEF LimitInv, LimitTypeOK, TakeSlot, CountersShift, Shift, Count, SlotStates, Active
  <1>2. \A u \in Time : /\ p \notin SlotsIn(s, u)
                        /\ SlotsIn(other, u)' = SlotsIn(other, u)
                        /\ SlotsIn(s, u)' = IF u = q THEN SlotsIn(s, u) \cup {p}
                                                    ELSE SlotsIn(s, u)
    BY <1>0 DEF LimitInv, LimitTypeOK, TakeSlot, SlotsIn, Active
  <1>3. /\ p \notin Slots(s)
        /\ Slots(other)' = Slots(other)
        /\ Slots(s)' = Slots(s) \cup {p}
    BY <1>0 DEF LimitInv, LimitTypeOK, TakeSlot, Slots, Active
  <1>4. CountersMatchSlots'
    <2>1. ASSUME ~UsesEvents', NEW u \in Time
          PROVE  /\ (periodCount[u].reserved)' = Cardinality(SlotsIn("reserved", u)')
                 /\ (periodCount[u].consumed)' = Cardinality(SlotsIn("consumed", u)')
      <3>1. /\ periodCount[u].reserved = Cardinality(SlotsIn("reserved", u))
            /\ periodCount[u].consumed = Cardinality(SlotsIn("consumed", u))
            /\ periodCount \in [Time -> Count]
        BY <2>1 DEF LimitInv, LimitTypeOK, CountersMatchSlots, UsesEvents
      <3>2. periodCount' = [periodCount EXCEPT ![q] =
                Shift(@, IF s = "reserved" THEN 1 ELSE 0, IF s = "consumed" THEN 1 ELSE 0)]
        BY <2>1 DEF TakeSlot, CountersShift, UsesEvents
      <3>3. CASE u = q
        <4>1. Cardinality(SlotsIn(s, u)') = Cardinality(SlotsIn(s, u)) + 1
          BY <1>2, <3>3, OneMore DEF SlotsIn
        <4> QED BY <1>2, <3>1, <3>2, <3>3, <4>1 DEF Shift, Count
      <3>4. CASE u # q
        BY <1>2, <3>1, <3>2, <3>4
      <3> QED BY <3>3, <3>4
    <2>2. /\ (totalCount.reserved)' = Cardinality(Slots("reserved")')
          /\ (totalCount.consumed)' = Cardinality(Slots("consumed")')
      <3>1. Cardinality(Slots(s) \cup {p}) = Cardinality(Slots(s)) + 1
        BY <1>3, OneMore DEF Slots
      <3>2. /\ totalCount' = Shift(totalCount, IF s = "reserved" THEN 1 ELSE 0,
                                              IF s = "consumed" THEN 1 ELSE 0)
            /\ totalCount \in Count
            /\ totalCount.reserved = Cardinality(Slots("reserved"))
            /\ totalCount.consumed = Cardinality(Slots("consumed"))
        BY DEF LimitInv, LimitTypeOK, CountersMatchSlots, TakeSlot, CountersShift
      <3>3. CASE s = "reserved"
        BY <1>3, <3>1, <3>2, <3>3 DEF Shift, Count
      <3>4. CASE s = "consumed"
        BY <1>3, <3>1, <3>2, <3>4 DEF Shift, Count
      <3> QED BY <3>3, <3>4
    <2> QED BY <2>1, <2>2 DEF CountersMatchSlots
  <1>5. CountsWithinLimits'
    <2>1. ASSUME PeriodLimit > 0, ~UsesEvents, NEW u \in Time
          PROVE  (periodCount[u].reserved + periodCount[u].consumed)' <= PeriodLimit
      <3>1. periodCount[q].reserved + periodCount[q].consumed < PeriodLimit
        BY <2>1 DEF TakeSlot, HasRoom, RoomIn
      <3> QED BY <1>0, <2>1, <3>1, LimitAssumption
            DEF LimitInv, LimitTypeOK, CountsWithinLimits, TakeSlot, CountersShift, Shift, Count
    <2>2. ASSUME TotalLimit > 0
          PROVE  (totalCount.reserved + totalCount.consumed)' <= TotalLimit
      BY <2>2, LimitAssumption
      DEF LimitInv, LimitTypeOK, TakeSlot, HasRoom, RoomIn, CountersShift, Shift, Count
    <2> QED BY <2>1, <2>2 DEF CountsWithinLimits, UsesEvents
  <1> QED BY <1>1, <1>4, <1>5 DEF LimitInv

\* A slot moves between states: one row leaves a state of its period and enters
\* another (or none), and the counts follow.
LEMMA MoveSlotStep ==
    ASSUME LimitInv,
           NEW p \in Purchases,
           NEW s \in {"reserved", "consumed"}, NEW r \in {"consumed", "released"}, s # r,
           NEW dr, NEW dc,
           dr = (IF s = "reserved" THEN -1 ELSE 0),
           dc = (IF s = "consumed" THEN -1 ELSE IF r = "consumed" THEN 1 ELSE 0),
           MoveSlot(p, s, r, dr, dc)
    PROVE  LimitInv'
  <1> DEFINE q == periodStart[p]
  <1>0. q \in Time /\ reservation[p] = s
    BY DEF LimitInv, LimitTypeOK, MoveSlot
  <1>1. \A u \in Time :
          /\ SlotsIn(s, u)' = IF u = q THEN SlotsIn(s, u) \ {p} ELSE SlotsIn(s, u)
          /\ SlotsIn(r, u)' = IF u = q THEN SlotsIn(r, u) \cup {p} ELSE SlotsIn(r, u)
          /\ \A z \in SlotStates \ {s, r} : SlotsIn(z, u)' = SlotsIn(z, u)
          /\ p \notin SlotsIn(r, u)
    BY <1>0 DEF LimitInv, LimitTypeOK, MoveSlot, SlotsIn
  <1>2. p \in SlotsIn(s, q) /\ p \in Slots(s)
    BY <1>0 DEF SlotsIn, Slots
  <1>3. /\ Slots(s)' = Slots(s) \ {p}
        /\ Slots(r)' = Slots(r) \cup {p}
        /\ \A z \in SlotStates \ {s, r} : Slots(z)' = Slots(z)
        /\ p \notin Slots(r)
    BY <1>0 DEF LimitInv, LimitTypeOK, MoveSlot, Slots
  <1>4. \A u \in Time : u = q =>
          /\ Cardinality(SlotsIn(s, u)') = Cardinality(SlotsIn(s, u)) - 1
          /\ Cardinality(SlotsIn(s, u)) >= 1
          /\ Cardinality(SlotsIn(r, u)') = Cardinality(SlotsIn(r, u)) + 1
    <2> TAKE u \in Time
    <2> HAVE u = q
    <2>1. /\ SlotsIn(s, u) \in SUBSET Purchases /\ SlotsIn(r, u) \in SUBSET Purchases
          /\ SlotsIn(s, u)' = SlotsIn(s, u) \ {p}
          /\ SlotsIn(r, u)' = SlotsIn(r, u) \cup {p}
          /\ p \in SlotsIn(s, u) /\ p \notin SlotsIn(r, u)
      BY <1>0, <1>1, <1>2 DEF SlotsIn
    <2>2. /\ Cardinality(SlotsIn(s, u) \ {p}) = Cardinality(SlotsIn(s, u)) - 1
          /\ Cardinality(SlotsIn(s, u)) >= 1
          /\ Cardinality(SlotsIn(r, u) \cup {p}) = Cardinality(SlotsIn(r, u)) + 1
      BY <2>1, OneMore, OneLess
    <2> QED BY <2>1, <2>2
  <1>5. /\ Cardinality(Slots(s)') = Cardinality(Slots(s)) - 1
        /\ Cardinality(Slots(s)) >= 1
        /\ Cardinality(Slots(r)') = Cardinality(Slots(r)) + 1
    BY <1>2, <1>3, OneMore, OneLess DEF Slots
  <1>6. /\ totalCount' = Shift(totalCount, dr, dc)
        /\ totalCount \in Count
        /\ totalCount.reserved = Cardinality(Slots("reserved"))
        /\ totalCount.consumed = Cardinality(Slots("consumed"))
    BY DEF LimitInv, LimitTypeOK, CountersMatchSlots, MoveSlot, CountersShift
  <1>7. /\ totalCount' \in Count
        /\ (totalCount.reserved)' = Cardinality(Slots("reserved")')
        /\ (totalCount.consumed)' = Cardinality(Slots("consumed")')
        /\ (totalCount.reserved + totalCount.consumed)'
              <= totalCount.reserved + totalCount.consumed
    <2>1. CASE s = "reserved" /\ r = "consumed"
      <3>1. /\ Cardinality(Slots("reserved")') = Cardinality(Slots("reserved")) - 1
            /\ Cardinality(Slots("reserved")) >= 1
            /\ Cardinality(Slots("consumed")') = Cardinality(Slots("consumed")) + 1
            /\ dr = -1 /\ dc = 1
        BY <1>5, <2>1 DEF Slots
      <3> QED BY <1>6, <3>1 DEF Shift, Count
    <2>2. CASE s = "reserved" /\ r = "released"
      <3>1. /\ Cardinality(Slots("reserved")') = Cardinality(Slots("reserved")) - 1
            /\ Cardinality(Slots("reserved")) >= 1
            /\ dr = -1 /\ dc = 0
        BY <1>5, <2>2 DEF Slots
      <3>2. Slots("consumed")' = Slots("consumed")
        BY <1>3, <2>2 DEF SlotStates
      <3> QED BY <1>6, <3>1, <3>2 DEF Shift, Count
    <2>3. CASE s = "consumed" /\ r = "released"
      <3>1. /\ Cardinality(Slots("consumed")') = Cardinality(Slots("consumed")) - 1
            /\ Cardinality(Slots("consumed")) >= 1
            /\ dr = 0 /\ dc = -1
        BY <1>5, <2>3 DEF Slots
      <3>2. Slots("reserved")' = Slots("reserved")
        BY <1>3, <2>3 DEF SlotStates
      <3> QED BY <1>6, <3>1, <3>2 DEF Shift, Count
    <2> QED BY <2>1, <2>2, <2>3
  <1>8. ASSUME ~UsesEvents, NEW u \in Time
        PROVE  /\ periodCount'[u] \in Count
               /\ periodCount'[u].reserved = Cardinality(SlotsIn("reserved", u)')
               /\ periodCount'[u].consumed = Cardinality(SlotsIn("consumed", u)')
               /\ periodCount'[u].reserved + periodCount'[u].consumed
                     <= periodCount[u].reserved + periodCount[u].consumed
    <2>1. /\ periodCount' = [periodCount EXCEPT ![q] = Shift(@, dr, dc)]
          /\ periodCount \in [Time -> Count]
          /\ periodCount[u].reserved = Cardinality(SlotsIn("reserved", u))
          /\ periodCount[u].consumed = Cardinality(SlotsIn("consumed", u))
      BY <1>8 DEF LimitInv, LimitTypeOK, CountersMatchSlots, MoveSlot, CountersShift
    <2>2. CASE u # q
      <3>1. /\ SlotsIn("reserved", u)' = SlotsIn("reserved", u)
            /\ SlotsIn("consumed", u)' = SlotsIn("consumed", u)
        BY <1>1, <2>2 DEF SlotStates
      <3> QED BY <2>1, <2>2, <3>1 DEF Count
    <2>3. CASE u = q /\ s = "reserved" /\ r = "consumed"
      <3>1. /\ Cardinality(SlotsIn("reserved", u)') = Cardinality(SlotsIn("reserved", u)) - 1
            /\ Cardinality(SlotsIn("reserved", u)) >= 1
            /\ Cardinality(SlotsIn("consumed", u)') = Cardinality(SlotsIn("consumed", u)) + 1
            /\ dr = -1 /\ dc = 1
        BY <1>4, <2>3 DEF SlotsIn
      <3> QED BY <2>1, <2>3, <3>1 DEF Shift, Count
    <2>4. CASE u = q /\ s = "reserved" /\ r = "released"
      <3>1. /\ Cardinality(SlotsIn("reserved", u)') = Cardinality(SlotsIn("reserved", u)) - 1
            /\ Cardinality(SlotsIn("reserved", u)) >= 1
            /\ dr = -1 /\ dc = 0
        BY <1>4, <2>4 DEF SlotsIn
      <3>2. SlotsIn("consumed", u)' = SlotsIn("consumed", u)
        BY <1>1, <2>4 DEF SlotStates
      <3> QED BY <2>1, <2>4, <3>1, <3>2 DEF Shift, Count
    <2>5. CASE u = q /\ s = "consumed" /\ r = "released"
      <3>1. /\ Cardinality(SlotsIn("consumed", u)') = Cardinality(SlotsIn("consumed", u)) - 1
            /\ Cardinality(SlotsIn("consumed", u)) >= 1
            /\ dr = 0 /\ dc = -1
        BY <1>4, <2>5 DEF SlotsIn
      <3>2. SlotsIn("reserved", u)' = SlotsIn("reserved", u)
        BY <1>1, <2>5 DEF SlotStates
      <3> QED BY <2>1, <2>5, <3>1, <3>2 DEF Shift, Count
    <2> QED BY <2>2, <2>3, <2>4, <2>5
  <1>9. LimitTypeOK'
    <2>1. periodCount' \in [Time -> Count]
      <3>1. CASE UsesEvents
        BY <3>1 DEF LimitInv, LimitTypeOK, MoveSlot, CountersShift
      <3>2. CASE ~UsesEvents
        <4>1. periodCount' = [periodCount EXCEPT ![q] = Shift(@, dr, dc)]
          BY <3>2 DEF MoveSlot, CountersShift
        <4> QED BY <1>8, <3>2, <4>1 DEF LimitInv, LimitTypeOK
      <3> QED BY <3>1, <3>2
    <2> QED BY <1>7, <2>1 DEF LimitInv, LimitTypeOK, MoveSlot, SlotStates
  <1>10. CountersMatchSlots'
    BY <1>7, <1>8 DEF CountersMatchSlots, UsesEvents
  <1>11. CountsWithinLimits'
    <2>1. ASSUME PeriodLimit > 0, ~UsesEvents, NEW u \in Time
          PROVE  periodCount'[u].reserved + periodCount'[u].consumed <= PeriodLimit
      <3>1. periodCount[u].reserved + periodCount[u].consumed <= PeriodLimit
        BY <2>1 DEF LimitInv, CountsWithinLimits
      <3>2. periodCount[u] \in Count
        BY DEF LimitInv, LimitTypeOK
      <3> QED BY <1>8, <2>1, <3>1, <3>2, LimitAssumption DEF Count
    <2>2. ASSUME TotalLimit > 0
          PROVE  (totalCount.reserved + totalCount.consumed)' <= TotalLimit
      BY <1>6, <1>7, <2>2, LimitAssumption DEF LimitInv, CountsWithinLimits, Count
    <2> QED BY <2>1, <2>2 DEF CountsWithinLimits, UsesEvents
  <1> QED BY <1>9, <1>10, <1>11 DEF LimitInv

-----------------------------------------------------------------------------
LEMMA LimitInitInv == LimitInit => LimitInv
  <1> SUFFICES ASSUME LimitInit PROVE LimitInv
    OBVIOUS
  <1>1. 0 \in Time
    BY LimitAssumption DEF Time
  <1>2. LimitTypeOK
    BY <1>1 DEF LimitInit, LimitTypeOK, Count, SlotStates
  <1>3. \A s \in {"reserved", "consumed"} :
          Slots(s) = {} /\ \A t \in Time : SlotsIn(s, t) = {}
    BY DEF LimitInit, Slots, SlotsIn
  <1>4. CountersMatchSlots
    BY <1>3, FS_EmptySet DEF LimitInit, CountersMatchSlots
  <1>5. CountsWithinLimits
    BY LimitAssumption DEF LimitInit, CountsWithinLimits
  <1> QED BY <1>2, <1>4, <1>5 DEF LimitInv

LEMMA LimitNextInv == LimitInv /\ [LimitNext]_limitVars => LimitInv'
  <1> SUFFICES ASSUME LimitInv, [LimitNext]_limitVars PROVE LimitInv'
    OBVIOUS
  <1>1. Stamps \subseteq Time
    BY DEF Stamps
  <1>2. ASSUME NEW o \in OrderPurchases PROVE o \in Purchases
    BY DEF Purchases
  <1>3. ASSUME NEW o \in OrderPurchases, NEW t \in Stamps, ReservePurchase(o, t)
        PROVE  LimitInv'
    <2> QED BY <1>1, <1>2, <1>3, TakeSlotStep DEF ReservePurchase, Active
  <1>4. ASSUME NEW o \in OrderPurchases, NEW t \in Stamps, ReacquirePurchase(o, t)
        PROVE  LimitInv'
    <2> QED BY <1>1, <1>2, <1>4, TakeSlotStep DEF ReacquirePurchase, Active
  <1>5. ASSUME NEW o \in OrderPurchases, ConsumePurchase(o)
        PROVE  LimitInv'
    <2> QED BY <1>2, <1>5, MoveSlotStep DEF ConsumePurchase
  <1>6. ASSUME NEW o \in OrderPurchases, ReleaseReserved(o)
        PROVE  LimitInv'
    <2> QED BY <1>2, <1>6, MoveSlotStep DEF ReleaseReserved
  <1>7. ASSUME NEW o \in OrderPurchases, ReleaseConsumed(o)
        PROVE  LimitInv'
    <2> QED BY <1>2, <1>7, MoveSlotStep DEF ReleaseConsumed
  <1>8. ASSUME NEW m \in MallPurchases, NEW t \in Stamps, ImmediatePurchase(m, t)
        PROVE  LimitInv'
    <2>1. m \in Purchases
      BY DEF Purchases
    <2> QED BY <1>1, <1>8, <2>1, TakeSlotStep DEF ImmediatePurchase, Active
  <1>9. ASSUME Tick \/ UNCHANGED limitVars
        PROVE  LimitInv'
    <2>1. clock' \in Time /\ UNCHANGED <<reservation, periodStart, occurredAt,
                                        periodCount, totalCount>>
      BY <1>9, LimitAssumption DEF LimitInv, LimitTypeOK, Tick, limitVars, Time
    <2>2. \A s : Slots(s)' = Slots(s) /\ \A t : SlotsIn(s, t)' = SlotsIn(s, t)
      BY <2>1 DEF Slots, SlotsIn
    <2> QED BY <2>1, <2>2
          DEF LimitInv, LimitTypeOK, CountersMatchSlots, CountsWithinLimits, UsesEvents
  <1> QED BY <1>3, <1>4, <1>5, <1>6, <1>7, <1>8, <1>9 DEF LimitNext

LEMMA LimitInvariance == LimitSpec => []LimitInv
  BY LimitInitInv, LimitNextInv, PTL DEF LimitSpec

-----------------------------------------------------------------------------
\* The state of the three tables stays well formed: in particular no counter
\* ever goes below zero, whatever is released in whatever order.
THEOREM LimitTypes == LimitSpec => []LimitTypeOK
  <1>1. LimitInv => LimitTypeOK
    BY DEF LimitInv
  <1> QED BY <1>1, LimitInvariance, PTL

\* The counter rows are always the counts of the reservation rows, for every
\* set of purchases, every pair of limits and every clock.
THEOREM LimitCounters == LimitSpec => []CountersMatchSlots
  <1>1. LimitInv => CountersMatchSlots
    BY DEF LimitInv
  <1> QED BY <1>1, LimitInvariance, PTL

\* No period, and no total, ever holds more purchases than its limit.
THEOREM LimitRespected == LimitSpec => []WithinLimits
  <1>1. LimitInv => WithinLimits
    BY DEF LimitInv, CountersMatchSlots, CountsWithinLimits, WithinLimits
  <1> QED BY <1>1, LimitInvariance, PTL

-----------------------------------------------------------------------------
(* The rolling limit, but for purchases that overtook each other.          *)

Spaced(bought) == \A p, q \in bought : p # q => Apart(p, q)

SpacedInWindow(u) == {bought \in SUBSET InWindow(u) : Spaced(bought)}

\* No event is in the future: one that is not counted is not later than the skew allows.
RollingInv ==
    UsesEvents =>
      /\ \A p \in Purchases : Active(p) => occurredAt[p] <= clock
      /\ \A u \in Time : \A bought \in SpacedInWindow(u) : Cardinality(bought) <= PeriodLimit

LEMMA Instants ==
    ASSUME LimitInv
    PROVE  /\ clock \in Nat /\ clock \in Time /\ PeriodLength \in Nat /\ PeriodLength > 0
           /\ PeriodLimit \in Nat /\ Time \subseteq Nat
           /\ \A p \in Purchases : occurredAt[p] \in Nat
  BY LimitAssumption DEF LimitInv, LimitTypeOK, Time

\* Purchases that stay within the windows they were in.
LEMMA WindowsShrink ==
    ASSUME LimitInv, RollingInv, clock' \in Nat, clock' >= clock, occurredAt' = occurredAt,
           \A p \in Purchases : Active(p)' => Active(p)
    PROVE  RollingInv'
  <1> SUFFICES ASSUME UsesEvents
               PROVE  /\ \A p \in Purchases : Active(p)' => occurredAt'[p] <= clock'
                      /\ \A u \in Time : \A bought \in SpacedInWindow(u)' :
                           Cardinality(bought) <= PeriodLimit
    BY DEF RollingInv, UsesEvents
  <1>1. \A p \in Purchases : Active(p)' => occurredAt'[p] <= clock'
    BY Instants DEF RollingInv
  <1>2. ASSUME NEW u \in Time PROVE SpacedInWindow(u)' \subseteq SpacedInWindow(u)
    BY DEF SpacedInWindow, InWindow, Spaced, Apart
  <1> QED BY <1>1, <1>2 DEF RollingInv

\* A purchase that finds room comes after all others of its window that are far from it.
LEMMA WindowsTake ==
    ASSUME LimitInv, RollingInv, NEW p \in Purchases, NEW t \in Stamps,
           NEW s \in {"reserved", "consumed"}, ~Active(p), TakeSlot(p, t, s)
    PROVE  RollingInv'
  <1> SUFFICES ASSUME UsesEvents
               PROVE  /\ \A q \in Purchases : Active(q)' => occurredAt'[q] <= clock'
                      /\ \A u \in Time : \A bought \in SpacedInWindow(u)' :
                           Cardinality(bought) <= PeriodLimit
    BY DEF RollingInv, UsesEvents
  <1>1. t <= clock /\ clock - t <= MaxSkew /\ t \in Nat /\ clock' = clock /\ MaxSkew \in Nat
    BY Instants, LimitAssumption DEF Stamps, TakeSlot
  <1>2. /\ occurredAt'[p] = t
        /\ \A q \in Purchases : q # p =>
             occurredAt'[q] = occurredAt[q] /\ (Active(q)' <=> Active(q))
    BY DEF TakeSlot, LimitInv, LimitTypeOK, Active
  <1>3. \A q \in Purchases : Active(q) => occurredAt[q] <= clock /\ occurredAt[q] \in Nat
    BY Instants DEF RollingInv
  <1>4. \A q \in Purchases : Active(q)' => occurredAt'[q] <= clock'
    BY <1>1, <1>2, <1>3
  <1>5. ASSUME NEW u \in Time, NEW bought \in SpacedInWindow(u)'
        PROVE  Cardinality(bought) <= PeriodLimit
    <2>1. /\ bought \subseteq InWindow(u)' /\ bought \subseteq Purchases
          /\ \A q, r \in bought : q # r =>
               \/ occurredAt'[q] - occurredAt'[r] > MaxSkew
               \/ occurredAt'[r] - occurredAt'[q] > MaxSkew
      BY DEF SpacedInWindow, InWindow, Spaced, Apart
    <2>2. CASE p \in bought
      <3>1. EventsBefore(t) \subseteq Purchases /\ p \notin EventsBefore(t)
        BY DEF EventsBefore
      <3>2. /\ IsFiniteSet(EventsBefore(t)) /\ Cardinality(EventsBefore(t)) \in Nat
            /\ Cardinality(EventsBefore(t)) < PeriodLimit
        BY <3>1, PurchasesFinite DEF TakeSlot, HasRoom
      <3>3. bought \subseteq EventsBefore(t) \cup {p}
        <4> SUFFICES ASSUME NEW q \in bought, q # p PROVE q \in EventsBefore(t)
          OBVIOUS
        <4>1. /\ q \in Purchases /\ Active(q) /\ u <= occurredAt[q]
              /\ t < u + PeriodLength
          BY <1>2, <2>1, <2>2 DEF InWindow
        <4>2. occurredAt[q] - t > MaxSkew \/ t - occurredAt[q] > MaxSkew
          BY <1>2, <2>1, <2>2, <4>1
        <4>3. t - PeriodLength <= occurredAt[q] /\ occurredAt[q] < t
          BY <1>1, <1>3, <4>1, <4>2, Instants
        <4> QED BY <4>1, <4>3 DEF EventsBefore
      <3>4. /\ IsFiniteSet(EventsBefore(t) \cup {p})
            /\ Cardinality(EventsBefore(t) \cup {p}) = Cardinality(EventsBefore(t)) + 1
        BY <3>1, <3>2, FS_AddElement
      <3>5. Cardinality(bought) <= Cardinality(EventsBefore(t) \cup {p}) /\ IsFiniteSet(bought)
        BY <3>3, <3>4, FS_Subset
      <3>6. Cardinality(bought) \in Nat
        BY <3>5, FS_CardinalityType
      <3> QED BY <3>2, <3>4, <3>5, <3>6, Instants
    <2>3. CASE p \notin bought
      <3>1. bought \in SpacedInWindow(u)
        BY <1>2, <2>1, <2>3 DEF SpacedInWindow, InWindow, Spaced, Apart
      <3> QED BY <3>1 DEF RollingInv
    <2> QED BY <2>2, <2>3
  <1> QED BY <1>4, <1>5

LEMMA RollingInitInv == LimitInit => RollingInv
  <1> SUFFICES ASSUME LimitInit PROVE RollingInv
    OBVIOUS
  <1>1. \A p \in Purchases : ~Active(p)
    BY DEF LimitInit, Active
  <1>2. \A u \in Time : \A bought \in SpacedInWindow(u) : bought = {}
    BY <1>1 DEF SpacedInWindow, InWindow
  <1>3. Cardinality({}) = 0 /\ PeriodLimit \in Nat
    BY FS_EmptySet, LimitAssumption
  <1>4. \A u \in Time : \A bought \in SpacedInWindow(u) : Cardinality(bought) <= PeriodLimit
    BY <1>2, <1>3
  <1> QED BY <1>1, <1>4 DEF RollingInv

LEMMA RollingNextInv == LimitInv /\ RollingInv /\ [LimitNext]_limitVars => RollingInv'
  <1> SUFFICES ASSUME LimitInv, RollingInv, [LimitNext]_limitVars PROVE RollingInv'
    OBVIOUS
  <1>1. OrderPurchases \subseteq Purchases /\ MallPurchases \subseteq Purchases
    BY DEF Purchases
  <1>2. ASSUME NEW o \in OrderPurchases, NEW t \in Stamps, ReservePurchase(o, t) PROVE RollingInv'
    BY <1>1, <1>2, WindowsTake DEF ReservePurchase, Active
  <1>3. ASSUME NEW o \in OrderPurchases, NEW t \in Stamps, ReacquirePurchase(o, t) PROVE RollingInv'
    BY <1>1, <1>3, WindowsTake DEF ReacquirePurchase, Active
  <1>4. ASSUME NEW m \in MallPurchases, NEW t \in Stamps, ImmediatePurchase(m, t) PROVE RollingInv'
    BY <1>1, <1>4, WindowsTake DEF ImmediatePurchase, Active
  <1>5. ASSUME NEW o \in OrderPurchases,
               ConsumePurchase(o) \/ ReleaseReserved(o) \/ ReleaseConsumed(o)
        PROVE  RollingInv'
    <2>1. /\ reservation[o] \in {"reserved", "consumed"} /\ clock' = clock
          /\ occurredAt' = occurredAt
          /\ \E r : reservation' = [reservation EXCEPT ![o] = r]
      BY <1>5 DEF ConsumePurchase, ReleaseReserved, ReleaseConsumed, MoveSlot
    <2>2. \A p \in Purchases : Active(p)' => Active(p)
      BY <1>1, <2>1 DEF LimitInv, LimitTypeOK, Active
    <2> QED BY <2>1, <2>2, WindowsShrink, Instants
  <1>6. CASE Tick \/ UNCHANGED limitVars
    <2>1. /\ clock' \in Nat /\ clock' >= clock /\ occurredAt' = occurredAt
          /\ reservation' = reservation
      BY <1>6, Instants DEF Tick, limitVars
    <2> QED BY <2>1, WindowsShrink DEF Active
  <1> QED BY <1>2, <1>3, <1>4, <1>5, <1>6 DEF LimitNext

\* reservePurchaseTx, reacquireAndConsumePurchaseTx, consumeImmediatePurchaseCounters:
\* however late a handler commits after it read the clock, at most the limit of the
\* purchases of a window are so far apart that none can have overtaken another.
THEOREM LimitRolling == LimitSpec => []RollingLimitButOvertaken
  <1>1. RollingInv => RollingLimitButOvertaken
    BY DEF RollingInv, RollingLimitButOvertaken, SpacedInWindow, Spaced
  <1> QED BY <1>1, RollingInitInv, RollingNextInv, LimitInvariance, PTL DEF LimitSpec

-----------------------------------------------------------------------------
(* 1. The limit tables. *)

LEMMA SlotRelease ==
    ASSUME NEW o \in Orders, ReleaseSlot(o)
    PROVE  [LimitNext]_limitVars
  BY DEF ReleaseSlot, LimitNext

LEMMA ContinueKeepsLimits ==
    ASSUME NEW w \in Workers, WorkerTypeOK, Continue(w)
    PROVE  [LimitNext]_limitVars
  <1>1. CASE \E o \in Orders : CreateInsert(w, o)
    BY <1>1 DEF CreateInsert, LimitNext
  <1>2. CASE FailPending(w)
    <2>1. job[w] \in Orders
      BY <1>2 DEF FailPending, WorkerTypeOK
    <2> QED BY <1>2, <2>1, SlotRelease DEF FailPending, limitVars
  <1>3. CASE CancelOrder(w)
    <2>1. job[w] \in Orders
      BY <1>3 DEF CancelOrder, WorkerTypeOK
    <2> QED BY <1>3, <2>1, SlotRelease DEF CancelOrder, limitVars
  <1>4. CASE ToPaid(w)
    BY <1>4 DEF ToPaid, LimitNext
  <1>5. CASE \/ CreateRefused(w) \/ RefuseAmount(w) \/ TooLate(w) \/ NotToPaid(w)
             \/ AlreadyProcessed(w) \/ Check(w) \/ Lookup(w)
    BY <1>5 DEF CreateRefused, RefuseAmount, TooLate, NotToPaid, AlreadyProcessed, Check,
                Lookup, OnlyWorker
  <1>6. CASE \/ InvokeProvider(w) \/ RecordDetails(w) \/ RejectPayment(w) \/ RejectAudit(w)
             \/ RejectAttempt(w) \/ Recover(w) \/ Acquire(w) \/ Reload(w) \/ CreateCode(w)
             \/ Redeem(w) \/ AssignSubscription(w) \/ Rebate(w) \/ Complete(w)
             \/ MarkFailed(w) \/ QueryProvider(w) \/ PersistTradeNo(w)
    BY <1>6 DEF InvokeProvider, RecordDetails, RejectPayment, RejectAudit, RejectAttempt,
                Recover, Acquire, Reload, CreateCode, Redeem, AssignSubscription, Rebate,
                Complete, MarkFailed, QueryProvider, PersistTradeNo
  <1> QED BY <1>1, <1>2, <1>3, <1>4, <1>5, <1>6 DEF Continue

LEMMA BeginKeepsLimits ==
    ASSUME NEW w \in Workers, Begin(w)
    PROVE  UNCHANGED limitVars
  BY DEF Begin, CreateCheck, Webhook, AdminRecover, RetryFulfillment, Cancel, Expire,
         Verify, Ask, OnlyWorker

LEMMA EnvironmentKeepsLimits == ASSUME Environment PROVE [LimitNext]_limitVars
  <1>1. CASE Day
    BY <1>1 DEF Day, LimitNext
  <1>2. CASE BuyInMall
    BY <1>2 DEF BuyInMall, LimitNext
  <1>3. ASSUME NEW o \in Orders, Refund(o) PROVE [LimitNext]_limitVars
    <2>1. CASE SettleRefund(o)
      BY <2>1 DEF SettleRefund, LimitNext
    <2> QED BY <1>3, <2>1 DEF Refund, RequestRefund, BeginRefund, ParkRefund, ReturnRefund
  <1>4. ASSUME NEW o \in Orders, Pay(o) \/ TimeOut(o) \/ Age(o) PROVE UNCHANGED limitVars
    BY <1>4 DEF Pay, TimeOut, Age
  <1>5. ASSUME NEW w \in Workers, Stop(w) \/ DatabaseError(w) PROVE UNCHANGED limitVars
    BY <1>5 DEF Stop, DatabaseError, OnlyWorker
  <1> QED BY <1>1, <1>2, <1>3, <1>4, <1>5 DEF Environment

LEMMA OrderStepIsLimitStep ==
    ASSUME WorkerTypeOK, [OrderNext]_orderVars
    PROVE  [LimitNext]_limitVars
  <1>1. CASE OrderNext
    BY <1>1, ContinueKeepsLimits, BeginKeepsLimits, EnvironmentKeepsLimits DEF OrderNext
  <1>2. CASE UNCHANGED orderVars
    BY <1>2 DEF orderVars
  <1> QED BY <1>1, <1>2

-----------------------------------------------------------------------------
(* 2. Types. *)

\* A handler moves on, begins or ends.
LEMMA GotoTypes ==
    ASSUME WorkerTypeOK, NEW w \in Workers, NEW l \in Step,
           pc[w] \notin {"idle", "insert"}, Goto(w, l)
    PROVE  WorkerTypeOK'
  BY DEF WorkerTypeOK, Goto

LEMMA StartTypes ==
    ASSUME WorkerTypeOK, NEW w \in Workers, NEW o \in Orders \cup {NoOrder},
           NEW l \in Step, o = NoOrder => l = "insert", Start(w, o, l)
    PROVE  WorkerTypeOK'
  BY OrderAssumption DEF WorkerTypeOK, Start

LEMMA FinishTypes ==
    ASSUME WorkerTypeOK, NEW w \in Workers, Finish(w)
    PROVE  WorkerTypeOK'
  BY DEF WorkerTypeOK, Finish, Step

\* The worker of a step that is neither idle nor about to insert has an order.
LEMMA JobTypes ==
    ASSUME WorkerTypeOK, NEW w \in Workers, pc[w] \notin {"idle", "insert"}
    PROVE  job[w] \in Orders
  BY DEF WorkerTypeOK

\* Updates of the row.
LEMMA TouchTypes ==
    ASSUME RowTypeOK, NEW o \in Orders, Touch(o)
    PROVE  aged' \in [Orders -> BOOLEAN] /\ holders' \in [Orders -> SUBSET Workers]
  BY DEF RowTypeOK, Touch

LEMMA StatusTypes ==
    ASSUME RowTypeOK, NEW o \in Orders, NEW s \in OrderStatus, SetStatus(o, s)
    PROVE  /\ status' \in [Orders -> OrderStatus]
           /\ aged' \in [Orders -> BOOLEAN]
           /\ holders' \in [Orders -> SUBSET Workers]
  BY TouchTypes DEF RowTypeOK, SetStatus

LEMMA QuietTypes ==
    ASSUME RowTypeOK, OnlyWorker
    PROVE  RowTypeOK'
  BY DEF RowTypeOK, OnlyWorker, rowVars, deliveryVars, outsideVars

LEMMA BeginTypes ==
    ASSUME RowTypeOK, WorkerTypeOK, NEW w \in Workers, Begin(w)
    PROVE  RowTypeOK' /\ WorkerTypeOK'
  <1>1. CASE CreateCheck(w)
    BY <1>1, StartTypes, QuietTypes DEF CreateCheck, Step
  <1>2. ASSUME NEW o \in Orders,
               Webhook(w, o) \/ AdminRecover(w, o) \/ RetryFulfillment(w, o)
        PROVE  RowTypeOK' /\ WorkerTypeOK'
    <2>1. o # NoOrder
      BY OrderAssumption
    <2> QED BY <1>2, <2>1, StartTypes, QuietTypes
          DEF Webhook, AdminRecover, RetryFulfillment, Step
  <1>3. ASSUME NEW o \in Orders, NEW s \in {"none", "CANCELLED", "EXPIRED"}, Ask(w, o, s)
        PROVE  RowTypeOK' /\ WorkerTypeOK'
    BY <1>3, QuietTypes DEF Ask, WorkerTypeOK, RowTypeOK, Step
  <1> QED BY <1>1, <1>2, <1>3 DEF Begin, Cancel, Expire, Verify

LEMMA CreationTypes ==
    ASSUME RowTypeOK, WorkerTypeOK, NEW w \in Workers,
           \/ CreateRefused(w) \/ (\E o \in Orders : CreateInsert(w, o))
           \/ InvokeProvider(w) \/ RecordDetails(w) \/ FailPending(w)
    PROVE  RowTypeOK' /\ WorkerTypeOK'
  <1>1. CASE CreateRefused(w)
    BY <1>1, FinishTypes, QuietTypes DEF CreateRefused
  <1>2. ASSUME NEW o \in Orders, CreateInsert(w, o) PROVE RowTypeOK' /\ WorkerTypeOK'
    <2>1. WorkerTypeOK'
      BY <1>2 DEF CreateInsert, WorkerTypeOK, Step
    <2> QED BY <1>2, <2>1, StatusTypes
          DEF CreateInsert, RowTypeOK, OrderStatus, deliveryVars, outsideVars
  <1>3. CASE InvokeProvider(w)
    <2>1. WorkerTypeOK'
      BY <1>3, GotoTypes DEF InvokeProvider, Step
    <2>2. job[w] \in Orders
      BY <1>3, JobTypes DEF InvokeProvider
    <2> QED BY <1>3, <2>1, <2>2 DEF InvokeProvider, RowTypeOK, rowVars, deliveryVars
  <1>4. CASE RecordDetails(w)
    BY <1>4, FinishTypes, JobTypes, TouchTypes
       DEF RecordDetails, RowTypeOK, deliveryVars, outsideVars
  <1>5. CASE FailPending(w)
    <2>1. job[w] \in Orders /\ WorkerTypeOK'
      BY <1>5, FinishTypes, JobTypes DEF FailPending
    <2>2. \/ SetStatus(job[w], "FAILED")
          \/ UNCHANGED <<status, aged, holders>>
      BY <1>5 DEF FailPending
    <2> QED BY <1>5, <2>1, <2>2, StatusTypes
          DEF FailPending, RowTypeOK, OrderStatus, deliveryVars, outsideVars
  <1> QED BY <1>1, <1>2, <1>3, <1>4, <1>5

LEMMA PaymentTypes ==
    ASSUME RowTypeOK, WorkerTypeOK, NEW w \in Workers,
           \/ RefuseAmount(w) \/ ToPaid(w) \/ TooLate(w) \/ NotToPaid(w)
           \/ RejectPayment(w) \/ RejectAudit(w) \/ RejectAttempt(w) \/ Recover(w)
           \/ AlreadyProcessed(w)
    PROVE  RowTypeOK' /\ WorkerTypeOK'
  <1>1. CASE RefuseAmount(w)
    BY <1>1, FinishTypes, QuietTypes DEF RefuseAmount
  <1>2. CASE ToPaid(w)
    <2>1. job[w] \in Orders /\ WorkerTypeOK'
      BY <1>2, JobTypes, GotoTypes DEF ToPaid, Step
    <2> QED BY <1>2, <2>1, StatusTypes
          DEF ToPaid, RowTypeOK, OrderStatus, deliveryVars, outsideVars
  <1>3. CASE TooLate(w)
    BY <1>3, GotoTypes, QuietTypes DEF TooLate, Step
  <1>4. CASE NotToPaid(w)
    BY <1>4, GotoTypes, FinishTypes, QuietTypes DEF NotToPaid, RecoverRejected, Step
  <1>5. CASE RejectPayment(w)
    <2>1. job[w] \in Orders /\ WorkerTypeOK'
      BY <1>5, JobTypes, GotoTypes, FinishTypes DEF RejectPayment, RecoverRejected, Step
    <2>2. \/ /\ SetStatus(job[w], "REFUNDING")
             /\ paidAt'  = [paidAt EXCEPT ![job[w]] = TRUE]
             /\ tradeNo' = [tradeNo EXCEPT ![job[w]] = TRUE]
          \/ UNCHANGED rowVars
      BY <1>5 DEF RejectPayment
    <2> QED BY <1>5, <2>1, <2>2, StatusTypes
          DEF RejectPayment, RowTypeOK, OrderStatus, RefundStatus, rowVars, deliveryVars,
              outsideVars
  <1>6. CASE RejectAudit(w)
    BY <1>6, JobTypes, GotoTypes DEF RejectAudit, Step, RowTypeOK, rowVars, deliveryVars
  <1>7. CASE RejectAttempt(w)
    BY <1>7, JobTypes, FinishTypes DEF RejectAttempt, RowTypeOK, rowVars, deliveryVars
  <1>8. CASE Recover(w)
    <2>1. job[w] \in Orders /\ WorkerTypeOK'
      BY <1>8, JobTypes, FinishTypes DEF Recover
    <2>2. SetStatus(job[w], "REFUND_PENDING") \/ UNCHANGED <<status, aged, holders>>
      BY <1>8 DEF Recover
    <2> QED BY <1>8, <2>1, <2>2, StatusTypes
          DEF Recover, RowTypeOK, OrderStatus, RefundStatus, deliveryVars, outsideVars
  <1>9. CASE AlreadyProcessed(w)
    BY <1>9, GotoTypes, FinishTypes, QuietTypes DEF AlreadyProcessed, Step
  <1> QED BY <1>1, <1>2, <1>3, <1>4, <1>5, <1>6, <1>7, <1>8, <1>9

LEMMA DeliveryTypes ==
    ASSUME RowTypeOK, WorkerTypeOK, NEW w \in Workers,
           \/ Check(w) \/ Acquire(w) \/ Reload(w)
           \/ Lookup(w) \/ CreateCode(w) \/ Redeem(w) \/ AssignSubscription(w)
           \/ Rebate(w) \/ Complete(w) \/ MarkFailed(w)
    PROVE  RowTypeOK' /\ WorkerTypeOK'
  <1> DEFINE o == job[w]
  <1>1. CASE Check(w)
    BY <1>1, GotoTypes, FinishTypes, QuietTypes DEF Check, Step
  <1>2. CASE Acquire(w)
    <2>1. o \in Orders /\ WorkerTypeOK'
      BY <1>2, JobTypes, GotoTypes, FinishTypes DEF Acquire, Step
    <2>2. SetStatus(o, "RECHARGING") \/ UNCHANGED <<status, aged, holders>>
      BY <1>2 DEF Acquire
    <2> QED BY <1>2, <2>1, <2>2, StatusTypes
          DEF Acquire, RowTypeOK, OrderStatus, deliveryVars, outsideVars
  <1>3. CASE Reload(w)
    <2>1. o \in Orders /\ WorkerTypeOK'
      BY <1>3, JobTypes, GotoTypes, FinishTypes DEF Reload, Step
    <2> QED BY <1>3, <2>1 DEF Reload, RowTypeOK, deliveryVars, outsideVars
  <1>4. CASE Lookup(w)
    BY <1>4, GotoTypes, QuietTypes DEF Lookup, Step
  <1>5. CASE CreateCode(w)
    <2>1. o \in Orders /\ WorkerTypeOK'
      BY <1>5, JobTypes, GotoTypes DEF CreateCode, Step
    <2> QED BY <1>5, <2>1 DEF CreateCode, RowTypeOK, rowVars, outsideVars
  <1>6. CASE Redeem(w)
    <2>1. o \in Orders /\ WorkerTypeOK'
      BY <1>6, JobTypes, GotoTypes DEF Redeem, Step
    <2> QED BY <1>6, <2>1 DEF Redeem, RowTypeOK, rowVars, outsideVars
  <1>7. CASE AssignSubscription(w)
    <2>1. o \in Orders /\ WorkerTypeOK'
      BY <1>7, JobTypes, GotoTypes DEF AssignSubscription, Step
    <2> QED BY <1>7, <2>1 DEF AssignSubscription, RowTypeOK, rowVars, outsideVars
  <1>8. CASE Rebate(w)
    <2>1. o \in Orders /\ WorkerTypeOK'
      BY <1>8, JobTypes, GotoTypes DEF Rebate, Step
    <2> QED BY <1>8, <2>1 DEF Rebate, RowTypeOK, rowVars, outsideVars
  <1>9. CASE Complete(w) \/ MarkFailed(w)
    <2>1. o \in Orders /\ WorkerTypeOK'
      BY <1>9, JobTypes, GotoTypes, FinishTypes DEF Complete, MarkFailed, Step
    <2>2. \/ SetStatus(o, "COMPLETED") \/ SetStatus(o, "FAILED")
          \/ UNCHANGED <<status, aged, holders>>
      BY <1>9 DEF Complete, MarkFailed
    <2> QED BY <1>9, <2>1, <2>2, StatusTypes
          DEF Complete, MarkFailed, RowTypeOK, OrderStatus, deliveryVars, outsideVars
  <1> QED BY <1>1, <1>2, <1>3, <1>4, <1>5, <1>6, <1>7, <1>8, <1>9

LEMMA CancellationTypes ==
    ASSUME RowTypeOK, WorkerTypeOK, NEW w \in Workers,
           QueryProvider(w) \/ PersistTradeNo(w) \/ CancelOrder(w),
           pc[w] = "cancel" => goal[w] # "none"
    PROVE  RowTypeOK' /\ WorkerTypeOK'
  <1>1. CASE QueryProvider(w)
    <2>1. job[w] \in Orders /\ WorkerTypeOK'
      BY <1>1, JobTypes, GotoTypes, FinishTypes DEF QueryProvider, Step
    <2> QED BY <1>1, <2>1 DEF QueryProvider, RowTypeOK, rowVars, deliveryVars
  <1>2. CASE PersistTradeNo(w)
    BY <1>2, GotoTypes, JobTypes, TouchTypes
       DEF PersistTradeNo, RowTypeOK, Step, deliveryVars, outsideVars
  <1>3. CASE CancelOrder(w)
    <2>1. job[w] \in Orders /\ WorkerTypeOK' /\ goal[w] \in OrderStatus
      BY <1>3, FinishTypes, JobTypes DEF CancelOrder, WorkerTypeOK, OrderStatus
    <2>2. SetStatus(job[w], goal[w]) \/ UNCHANGED <<status, aged, holders>>
      BY <1>3 DEF CancelOrder
    <2> QED BY <1>3, <2>1, <2>2, StatusTypes
          DEF CancelOrder, RowTypeOK, deliveryVars, outsideVars
  <1> QED BY <1>1, <1>2, <1>3

LEMMA EnvironmentTypes ==
    ASSUME RowTypeOK, WorkerTypeOK, Environment
    PROVE  RowTypeOK' /\ WorkerTypeOK'
  <1>1. CASE Day \/ BuyInMall
    BY <1>1 DEF Day, BuyInMall, RowTypeOK, WorkerTypeOK, rowVars, deliveryVars, outsideVars,
                workerVars
  <1>2. ASSUME NEW o \in Orders, Refund(o) PROVE RowTypeOK' /\ WorkerTypeOK'
    <2>1. PICK s \in OrderStatus : MoveRow(o, s)
      BY <1>2 DEF Refund, RequestRefund, BeginRefund, ParkRefund, SettleRefund, ReturnRefund,
                  OrderStatus, RefundStatus
    <2>2. attempt' \in [Orders -> BOOLEAN]
      BY <1>2 DEF Refund, RequestRefund, BeginRefund, ParkRefund, SettleRefund, ReturnRefund,
                  RowTypeOK
    <2> QED BY <2>1, <2>2, StatusTypes
          DEF MoveRow, RowTypeOK, WorkerTypeOK, deliveryVars, workerVars
  <1>3. ASSUME NEW o \in Orders, Pay(o) \/ TimeOut(o) \/ Age(o)
        PROVE  RowTypeOK' /\ WorkerTypeOK'
    <2>1. CASE Pay(o)
      BY <2>1 DEF Pay, RowTypeOK, WorkerTypeOK, rowVars, deliveryVars, outsideVars, workerVars
    <2>2. CASE TimeOut(o)
      BY <2>2 DEF TimeOut, RowTypeOK, WorkerTypeOK, rowVars, deliveryVars, outsideVars, workerVars
    <2>3. CASE Age(o)
      BY <2>3 DEF Age, RowTypeOK, WorkerTypeOK, rowVars, deliveryVars, outsideVars, workerVars
    <2> QED BY <1>3, <2>1, <2>2, <2>3
  <1>4. ASSUME NEW w \in Workers, Stop(w) PROVE RowTypeOK' /\ WorkerTypeOK'
    BY <1>4, QuietTypes, OrderAssumption DEF Stop, WorkerTypeOK, Step
  <1>5. ASSUME NEW w \in Workers, DatabaseError(w) PROVE RowTypeOK' /\ WorkerTypeOK'
    <2>1. PICK e \in AfterError : pc[w] = e[1] /\ pc' = [pc EXCEPT ![w] = e[2]]
      BY <1>5 DEF DatabaseError
    <2>2. e[1] \notin {"idle", "insert"} /\ e[2] \in Step
      BY DEF AfterError, Step
    <2> QED BY <1>5, <2>1, <2>2, QuietTypes, OrderAssumption DEF DatabaseError, WorkerTypeOK
  <1> QED BY <1>1, <1>2, <1>3, <1>4, <1>5 DEF Environment

-----------------------------------------------------------------------------
(* 3. The inductive invariant.                                             *)
(*                                                                         *)
(* A worker that delivers acts on what it read steps ago, so its place in  *)
(* the code must imply facts about the row that no other worker can undo:  *)
(* that the order was paid and is not rejected (Deliverable), that it was  *)
(* credited, that its rebate was settled.                                  *)

\* Claimed for a refund without having been delivered.
Rejected(o) == status[o] \in RefundStatus /\ credited[o] = 0

Deliverable(o) == paidAt[o] /\ ~Rejected(o)

OrderFacts(o) ==
    /\ status[o] \in {"NONE", "PENDING", "CANCELLED", "EXPIRED"} => ~paidAt[o]
    /\ status[o] \in RefundStatus \cup {"PAID", "RECHARGING", "COMPLETED", "REFUND_REQUESTED"}
         => paidAt[o]
    /\ paidAt[o] => bill[o] = "paid"
    /\ credited[o] \in {0, 1} /\ rebated[o] \in {0, 1}
    /\ code[o] = "used" <=> credited[o] = 1
    /\ credited[o] = 1 => paidAt[o]
    /\ status[o] \in {"COMPLETED", "REFUND_REQUESTED"} => credited[o] = 1 /\ rebated[o] = 1
    /\ rejected[o] => Rejected(o)

Good(o) == OrderFacts(o) /\ (o \in OrderPurchases => SlotMatches(o))

Delivering ==
    {"acquire", "reload", "lookup", "create", "redeem", "assign", "rebate", "complete",
     "fail"}

WorkerFacts(w) ==
    LET o == job[w] IN
    /\ pc[w] \in Delivering => Deliverable(o)
    /\ pc[w] \in {"rebate", "complete"} => credited[o] = 1
    /\ pc[w] = "complete" => rebated[o] = 1
    /\ pc[w] = "reject" => bill[o] = "paid"
    /\ pc[w] \in {"audit", "attempt"} => Rejected(o)
    /\ pc[w] = "cancel" => goal[w] # "none"

OrderInv ==
    /\ RowTypeOK /\ WorkerTypeOK
    /\ \A o \in Orders : Good(o)
    /\ \A w \in Workers : WorkerFacts(w)

\* What no step takes away from an order.
Stable(o) ==
    /\ Deliverable(o) => Deliverable(o)'
    /\ credited[o] = 1 => credited'[o] = 1
    /\ rebated[o] = 1 => rebated'[o] = 1
    /\ bill[o] = "paid" => bill'[o] = "paid"
    /\ Rejected(o) => Rejected(o)'

\* A step that does not concern an order.
SameRow(o) ==
    /\ status'[o] = status[o] /\ paidAt'[o] = paidAt[o] /\ code'[o] = code[o]
    /\ credited'[o] = credited[o] /\ rebated'[o] = rebated[o]
    /\ rejected'[o] = rejected[o]
    /\ bill[o] = "paid" => bill'[o] = "paid"
    /\ o \in OrderPurchases => reservation'[o] = reservation[o]

LEMMA SameRowGood ==
    ASSUME NEW o \in Orders, Good(o), SameRow(o)
    PROVE  Good(o)' /\ Stable(o)
  <1>1. OrderFacts(o)' /\ Stable(o)
    BY DEF Good, OrderFacts, SameRow, Stable, Deliverable, Rejected
  <1>2. o \in OrderPurchases => SlotMatches(o)'
    BY DEF Good, SlotMatches, SameRow
  <1> QED BY <1>1, <1>2 DEF Good

\* A step that concerns one order only.
LEMMA OneOrder ==
    ASSUME OrderInv, NEW o \in Orders, Good(o)', Stable(o),
           \A q \in Orders : q # o => SameRow(q)
    PROVE  \A q \in Orders : Good(q)' /\ Stable(q)
  BY SameRowGood DEF OrderInv

\* A step of worker w leaves the facts of the others standing.
LEMMA OtherWorkers ==
    ASSUME OrderInv, NEW w \in Workers, WorkerFacts(w)',
           \A v \in Workers : v # w =>
              pc'[v] = pc[v] /\ job'[v] = job[v] /\ goal'[v] = goal[v],
           \A o \in Orders : Stable(o)
    PROVE  \A v \in Workers : WorkerFacts(v)'
  <1> SUFFICES ASSUME NEW v \in Workers, v # w PROVE WorkerFacts(v)'
    OBVIOUS
  <1>1. WorkerFacts(v) /\ (pc[v] \notin {"idle", "insert"} => job[v] \in Orders)
    BY DEF OrderInv, WorkerTypeOK
  <1> QED BY <1>1 DEF WorkerFacts, Stable, Deliverable, Rejected, Delivering

\* A step that no worker takes.
LEMMA NoWorker ==
    ASSUME OrderInv, UNCHANGED <<pc, job, goal>>, \A o \in Orders : Stable(o)
    PROVE  \A v \in Workers : WorkerFacts(v)'
  <1> SUFFICES ASSUME NEW v \in Workers PROVE WorkerFacts(v)'
    OBVIOUS
  <1>1. WorkerFacts(v) /\ (pc[v] \notin {"idle", "insert"} => job[v] \in Orders)
    BY DEF OrderInv, WorkerTypeOK
  <1> QED BY <1>1 DEF WorkerFacts, Stable, Deliverable, Rejected, Delivering

\* Steps that change neither what an order is nor what its user has.
Quiet ==
    /\ UNCHANGED <<status, paidAt, code, credited, rebated, rejected, reservation>>
    /\ \A o \in Orders : bill[o] = "paid" => bill'[o] = "paid"

LEMMA QuietStep ==
    ASSUME OrderInv, Quiet
    PROVE  \A o \in Orders : Good(o)' /\ Stable(o)
  BY SameRowGood DEF OrderInv, Quiet, SameRow

LEMMA WorkerFrame ==
    ASSUME WorkerTypeOK, NEW w \in Workers, NEW l, NEW o,
           Goto(w, l) \/ Start(w, o, l) \/ Finish(w)
    PROVE  \A v \in Workers : v # w =>
              pc'[v] = pc[v] /\ job'[v] = job[v] /\ goal'[v] = goal[v]
  BY DEF WorkerTypeOK, Goto, Start, Finish

LEMMA GotoFrame ==
    ASSUME WorkerTypeOK, NEW w \in Workers, NEW l, Goto(w, l)
    PROVE  pc'[w] = l /\ job' = job /\ goal' = goal
  BY DEF WorkerTypeOK, Goto

LEMMA FinishFacts ==
    ASSUME WorkerTypeOK, NEW w \in Workers, Finish(w)
    PROVE  WorkerFacts(w)'
  <1>1. pc'[w] = "idle"
    BY DEF WorkerTypeOK, Finish
  <1> QED BY <1>1 DEF WorkerFacts, Delivering

\* The facts a handler needs at the next step, after a quiet step.
LEMMA QuietWorker ==
    ASSUME OrderInv, Quiet, NEW w \in Workers, NEW l, NEW o, WorkerFacts(w)',
           Goto(w, l) \/ Start(w, o, l) \/ Finish(w)
    PROVE  (\A q \in Orders : Good(q)') /\ (\A v \in Workers : WorkerFacts(v)')
  <1>1. \A q \in Orders : Good(q)' /\ Stable(q)
    BY QuietStep
  <1>2. \A v \in Workers : v # w =>
           pc'[v] = pc[v] /\ job'[v] = job[v] /\ goal'[v] = goal[v]
    BY WorkerFrame DEF OrderInv
  <1> QED BY <1>1, <1>2, OtherWorkers

LEMMA QuietIsOnlyWorker == ASSUME OnlyWorker PROVE Quiet
  BY DEF OnlyWorker, Quiet, limitVars, rowVars, deliveryVars, outsideVars

Kept == (\A o \in Orders : Good(o)') /\ (\A w \in Workers : WorkerFacts(w)')

LEMMA BeginKeeps ==
    ASSUME OrderInv, NEW w \in Workers, Begin(w)
    PROVE  Kept
  <1>1. OnlyWorker /\ Quiet
    BY QuietIsOnlyWorker DEF Begin, CreateCheck, Webhook, AdminRecover, RetryFulfillment,
          Cancel, Expire, Verify, Ask
  <1>2. pc'[w] \in {"insert", "confirm", "recover", "check", "query"}
    BY DEF Begin, CreateCheck, Webhook, AdminRecover, RetryFulfillment, Cancel, Expire,
           Verify, Ask, Start, OrderInv, WorkerTypeOK
  <1>3. WorkerFacts(w)'
    BY <1>2 DEF WorkerFacts, Delivering
  <1>4. \A v \in Workers : v # w =>
           pc'[v] = pc[v] /\ job'[v] = job[v] /\ goal'[v] = goal[v]
    BY DEF Begin, CreateCheck, Webhook, AdminRecover, RetryFulfillment, Cancel, Expire,
           Verify, Ask, Start, OrderInv, WorkerTypeOK
  <1>5. \A o \in Orders : Good(o)' /\ Stable(o)
    BY <1>1, QuietStep
  <1> QED BY <1>3, <1>4, <1>5, OtherWorkers DEF Kept

LEMMA QuietStepsKeep ==
    ASSUME OrderInv, NEW w \in Workers,
           \/ CreateRefused(w) \/ InvokeProvider(w) \/ RecordDetails(w) \/ RefuseAmount(w)
           \/ TooLate(w) \/ NotToPaid(w) \/ RejectAttempt(w) \/ AlreadyProcessed(w)
           \/ Check(w) \/ Reload(w) \/ Lookup(w) \/ QueryProvider(w) \/ PersistTradeNo(w)
    PROVE  Kept
  <1> DEFINE o == job[w]
  <1>0. WorkerFacts(w) /\ WorkerTypeOK /\ RowTypeOK
    BY DEF OrderInv
  <1>1. CASE CreateRefused(w) \/ RefuseAmount(w)
    BY <1>0, <1>1, FinishFacts, QuietWorker, QuietIsOnlyWorker
       DEF CreateRefused, RefuseAmount, Kept
  <1>2. CASE InvokeProvider(w)
    <2>1. PICK l \in {"details", "initFailed"} : Goto(w, l)
      BY <1>2 DEF InvokeProvider
    <2>2. WorkerFacts(w)'
      BY <1>0, <2>1, GotoFrame DEF WorkerFacts, Delivering
    <2>3. o \in Orders
      BY <1>0, <1>2, JobTypes DEF InvokeProvider
    <2>4. Quiet
      BY <1>0, <1>2, <2>3
         DEF InvokeProvider, Quiet, RowTypeOK, limitVars, rowVars, deliveryVars
    <2> QED BY <2>1, <2>2, <2>4, QuietWorker DEF Kept
  <1>3. CASE RecordDetails(w)
    <2>1. Quiet
      BY <1>3 DEF RecordDetails, Quiet, limitVars, deliveryVars, outsideVars
    <2> QED BY <1>0, <1>3, <2>1, FinishFacts, QuietWorker DEF RecordDetails, Kept
  <1>4. CASE TooLate(w)
    <2>1. PICK l \in {"reject", "already"} : Goto(w, l)
      BY <1>4 DEF TooLate
    <2>2. Quiet /\ bill[o] = "paid" /\ bill' = bill
      BY <1>4, QuietIsOnlyWorker DEF TooLate, OnlyWorker, outsideVars
    <2>3. WorkerFacts(w)'
      BY <1>0, <2>1, <2>2, GotoFrame DEF WorkerFacts, Delivering
    <2> QED BY <2>1, <2>2, <2>3, QuietWorker DEF Kept
  <1>5. CASE NotToPaid(w)
    <2>1. Quiet
      BY <1>5, QuietIsOnlyWorker DEF NotToPaid
    <2>2. CASE Finish(w)
      BY <1>0, <2>1, <2>2, FinishFacts, QuietWorker DEF Kept
    <2>3. ASSUME NEW l \in {"recover", "already"}, Goto(w, l) PROVE Kept
      <3>1. WorkerFacts(w)'
        BY <1>0, <2>3, GotoFrame DEF WorkerFacts, Delivering
      <3> QED BY <2>1, <2>3, <3>1, QuietWorker DEF Kept
    <2> QED BY <1>5, <2>2, <2>3 DEF NotToPaid, RecoverRejected
  <1>6. CASE RejectAttempt(w)
    <2>1. Quiet
      BY <1>6 DEF RejectAttempt, Quiet, limitVars, rowVars, deliveryVars
    <2> QED BY <1>0, <1>6, <2>1, FinishFacts, QuietWorker DEF RejectAttempt, Kept
  <1>7. CASE AlreadyProcessed(w) \/ Check(w)
    <2>1. OnlyWorker /\ Quiet /\ o \in Orders
      BY <1>0, <1>7, QuietIsOnlyWorker, JobTypes DEF AlreadyProcessed, Check
    <2>2. CASE Finish(w)
      BY <1>0, <2>1, <2>2, FinishFacts, QuietWorker DEF Kept
    <2>3. ASSUME NEW l \in {"check", "acquire"}, Goto(w, l), Fulfillable(o) PROVE Kept
      <3>1. Deliverable(o)
        BY <2>1, <2>3 DEF Fulfillable, Deliverable, Rejected, OrderInv, Good, OrderFacts,
                          RefundStatus
      <3>2. WorkerFacts(w)'
        BY <1>0, <2>1, <2>3, <3>1, GotoFrame
           DEF WorkerFacts, Deliverable, Rejected, Quiet, Delivering
      <3> QED BY <2>1, <2>3, <3>2, QuietWorker DEF Kept
    <2> QED BY <1>7, <2>2, <2>3 DEF AlreadyProcessed, Check
  <1>8. CASE Reload(w)
    <2>1. Quiet
      BY <1>8 DEF Reload, Quiet, limitVars, deliveryVars, outsideVars
    <2>2. CASE Finish(w)
      BY <1>0, <2>1, <2>2, FinishFacts, QuietWorker DEF Kept
    <2>3. ASSUME NEW l \in {"assign", "lookup"}, Goto(w, l) PROVE Kept
      <3>1. Deliverable(o)
        BY <1>0, <1>8 DEF Reload, WorkerFacts, Delivering
      <3>2. WorkerFacts(w)'
        BY <1>0, <2>1, <2>3, <3>1, GotoFrame
           DEF WorkerFacts, Deliverable, Rejected, Quiet, Delivering
      <3> QED BY <2>1, <2>3, <3>2, QuietWorker DEF Kept
    <2> QED BY <1>8, <2>2, <2>3 DEF Reload
  <1>9. CASE Lookup(w)
    <2>1. Quiet /\ Deliverable(o) /\ o \in Orders
      BY <1>0, <1>9, QuietIsOnlyWorker, JobTypes DEF Lookup, WorkerFacts, Delivering
    <2>2. code[o] = "used" => credited[o] = 1
      BY <2>1 DEF OrderInv, Good, OrderFacts
    <2>3. PICK l \in {"rebate", "redeem", "create"} :
             Goto(w, l) /\ (l = "rebate" => code[o] = "used")
      BY <1>9 DEF Lookup
    <2>4. WorkerFacts(w)'
      BY <1>0, <2>1, <2>2, <2>3, GotoFrame
         DEF WorkerFacts, Deliverable, Rejected, Quiet, Delivering
    <2> QED BY <2>1, <2>3, <2>4, QuietWorker DEF Kept
  <1>10. CASE QueryProvider(w)
    <2>1. o \in Orders
      BY <1>0, <1>10, JobTypes DEF QueryProvider
    <2>2. Quiet
      BY <1>0, <1>10, <2>1
         DEF QueryProvider, Quiet, RowTypeOK, limitVars, rowVars, deliveryVars
    <2>3. CASE Finish(w)
      BY <1>0, <2>2, <2>3, FinishFacts, QuietWorker DEF Kept
    <2>4. ASSUME NEW l \in {"confirm", "persist", "cancel"}, Goto(w, l),
                 l = "cancel" => goal[w] # "none"
          PROVE  Kept
      <3>1. WorkerFacts(w)'
        BY <1>0, <2>4, GotoFrame DEF WorkerFacts, Delivering
      <3> QED BY <2>2, <2>4, <3>1, QuietWorker DEF Kept
    <2> QED BY <1>10, <2>3, <2>4 DEF QueryProvider
  <1>11. CASE PersistTradeNo(w)
    <2>1. Quiet /\ Goto(w, "confirm")
      BY <1>11 DEF PersistTradeNo, Quiet, limitVars, deliveryVars, outsideVars
    <2>2. WorkerFacts(w)'
      BY <1>0, <2>1, GotoFrame DEF WorkerFacts, Delivering
    <2> QED BY <2>1, <2>2, QuietWorker DEF Kept
  <1> QED BY <1>1, <1>2, <1>3, <1>4, <1>5, <1>6, <1>7, <1>8, <1>9, <1>10, <1>11

-----------------------------------------------------------------------------
(* The steps that change an order.  Each concerns the order of its worker.  *)

LEMMA EffectKeeps ==
    ASSUME OrderInv, NEW w \in Workers, NEW o \in Orders, NEW l,
           \A q \in Orders : q # o => SameRow(q),
           Good(o)', Stable(o), WorkerFacts(w)', Goto(w, l) \/ Finish(w)
    PROVE  Kept
  <1>1. \A v \in Workers : v # w =>
           pc'[v] = pc[v] /\ job'[v] = job[v] /\ goal'[v] = goal[v]
    BY WorkerFrame DEF OrderInv
  <1> QED BY <1>1, OneOrder, OtherWorkers DEF Kept

\* Only the status of an order, and its slot, change.
LEMMA StatusOnly ==
    ASSUME OrderInv, NEW o \in Orders, NEW s \in OrderStatus, SetStatus(o, s),
           UNCHANGED <<paidAt, deliveryVars, rejected, bill>>,
           \A q \in OrderPurchases : q # o => reservation'[q] = reservation[q]
    PROVE  /\ \A q \in Orders : q # o => SameRow(q)
           /\ status'[o] = s
  BY DEF SetStatus, SameRow, deliveryVars, OrderInv, RowTypeOK

\* The slot of an order that leaves PENDING for good.
LEMMA SlotReleased ==
    ASSUME OrderInv, LimitTypeOK, NEW o \in Orders, status[o] = "PENDING", ReleaseSlot(o)
    PROVE  /\ o \in OrderPurchases => reservation'[o] = "released"
           /\ \A q \in OrderPurchases : q # o => reservation'[q] = reservation[q]
  <1>1. o \in OrderPurchases => reservation[o] = "reserved"
    BY DEF OrderInv, Good, SlotMatches
  <1> QED BY <1>1 DEF ReleaseSlot, ReleaseReserved, MoveSlot, LimitTypeOK, Purchases, limitVars

LEMMA CreateInsertKeeps ==
    ASSUME OrderInv, LimitTypeOK, NEW w \in Workers, NEW o \in Orders, CreateInsert(w, o)
    PROVE  Kept
  <1>1. /\ o \in OrderPurchases => reservation'[o] = "reserved"
        /\ \A q \in OrderPurchases : q # o => reservation'[q] = reservation[q]
    BY DEF CreateInsert, ReservePurchase, TakeSlot, LimitTypeOK, Purchases, limitVars
  <1>2. (\A q \in Orders : q # o => SameRow(q)) /\ status'[o] = "PENDING"
    BY <1>1, StatusOnly DEF CreateInsert, OrderStatus, outsideVars
  <1>3. Good(o)' /\ Stable(o)
    BY <1>1, <1>2 DEF CreateInsert, OrderInv, Good, OrderFacts, Stable, Deliverable, Rejected,
                      SlotMatches, RefundStatus, deliveryVars, outsideVars
  <1>4. pc'[w] = "invoke"
    BY DEF CreateInsert, OrderInv, WorkerTypeOK
  <1>5. WorkerFacts(w)'
    BY <1>4 DEF WorkerFacts, Delivering
  <1>6. \A v \in Workers : v # w =>
           pc'[v] = pc[v] /\ job'[v] = job[v] /\ goal'[v] = goal[v]
    BY DEF CreateInsert, OrderInv, WorkerTypeOK
  <1> QED BY <1>2, <1>3, <1>5, <1>6, OneOrder, OtherWorkers DEF Kept

LEMMA FailPendingKeeps ==
    ASSUME OrderInv, LimitTypeOK, NEW w \in Workers, FailPending(w)
    PROVE  Kept
  <1>1. PICK o \in Orders : o = job[w]
    BY JobTypes DEF FailPending, OrderInv
  <1>2. WorkerFacts(w)'
    BY FinishFacts DEF FailPending, OrderInv
  <1>3. CASE status[o] = "PENDING"
    <2>1. SetStatus(o, "FAILED") /\ ReleaseSlot(o)
      BY <1>1, <1>3 DEF FailPending
    <2>2. (\A q \in Orders : q # o => SameRow(q)) /\ status'[o] = "FAILED"
      BY <1>3, <2>1, SlotReleased, StatusOnly DEF FailPending, OrderStatus, outsideVars
    <2>3. Good(o)' /\ Stable(o)
      BY <1>3, <2>1, <2>2, SlotReleased
         DEF FailPending, OrderInv, Good, OrderFacts, Stable, Deliverable, Rejected, SlotMatches,
             RefundStatus, deliveryVars, outsideVars
    <2> QED BY <1>2, <2>2, <2>3, EffectKeeps DEF FailPending
  <1>4. CASE status[o] # "PENDING"
    BY <1>1, <1>2, <1>4, QuietWorker
       DEF FailPending, Quiet, limitVars, deliveryVars, outsideVars, Kept
  <1> QED BY <1>3, <1>4

LEMMA CancelOrderKeeps ==
    ASSUME OrderInv, LimitTypeOK, NEW w \in Workers, CancelOrder(w)
    PROVE  Kept
  <1>1. PICK o \in Orders, s \in {"CANCELLED", "EXPIRED"} : o = job[w] /\ s = goal[w]
    BY JobTypes DEF CancelOrder, OrderInv, WorkerFacts, WorkerTypeOK
  <1>2. WorkerFacts(w)'
    BY FinishFacts DEF CancelOrder, OrderInv
  <1>3. CASE status[o] = "PENDING"
    <2>1. SetStatus(o, s) /\ ReleaseSlot(o)
      BY <1>1, <1>3 DEF CancelOrder
    <2>2. (\A q \in Orders : q # o => SameRow(q)) /\ status'[o] = s
      BY <1>3, <2>1, SlotReleased, StatusOnly DEF CancelOrder, OrderStatus, outsideVars
    <2>3. Good(o)' /\ Stable(o)
      BY <1>3, <2>1, <2>2, SlotReleased
         DEF CancelOrder, OrderInv, Good, OrderFacts, Stable, Deliverable, Rejected, SlotMatches,
             RefundStatus, deliveryVars, outsideVars
    <2> QED BY <1>2, <2>2, <2>3, EffectKeeps DEF CancelOrder
  <1>4. CASE status[o] # "PENDING"
    BY <1>1, <1>2, <1>4, QuietWorker
       DEF CancelOrder, Quiet, limitVars, deliveryVars, outsideVars, Kept
  <1> QED BY <1>3, <1>4

LEMMA ToPaidKeeps ==
    ASSUME OrderInv, LimitTypeOK, NEW w \in Workers, ToPaid(w)
    PROVE  Kept
  <1>1. PICK o \in Orders : o = job[w]
    BY JobTypes DEF ToPaid, OrderInv
  <1>2. WorkerFacts(w)'
    <2>1. pc'[w] = "check"
      BY GotoFrame DEF ToPaid, OrderInv
    <2> QED BY <2>1 DEF WorkerFacts, Delivering
  <1>3. /\ SetStatus(o, "PAID") /\ paidAt' = [paidAt EXCEPT ![o] = TRUE]
        /\ bill[o] = "paid" /\ ~paidAt[o] /\ ~Rejected(o)
        /\ UNCHANGED <<deliveryVars, rejected, bill>>
    BY <1>1 DEF ToPaid, OrderInv, Good, OrderFacts, Rejected, Revivable, Closed, RefundStatus,
                outsideVars
  <1>4. /\ o \in OrderPurchases => reservation'[o] = "consumed"
        /\ \A q \in OrderPurchases : q # o => reservation'[q] = reservation[q]
    <2>1. CASE o \in OrderPurchases
      <3>1. ConsumePurchase(o) \/ \E t \in Stamps : ReacquirePurchase(o, t)
        BY <1>1, <2>1 DEF ToPaid
      <3> QED BY <2>1, <3>1 DEF ConsumePurchase, ReacquirePurchase, MoveSlot, TakeSlot,
                                LimitTypeOK, Purchases
    <2>2. CASE o \notin OrderPurchases
      BY <1>1, <2>2 DEF ToPaid, limitVars
    <2> QED BY <2>1, <2>2
  <1>5. \A q \in Orders : q # o => SameRow(q)
    BY <1>3, <1>4 DEF SetStatus, SameRow, deliveryVars, OrderInv, RowTypeOK
  <1>6. Good(o)' /\ Stable(o)
    BY <1>3, <1>4 DEF SetStatus, OrderInv, RowTypeOK, Good, OrderFacts, Stable, Deliverable,
                      Rejected, SlotMatches, RefundStatus, deliveryVars
  <1> QED BY <1>2, <1>5, <1>6, EffectKeeps DEF ToPaid

LEMMA RejectPaymentKeeps ==
    ASSUME OrderInv, LimitTypeOK, NEW w \in Workers, RejectPayment(w)
    PROVE  Kept
  <1>1. PICK o \in Orders : o = job[w]
    BY JobTypes DEF RejectPayment, OrderInv
  <1>2. bill[o] = "paid" /\ WorkerTypeOK
    BY <1>1 DEF RejectPayment, OrderInv, WorkerFacts
  <1>3. CASE /\ Closed(o) /\ SetStatus(o, "REFUNDING") /\ Goto(w, "audit")
             /\ paidAt' = [paidAt EXCEPT ![o] = TRUE]
    <2>1. ~paidAt[o] /\ credited[o] = 0 /\ ~Rejected(o)
      BY <1>3 DEF OrderInv, Good, OrderFacts, Closed, Rejected, RefundStatus
    <2>2. \A q \in Orders : q # o => SameRow(q)
      BY <1>3 DEF RejectPayment, SetStatus, SameRow, deliveryVars, outsideVars, limitVars,
                  OrderInv, RowTypeOK
    <2>3. status'[o] = "REFUNDING" /\ paidAt'[o] /\ credited'[o] = 0
      BY <1>3, <2>1 DEF RejectPayment, SetStatus, deliveryVars, OrderInv, RowTypeOK
    <2>4. Good(o)' /\ Stable(o)
      BY <1>2, <1>3, <2>1, <2>3
         DEF RejectPayment, OrderInv, Good, OrderFacts, Stable, Deliverable, Rejected, Closed,
             SlotMatches, RefundStatus, deliveryVars, outsideVars, limitVars
    <2>5. WorkerFacts(w)'
      BY <1>1, <1>2, <1>3, <2>3, GotoFrame DEF WorkerFacts, Delivering, Rejected, RefundStatus
    <2> QED BY <1>3, <2>2, <2>4, <2>5, EffectKeeps
  <1>4. CASE UNCHANGED rowVars /\ ((\E l \in {"recover", "already"} : Goto(w, l)) \/ Finish(w))
    <2>1. Quiet
      BY <1>4 DEF RejectPayment, Quiet, rowVars, limitVars, deliveryVars, outsideVars
    <2>2. WorkerFacts(w)'
      BY <1>2, <1>4, GotoFrame, FinishFacts DEF WorkerFacts, Delivering
    <2> QED BY <1>4, <2>1, <2>2, QuietWorker DEF Kept
  <1> QED BY <1>1, <1>3, <1>4 DEF RejectPayment, RecoverRejected

LEMMA RejectAuditKeeps ==
    ASSUME OrderInv, NEW w \in Workers, RejectAudit(w)
    PROVE  Kept
  <1>1. PICK o \in Orders : o = job[w]
    BY JobTypes DEF RejectAudit, OrderInv
  <1>2. Rejected(o) /\ WorkerTypeOK
    BY <1>1 DEF RejectAudit, OrderInv, WorkerFacts
  <1>3. \A q \in Orders : q # o => SameRow(q)
    BY <1>1 DEF RejectAudit, SameRow, rowVars, deliveryVars, limitVars, OrderInv, RowTypeOK
  <1>4. Good(o)' /\ Stable(o)
    BY <1>1, <1>2 DEF RejectAudit, OrderInv, Good, OrderFacts, Stable, Deliverable, Rejected,
                      SlotMatches, rowVars, deliveryVars, limitVars
  <1>5. WorkerFacts(w)'
    BY <1>1, <1>2, GotoFrame DEF RejectAudit, WorkerFacts, Delivering, Rejected, rowVars,
                                 deliveryVars
  <1> QED BY <1>3, <1>4, <1>5, EffectKeeps DEF RejectAudit

LEMMA RecoverKeeps ==
    ASSUME OrderInv, LimitTypeOK, NEW w \in Workers, Recover(w)
    PROVE  Kept
  <1>1. PICK o \in Orders : o = job[w]
    BY JobTypes DEF Recover, OrderInv
  <1>2. WorkerFacts(w)'
    BY FinishFacts DEF Recover, OrderInv
  <1>3. CASE status[o] = "REFUNDING"
    <2>1. (\A q \in Orders : q # o => SameRow(q)) /\ status'[o] = "REFUND_PENDING"
      BY <1>1, <1>3, StatusOnly
         DEF Recover, OrderStatus, RefundStatus, outsideVars, limitVars
    <2>2. Good(o)' /\ Stable(o)
      BY <1>3, <2>1 DEF Recover, OrderInv, Good, OrderFacts, Stable, Deliverable, Rejected,
                        SlotMatches, RefundStatus, limitVars, deliveryVars, outsideVars
    <2> QED BY <1>2, <2>1, <2>2, EffectKeeps DEF Recover
  <1>4. CASE status[o] # "REFUNDING"
    BY <1>1, <1>2, <1>4, QuietWorker
       DEF Recover, Quiet, limitVars, deliveryVars, outsideVars, Kept
  <1> QED BY <1>3, <1>4

\* acquirePaymentFulfillmentLease, markCompleted and markFailed: the status of
\* an order that is being delivered.
LEMMA LeaseStepsKeep ==
    ASSUME OrderInv, LimitTypeOK, NEW w \in Workers,
           Acquire(w) \/ Complete(w) \/ MarkFailed(w)
    PROVE  Kept
  <1>1. PICK o \in Orders : o = job[w]
    BY JobTypes DEF Acquire, Complete, MarkFailed, OrderInv
  <1>2. /\ Deliverable(o) /\ WorkerTypeOK
        /\ pc[w] = "complete" => credited[o] = 1 /\ rebated[o] = 1
    BY <1>1 DEF Acquire, Complete, MarkFailed, OrderInv, WorkerFacts, Delivering
  <1>3. PICK l \in {"reload", "fail", "idle"} : Goto(w, l) \/ Finish(w)
    BY DEF Acquire, Complete, MarkFailed
  <1>4. /\ UNCHANGED <<paidAt, deliveryVars, rejected, bill, reservation>>
        /\ \/ status[o] \in {"PAID", "FAILED", "RECHARGING"} /\ SetStatus(o, "RECHARGING")
           \/ status[o] = "RECHARGING" /\ SetStatus(o, "FAILED")
           \/ status[o] = "RECHARGING" /\ SetStatus(o, "COMPLETED") /\ pc[w] = "complete"
           \/ UNCHANGED status
    BY <1>1 DEF Acquire, Complete, MarkFailed, Leases, outsideVars, limitVars
  <1>5. \/ status'[o] = status[o]
        \/ status[o] \in {"PAID", "FAILED", "RECHARGING"} /\ status'[o] = "RECHARGING"
        \/ status[o] = "RECHARGING" /\ status'[o] = "FAILED"
        \/ status[o] = "RECHARGING" /\ status'[o] = "COMPLETED" /\ pc[w] = "complete"
    BY <1>4 DEF SetStatus, OrderInv, RowTypeOK
  <1>6. \A q \in Orders : q # o => SameRow(q)
    BY <1>4 DEF SetStatus, SameRow, deliveryVars, OrderInv, RowTypeOK
  <1>7. OrderFacts(o)' /\ Stable(o)
    BY <1>2, <1>4, <1>5 DEF OrderInv, Good, OrderFacts, Stable, Deliverable, Rejected,
                            RefundStatus, deliveryVars
  <1>8. o \in OrderPurchases => SlotMatches(o)'
    BY <1>2, <1>4, <1>5 DEF OrderInv, Good, SlotMatches, Deliverable, RefundStatus,
                            deliveryVars
  <1>9. WorkerFacts(w)'
    <2>1. CASE Finish(w)
      BY <1>2, <2>1, FinishFacts
    <2>2. CASE Goto(w, l)
      BY <1>1, <1>2, <1>3, <1>4, <1>7, <2>2, GotoFrame
         DEF WorkerFacts, Delivering, Stable, Deliverable, Rejected
    <2> QED BY <1>3, <2>1, <2>2
  <1> QED BY <1>3, <1>6, <1>7, <1>8, <1>9, EffectKeeps DEF Good

\* What a step of the delivery itself does to the order.
LEMMA DeliveryKeeps ==
    ASSUME OrderInv, NEW w \in Workers, NEW o \in Orders, o = job[w], Deliverable(o),
           UNCHANGED <<status, paidAt, rejected, bill, reservation>>,
           code'[o] = "used" <=> credited'[o] = 1,
           credited'[o] \in {0, 1}, rebated'[o] \in {0, 1},
           credited[o] = 1 => credited'[o] = 1,
           rebated[o] = 1 => rebated'[o] = 1,
           \A q \in Orders : q # o =>
              code'[q] = code[q] /\ credited'[q] = credited[q] /\ rebated'[q] = rebated[q],
           NEW l \in {"redeem", "rebate", "complete", "fail"}, Goto(w, l),
           l \in {"rebate", "complete"} => credited'[o] = 1,
           l = "complete" => rebated'[o] = 1
    PROVE  Kept
  <1>1. \A q \in Orders : q # o => SameRow(q)
    BY DEF SameRow
  <1>2. OrderFacts(o)' /\ Stable(o)
    BY DEF OrderInv, Good, OrderFacts, Stable, Deliverable, Rejected
  <1>3. o \in OrderPurchases => SlotMatches(o)'
    BY DEF OrderInv, Good, OrderFacts, SlotMatches, Deliverable, Rejected
  <1>4. WorkerFacts(w)'
    BY <1>2, GotoFrame DEF OrderInv, WorkerFacts, Delivering, Stable, Deliverable, Rejected
  <1> QED BY <1>1, <1>2, <1>3, <1>4, EffectKeeps DEF Good

LEMMA DeliveryStepsKeep ==
    ASSUME OrderInv, NEW w \in Workers,
           CreateCode(w) \/ Redeem(w) \/ AssignSubscription(w) \/ Rebate(w)
    PROVE  Kept
  <1>1. PICK o \in Orders : o = job[w]
    BY JobTypes DEF CreateCode, Redeem, AssignSubscription, Rebate, OrderInv
  <1>2. Deliverable(o) /\ (pc[w] = "rebate" => credited[o] = 1)
    BY <1>1 DEF CreateCode, Redeem, AssignSubscription, Rebate, OrderInv, WorkerFacts,
                Delivering
  <1>3. /\ UNCHANGED <<status, paidAt, rejected, bill, reservation>>
        /\ code[o] = "used" <=> credited[o] = 1
        /\ credited[o] \in {0, 1} /\ rebated[o] \in {0, 1}
    BY DEF CreateCode, Redeem, AssignSubscription, Rebate, limitVars, rowVars, outsideVars,
           OrderInv, Good, OrderFacts
  <1>4. CASE CreateCode(w)
    <2>1. PICK l \in {"redeem", "fail"} : Goto(w, l)
      BY <1>4 DEF CreateCode
    <2> QED BY <1>1, <1>2, <1>3, <1>4, <2>1, DeliveryKeeps
          DEF CreateCode, OrderInv, RowTypeOK
  <1>5. CASE Redeem(w)
    <2>1. PICK l \in {"rebate", "fail"} :
             Goto(w, l) /\ (l = "rebate" => credited'[o] = 1)
      BY <1>1, <1>3, <1>5 DEF Redeem, OrderInv, RowTypeOK
    <2> QED BY <1>1, <1>2, <1>3, <1>5, <2>1, DeliveryKeeps
          DEF Redeem, OrderInv, RowTypeOK
  <1>6. CASE AssignSubscription(w)
    <2>1. PICK l \in {"rebate", "fail"} :
             Goto(w, l) /\ (l = "rebate" => credited'[o] = 1)
      BY <1>1, <1>3, <1>6 DEF AssignSubscription, OrderInv, RowTypeOK
    <2> QED BY <1>1, <1>2, <1>3, <1>6, <2>1, DeliveryKeeps
          DEF AssignSubscription, OrderInv, RowTypeOK
  <1>7. CASE Rebate(w)
    BY <1>1, <1>2, <1>3, <1>7, DeliveryKeeps DEF Rebate, OrderInv, RowTypeOK
  <1> QED BY <1>4, <1>5, <1>6, <1>7

LEMMA ContinueKeeps ==
    ASSUME OrderInv, LimitTypeOK, NEW w \in Workers, Continue(w)
    PROVE  Kept
  BY QuietStepsKeep, CreateInsertKeeps, FailPendingKeeps, CancelOrderKeeps, ToPaidKeeps,
     RejectPaymentKeeps, RejectAuditKeeps, RecoverKeeps, LeaseStepsKeep, DeliveryStepsKeep
     DEF Continue

LEMMA RefundKeeps ==
    ASSUME OrderInv, LimitTypeOK, NEW o \in Orders, Refund(o)
    PROVE  Kept
  <1>1. PICK s \in OrderStatus :
           /\ MoveRow(o, s)
           /\ \/ s = "REFUND_REQUESTED" /\ status[o] = "COMPLETED"
              \/ /\ s \in RefundStatus
                 /\ status[o] \in {"COMPLETED", "REFUND_REQUESTED", "REFUNDING",
                                   "REFUND_PENDING", "REFUND_FAILED"}
    BY DEF Refund, RequestRefund, BeginRefund, ParkRefund, SettleRefund, ReturnRefund, InRefund,
           OrderStatus, RefundStatus
  <1>2. /\ UNCHANGED <<paidAt, deliveryVars, rejected, bill, pc, job, goal>>
        /\ status'[o] = s
        /\ \A q \in Orders : q # o => status'[q] = status[q]
    BY <1>1 DEF MoveRow, SetStatus, deliveryVars, workerVars, OrderInv, RowTypeOK
  <1>3. /\ \A q \in OrderPurchases : q # o => reservation'[q] = reservation[q]
        /\ o \in OrderPurchases =>
              IF s = "REFUNDED" THEN reservation'[o] = "released"
              ELSE reservation'[o] = reservation[o]
    <2>1. ASSUME s = "REFUNDED", o \in OrderPurchases
          PROVE  reservation[o] \in {"released", "consumed"}
      BY <1>1, <2>1 DEF OrderInv, Good, SlotMatches, RefundStatus
    <2>2. SettleRefund(o) <=> s \in {"REFUNDED", "PARTIALLY_REFUNDED"}
      BY <1>2 DEF Refund, RequestRefund, BeginRefund, ParkRefund, SettleRefund,
             ReturnRefund, MoveRow, SetStatus, OrderInv, RowTypeOK
    <2>3. CASE SettleRefund(o)
      BY <1>2, <2>1, <2>3 DEF SettleRefund, MoveRow, SetStatus, ReleaseConsumed, MoveSlot,
             LimitTypeOK, Purchases, limitVars, OrderInv, RowTypeOK
    <2>4. CASE ~SettleRefund(o)
      BY <2>2, <2>4 DEF Refund, RequestRefund, BeginRefund, ParkRefund, ReturnRefund, limitVars
    <2> QED BY <2>3, <2>4
  <1>4. \A q \in Orders : q # o => SameRow(q)
    BY <1>2, <1>3 DEF SameRow, deliveryVars
  <1>5. OrderFacts(o)' /\ Stable(o)
    BY <1>1, <1>2 DEF OrderInv, Good, OrderFacts, Stable, Deliverable, Rejected, RefundStatus,
                      deliveryVars
  <1>6. o \in OrderPurchases => SlotMatches(o)'
    BY <1>1, <1>2, <1>3 DEF OrderInv, Good, OrderFacts, SlotMatches, RefundStatus, deliveryVars
  <1>7. \A q \in Orders : Good(q)' /\ Stable(q)
    BY <1>4, <1>5, <1>6, OneOrder DEF Good
  <1> QED BY <1>2, <1>7, NoWorker DEF Kept

LEMMA StopKeeps ==
    ASSUME OrderInv, NEW w \in Workers, Stop(w) \/ DatabaseError(w)
    PROVE  Kept
  <1>1. Quiet
    BY QuietIsOnlyWorker DEF Stop, DatabaseError
  <1>2. \A o \in Orders : Good(o)' /\ Stable(o)
    BY <1>1, QuietStep
  <1>3. \A v \in Workers : v # w =>
           pc'[v] = pc[v] /\ job'[v] = job[v] /\ goal'[v] = goal[v]
    BY DEF Stop, DatabaseError, OrderInv, WorkerTypeOK
  <1>4. WorkerFacts(w)'
    <2>1. CASE Stop(w)
      <3>1. pc'[w] = "idle"
        BY <2>1 DEF Stop, OrderInv, WorkerTypeOK
      <3> QED BY <3>1 DEF WorkerFacts, Delivering
    <2>2. CASE DatabaseError(w)
      <3>1. PICK e \in AfterError : pc[w] = e[1] /\ pc'[w] = e[2]
        BY <2>2 DEF DatabaseError, OrderInv, WorkerTypeOK
      <3>2. \/ pc'[w] \in {"initFailed", "confirm"}
            \/ pc[w] \in Delivering /\ pc'[w] \in {"create", "fail"}
        BY <3>1 DEF AfterError, Delivering
      <3>3. PICK o : o = job[w]
        OBVIOUS
      <3>4. job'[w] = o /\ (pc[w] \notin {"idle", "insert"} => o \in Orders)
        BY <2>2, <3>3 DEF DatabaseError, OrderInv, WorkerTypeOK
      <3> QED BY <1>2, <3>2, <3>3, <3>4
            DEF OrderInv, WorkerFacts, Delivering, Stable
    <2> QED BY <2>1, <2>2
  <1> QED BY <1>2, <1>3, <1>4, OtherWorkers DEF Kept

LEMMA EnvironmentKeeps ==
    ASSUME OrderInv, LimitTypeOK, Environment
    PROVE  Kept
  <1>1. CASE Day \/ BuyInMall
    <2>1. UNCHANGED <<status, paidAt, code, credited, rebated, rejected, bill, pc, job, goal>>
      BY <1>1 DEF Day, BuyInMall, rowVars, deliveryVars, outsideVars, workerVars, OrderInv,
                  RowTypeOK
    <2>2. \A q \in OrderPurchases : reservation'[q] = reservation[q]
      BY <1>1, LimitAssumption
         DEF Day, Tick, BuyInMall, ImmediatePurchase, TakeSlot, LimitTypeOK, Purchases
    <2>3. \A q \in Orders : Good(q)' /\ Stable(q)
      BY <2>1, <2>2, SameRowGood DEF SameRow, OrderInv
    <2> QED BY <2>1, <2>3, NoWorker DEF Kept
  <1>2. ASSUME NEW o \in Orders, Refund(o) PROVE Kept
    BY <1>2, RefundKeeps
  <1>3. ASSUME NEW o \in Orders, Pay(o) \/ TimeOut(o) \/ Age(o) PROVE Kept
    <2>1. UNCHANGED <<pc, job, goal>> /\ Quiet
      BY <1>3 DEF Pay, TimeOut, Age, Quiet, OrderInv, RowTypeOK, limitVars, rowVars,
                  deliveryVars, outsideVars, workerVars
    <2> QED BY <2>1, QuietStep, NoWorker DEF Kept
  <1> QED BY <1>1, <1>2, <1>3, StopKeeps DEF Environment

-----------------------------------------------------------------------------
(* The invariant holds initially and in every step. *)

LEMMA OrderInitInv == OrderInit => OrderInv
  <1> SUFFICES ASSUME OrderInit PROVE OrderInv
    OBVIOUS
  <1>1. RowTypeOK
    BY DEF OrderInit, RowTypeOK, OrderStatus
  <1>2. WorkerTypeOK
    BY OrderAssumption DEF OrderInit, WorkerTypeOK, Step
  <1>3. ASSUME NEW o \in Orders PROVE Good(o)
    <2>1. o \in OrderPurchases => reservation[o] = "none"
      BY DEF OrderInit, LimitInit, Purchases
    <2> QED BY <2>1 DEF OrderInit, Good, OrderFacts, SlotMatches, RefundStatus, Rejected
  <1>4. ASSUME NEW w \in Workers PROVE WorkerFacts(w)
    <2>1. pc[w] = "idle"
      BY DEF OrderInit
    <2> QED BY <2>1 DEF WorkerFacts, Delivering
  <1> QED BY <1>1, <1>2, <1>3, <1>4 DEF OrderInv

LEMMA OrderStepTypes ==
    ASSUME OrderInv, OrderNext
    PROVE  RowTypeOK' /\ WorkerTypeOK'
  <1>1. RowTypeOK /\ WorkerTypeOK /\ \A w \in Workers : WorkerFacts(w)
    BY DEF OrderInv
  <1>2. ASSUME NEW w \in Workers, Continue(w) PROVE RowTypeOK' /\ WorkerTypeOK'
    <2>1. pc[w] = "cancel" => goal[w] # "none"
      BY <1>1 DEF WorkerFacts
    <2> QED BY <1>1, <1>2, <2>1, CreationTypes, PaymentTypes, DeliveryTypes, CancellationTypes
          DEF Continue
  <1> QED BY <1>1, <1>2, BeginTypes, EnvironmentTypes DEF OrderNext

LEMMA OrderNextInv ==
    ASSUME OrderInv, LimitTypeOK, [OrderNext]_orderVars
    PROVE  OrderInv'
  <1>1. CASE OrderNext
    <2>1. Kept
      BY <1>1, BeginKeeps, ContinueKeeps, EnvironmentKeeps DEF OrderNext
    <2> QED BY <1>1, <2>1, OrderStepTypes DEF Kept, OrderInv
  <1>2. CASE UNCHANGED orderVars
    <2>1. UNCHANGED <<pc, job, goal>> /\ Quiet
      BY <1>2 DEF orderVars, Quiet, limitVars, rowVars, deliveryVars, outsideVars, workerVars
    <2>2. RowTypeOK' /\ WorkerTypeOK'
      BY <1>2 DEF OrderInv, RowTypeOK, WorkerTypeOK, orderVars, rowVars, deliveryVars,
                  outsideVars, workerVars
    <2> QED BY <2>1, <2>2, QuietStep, NoWorker DEF OrderInv
  <1> QED BY <1>1, <1>2

\* The counters and the orders keep their invariants together: the orders need
\* well-formed reservation rows, the counters workers with a job.
LEMMA OrderInvariance == OrderSpec => [](LimitInv /\ OrderInv)
  <1>1. OrderInit => LimitInv /\ OrderInv
    BY LimitInitInv, OrderInitInv DEF OrderInit
  <1>2. LimitInv /\ OrderInv /\ [OrderNext]_orderVars => (LimitInv /\ OrderInv)'
    <2> SUFFICES ASSUME LimitInv, OrderInv, [OrderNext]_orderVars
                 PROVE  LimitInv' /\ OrderInv'
      OBVIOUS
    <2>1. WorkerTypeOK /\ LimitTypeOK
      BY DEF OrderInv, LimitInv
    <2>2. [LimitNext]_limitVars
      BY <2>1, OrderStepIsLimitStep
    <2> QED BY <2>1, <2>2, LimitNextInv, OrderNextInv
  <1> QED BY <1>1, <1>2, PTL DEF OrderSpec

-----------------------------------------------------------------------------
(* 4. The theorems. *)

\* The tables and the handlers stay well formed in every run.
THEOREM OrderTypes == OrderSpec => []OrderTypeOK
  <1>1. LimitInv /\ OrderInv => OrderTypeOK
    BY DEF LimitInv, OrderInv, OrderTypeOK
  <1> QED BY <1>1, OrderInvariance, PTL

\* Whatever handlers race, crash and repeat, what they do to the limit tables
\* is a run of the limit transactions.
THEOREM OrderLimits == OrderSpec => LimitSpec
  <1>1. OrderInit => LimitInit
    BY DEF OrderInit
  <1>2. (LimitInv /\ OrderInv) /\ [OrderNext]_orderVars => [LimitNext]_limitVars
    BY OrderStepIsLimitStep DEF OrderInv
  <1> QED BY <1>1, <1>2, OrderInvariance, PTL DEF OrderSpec, LimitSpec

\* ... so no order lifecycle ever sells more than the limits of the product.
THEOREM OrderWithinLimits == OrderSpec => []WithinLimits
  BY OrderLimits, LimitRespected, PTL

(* ... nor, but for orders that overtook each other between reading the clock *)
(* and the lock, more than the rolling limit within any window.             *)
THEOREM OrderWithinRollingLimit == OrderSpec => []RollingLimitButOvertaken
  BY OrderLimits, LimitRolling, PTL

\* Each order is credited at most once and rebated at most once, for any number
\* of workers, faults, repeated notifications and stolen leases.
THEOREM OrdersDeliveredOnce == OrderSpec => []DeliveredOnce
  <1>1. LimitInv /\ OrderInv => DeliveredOnce
    BY DEF OrderInv, Good, OrderFacts, DeliveredOnce
  <1> QED BY <1>1, OrderInvariance, PTL

\* Nothing is delivered, and no order counts as paid, without a bill that was
\* paid in full.
THEOREM OrdersPaidForDelivery == OrderSpec => []PaidForDelivery
  <1>1. LimitInv /\ OrderInv => PaidForDelivery
    BY DEF OrderInv, Good, OrderFacts, PaidForDelivery
  <1> QED BY <1>1, OrderInvariance, PTL

\* A payment that was rejected is never delivered, and no handler is about to
\* deliver it.
THEOREM OrdersRejectedNeverDelivered == OrderSpec => []RejectedNeverDelivered
  <1>1. OrderInv => RejectedNeverDelivered
    BY DEF OrderInv, Good, OrderFacts, Rejected, RejectedNeverDelivered, WorkerFacts,
           Delivering, Deliverable
  <1> QED BY <1>1, OrderInvariance, PTL

\* A completed order was delivered and its rebate is settled.
THEOREM OrdersCompletedMeansDelivered == OrderSpec => []CompletedMeansDelivered
  <1>1. LimitInv /\ OrderInv => CompletedMeansDelivered
    BY DEF OrderInv, Good, OrderFacts, CompletedMeansDelivered
  <1> QED BY <1>1, OrderInvariance, PTL

\* The slot of a product order follows the status of the order.
THEOREM OrdersSlotMatchesStatus == OrderSpec => []SlotMatchesStatus
  <1>1. LimitInv /\ OrderInv => SlotMatchesStatus
    BY OrderAssumption DEF OrderInv, Good, SlotMatchesStatus
  <1> QED BY <1>1, OrderInvariance, PTL

-----------------------------------------------------------------------------
(* 5. PaymentOrder implements OrderPromise.                                *)

\* The moves of OrderPromise.
PromisedMoves ==
    {<<"none", "open">>, <<"open", "closed">>, <<"open", "paid">>, <<"closed", "paid">>,
     <<"closed", "rejected">>, <<"paid", "delivered">>, <<"delivered", "returning">>,
     <<"rejected", "refunded">>, <<"returning", "refunded">>}

\* One order moves, or none.
PromiseStep(o) ==
    /\ Promised(o)' = Promised(o) \/ <<Promised(o), Promised(o)'>> \in PromisedMoves
    /\ \A q \in Orders : q # o => Promised(q)' = Promised(q)

LEMMA SamePromise ==
    ASSUME NEW q, status'[q] = status[q], paidAt'[q] = paidAt[q], credited'[q] = credited[q]
    PROVE  Promised(q)' = Promised(q)
  BY DEF Promised, Closed

LEMMA PromiseMoves ==
    ASSUME NEW o \in Orders, PromiseStep(o)
    PROVE  [Promise!PromiseNext]_phases
  <1> DEFINE f == [q \in Orders |-> Promised(q)]
             g == [q \in Orders |-> Promised(q)']
  <1>1. f[o] = Promised(o)
    OBVIOUS
  <1>2. CASE Promised(o)' = Promised(o)
    <2>1. g = f
      BY <1>2 DEF PromiseStep
    <2> QED BY <2>1 DEF phases
  <1>3. CASE <<Promised(o), Promised(o)'>> \in PromisedMoves
    <2>1. g = [f EXCEPT ![o] = Promised(o)']
      BY DEF PromiseStep
    <2>2. \A from, to : Promised(o) \in from /\ Promised(o)' = to => Promise!Move(o, from, to)
      BY <2>1 DEF Promise!Move, phases
    <2> QED BY <1>3, <2>2
          DEF PromisedMoves, Promise!PromiseNext, Promise!Open, Promise!Close,
              Promise!Capture, Promise!Reject, Promise!Deliver, Promise!Return, Promise!Settle
  <1> QED BY <1>2, <1>3 DEF PromiseStep

\* Steps that touch neither status nor payment nor credit of any order.
LEMMA SilentSteps ==
    ASSUME UNCHANGED <<status, paidAt, credited>>
    PROVE  UNCHANGED phases
  <1>1. ASSUME NEW q \in Orders PROVE Promised(q)' = Promised(q)
    BY SamePromise
  <1> QED BY <1>1 DEF phases

\* The status of one order changes, and perhaps its paid_at.
LEMMA StatusStep ==
    ASSUME OrderInv, NEW o \in Orders, NEW s \in OrderStatus, SetStatus(o, s),
           UNCHANGED credited,
           paidAt' = [paidAt EXCEPT ![o] = TRUE] \/ UNCHANGED paidAt
    PROVE  /\ status'[o] = s /\ credited'[o] = credited[o]
           /\ \A q \in Orders : q # o => Promised(q)' = Promised(q)
  <1>1. \A q \in Orders : q # o =>
           status'[q] = status[q] /\ paidAt'[q] = paidAt[q] /\ credited'[q] = credited[q]
    BY DEF SetStatus, OrderInv, RowTypeOK
  <1> QED BY <1>1, SamePromise DEF SetStatus, OrderInv, RowTypeOK

LEMMA CreatePromise ==
    ASSUME OrderInv, NEW w \in Workers, NEW o \in Orders, CreateInsert(w, o)
    PROVE  PromiseStep(o)
  <1>1. /\ status[o] = "NONE" /\ status'[o] = "PENDING"
        /\ \A q \in Orders : q # o => Promised(q)' = Promised(q)
    BY StatusStep DEF CreateInsert, deliveryVars, OrderStatus
  <1> QED BY <1>1 DEF PromiseStep, Promised, PromisedMoves

LEMMA ClosePromise ==
    ASSUME OrderInv, NEW w \in Workers, FailPending(w) \/ CancelOrder(w)
    PROVE  (\E o \in Orders : PromiseStep(o)) \/ UNCHANGED <<status, paidAt, credited>>
  <1>1. PICK o \in Orders : o = job[w]
    BY JobTypes DEF FailPending, CancelOrder, OrderInv
  <1>2. UNCHANGED <<status, paidAt, credited>> \/
        \E s \in {"FAILED", "CANCELLED", "EXPIRED"} :
           status[o] = "PENDING" /\ SetStatus(o, s) /\ UNCHANGED <<paidAt, credited>>
    BY <1>1 DEF FailPending, CancelOrder, deliveryVars, OrderInv, WorkerFacts, WorkerTypeOK
  <1>3. ASSUME NEW s \in {"FAILED", "CANCELLED", "EXPIRED"}, status[o] = "PENDING",
               SetStatus(o, s), UNCHANGED <<paidAt, credited>>
        PROVE  PromiseStep(o)
    <2>1. /\ status'[o] = s /\ ~paidAt'[o]
          /\ \A q \in Orders : q # o => Promised(q)' = Promised(q)
      BY <1>3, StatusStep DEF OrderStatus, OrderInv, Good, OrderFacts
    <2> QED BY <1>3, <2>1 DEF PromiseStep, Promised, PromisedMoves, Closed
  <1> QED BY <1>1, <1>2, <1>3

LEMMA PaymentPromise ==
    ASSUME OrderInv, NEW w \in Workers, ToPaid(w) \/ RejectPayment(w) \/ Recover(w)
    PROVE  (\E o \in Orders : PromiseStep(o)) \/ UNCHANGED <<status, paidAt, credited>>
  <1>1. PICK o \in Orders : o = job[w]
    BY JobTypes DEF ToPaid, RejectPayment, Recover, OrderInv
  <1>2. credited[o] \in {0, 1} /\ (credited[o] = 1 => paidAt[o])
    BY DEF OrderInv, Good, OrderFacts
  <1>3. CASE ToPaid(w)
    <2>1. (status[o] = "PENDING" \/ Closed(o)) /\ SetStatus(o, "PAID")
      BY <1>1, <1>3 DEF ToPaid, Revivable
    <2>2. /\ status'[o] = "PAID" /\ credited'[o] = credited[o]
          /\ \A q \in Orders : q # o => Promised(q)' = Promised(q)
      BY <1>1, <1>3, <2>1, StatusStep DEF ToPaid, deliveryVars, OrderStatus
    <2>3. credited[o] = 0
      BY <1>2, <2>1 DEF Closed, OrderInv, Good, OrderFacts
    <2> QED BY <2>1, <2>2, <2>3
          DEF PromiseStep, Promised, PromisedMoves, Closed, RefundStatus
  <1>4. CASE RejectPayment(w) /\ status' # status
    <2>1. Closed(o) /\ SetStatus(o, "REFUNDING") /\ UNCHANGED credited
          /\ paidAt' = [paidAt EXCEPT ![o] = TRUE]
      BY <1>1, <1>4 DEF RejectPayment, rowVars, deliveryVars
    <2>2. /\ status'[o] = "REFUNDING" /\ credited'[o] = credited[o]
          /\ \A q \in Orders : q # o => Promised(q)' = Promised(q)
      BY <2>1, StatusStep DEF OrderStatus, RefundStatus
    <2>3. credited[o] = 0
      BY <1>2, <2>1 DEF Closed, OrderInv, Good, OrderFacts
    <2> QED BY <2>1, <2>2, <2>3
          DEF PromiseStep, Promised, PromisedMoves, Closed, RefundStatus
  <1>5. CASE RejectPayment(w) /\ status' = status
    <2>1. UNCHANGED <<paidAt, credited>>
      BY <1>1, <1>5 DEF RejectPayment, SetStatus, Closed, rowVars, deliveryVars, OrderInv,
                        RowTypeOK
    <2> QED BY <1>5, <2>1
  <1>6. CASE Recover(w)
    <2>1. CASE status[o] = "REFUNDING"
      <3>1. SetStatus(o, "REFUND_PENDING") /\ UNCHANGED <<paidAt, credited>>
        BY <1>1, <1>6, <2>1 DEF Recover, deliveryVars
      <3>2. /\ status'[o] = "REFUND_PENDING" /\ credited'[o] = credited[o]
            /\ \A q \in Orders : q # o => Promised(q)' = Promised(q)
        BY <3>1, StatusStep DEF OrderStatus, RefundStatus
      <3> QED BY <2>1, <3>2 DEF PromiseStep, Promised, Closed, RefundStatus
    <2>2. CASE status[o] # "REFUNDING"
      BY <1>1, <1>6, <2>2 DEF Recover, deliveryVars
    <2> QED BY <2>1, <2>2
  <1> QED BY <1>3, <1>4, <1>5, <1>6

LEMMA LeasePromise ==
    ASSUME OrderInv, NEW w \in Workers, Acquire(w) \/ Complete(w) \/ MarkFailed(w)
    PROVE  (\E o \in Orders : PromiseStep(o)) \/ UNCHANGED <<status, paidAt, credited>>
  <1>1. PICK o \in Orders : o = job[w]
    BY JobTypes DEF Acquire, Complete, MarkFailed, OrderInv
  <1>2. /\ Deliverable(o) /\ credited[o] \in {0, 1}
        /\ pc[w] = "complete" => credited[o] = 1
    BY <1>1 DEF Acquire, Complete, MarkFailed, OrderInv, WorkerFacts, Delivering, Good,
                OrderFacts
  <1>3. UNCHANGED <<status, paidAt, credited>> \/
        \E s \in {"RECHARGING", "FAILED", "COMPLETED"} :
           /\ SetStatus(o, s) /\ UNCHANGED <<paidAt, credited>>
           /\ status[o] \in {"PAID", "FAILED", "RECHARGING"}
           /\ s = "COMPLETED" => credited[o] = 1
    BY <1>1, <1>2 DEF Acquire, Complete, MarkFailed, Leases, deliveryVars
  <1>4. ASSUME NEW s \in {"RECHARGING", "FAILED", "COMPLETED"}, SetStatus(o, s),
               UNCHANGED <<paidAt, credited>>,
               status[o] \in {"PAID", "FAILED", "RECHARGING"},
               s = "COMPLETED" => credited[o] = 1
        PROVE  PromiseStep(o)
    <2>1. /\ status'[o] = s /\ credited'[o] = credited[o] /\ paidAt[o] /\ paidAt'[o]
          /\ \A q \in Orders : q # o => Promised(q)' = Promised(q)
      BY <1>2, <1>4, StatusStep DEF OrderStatus, Deliverable
    <2> QED BY <1>2, <1>4, <2>1 DEF PromiseStep, Promised, Closed, RefundStatus
  <1> QED BY <1>1, <1>3, <1>4

LEMMA DeliverPromise ==
    ASSUME OrderInv, NEW w \in Workers, Redeem(w) \/ AssignSubscription(w)
    PROVE  (\E o \in Orders : PromiseStep(o)) \/ UNCHANGED <<status, paidAt, credited>>
  <1>1. PICK o \in Orders : o = job[w]
    BY JobTypes DEF Redeem, AssignSubscription, OrderInv
  <1>2. Deliverable(o)
    BY <1>1 DEF Redeem, AssignSubscription, OrderInv, WorkerFacts, Delivering
  <1>3. UNCHANGED <<status, paidAt>>
    BY DEF Redeem, AssignSubscription, rowVars
  <1>4. CASE UNCHANGED credited
    BY <1>3, <1>4
  <1>5. CASE ~UNCHANGED credited
    <2>1. code[o] \in {"none", "unused"} /\ credited' = [credited EXCEPT ![o] = @ + 1]
      BY <1>1, <1>5 DEF Redeem, AssignSubscription
    <2>2. credited[o] = 0
      BY <2>1 DEF OrderInv, Good, OrderFacts
    <2>3. credited'[o] = 1 /\ \A q \in Orders : q # o => credited'[q] = credited[q]
      BY <2>1, <2>2 DEF OrderInv, RowTypeOK
    <2>4. \A q \in Orders : q # o => Promised(q)' = Promised(q)
      BY <1>3, <2>3, SamePromise
    <2>5. status[o] \in {"PAID", "RECHARGING", "FAILED"} /\ paidAt[o]
      BY <1>2, <2>2 DEF Deliverable, Rejected, OrderInv, Good, OrderFacts, RowTypeOK,
                        OrderStatus
    <2> QED BY <1>3, <2>2, <2>3, <2>4, <2>5
          DEF PromiseStep, Promised, PromisedMoves, Closed, RefundStatus
  <1> QED BY <1>4, <1>5

LEMMA RefundPromise ==
    ASSUME OrderInv, NEW o \in Orders, Refund(o)
    PROVE  PromiseStep(o)
  <1>1. PICK s \in OrderStatus :
           /\ SetStatus(o, s) /\ UNCHANGED <<paidAt, credited>>
           /\ \/ s = "REFUND_REQUESTED" /\ status[o] = "COMPLETED"
              \/ s = "REFUNDING" /\ status[o] \in {"COMPLETED", "REFUND_REQUESTED",
                                                   "REFUND_FAILED"}
              \/ /\ s \in RefundStatus \ {"REFUNDING"}
                 /\ status[o] \in {"REFUNDING", "REFUND_PENDING"}
    BY DEF Refund, RequestRefund, BeginRefund, ParkRefund, SettleRefund, ReturnRefund, InRefund,
           MoveRow, OrderStatus, RefundStatus, deliveryVars
  <1>2. /\ status'[o] = s /\ credited'[o] = credited[o]
        /\ \A q \in Orders : q # o => Promised(q)' = Promised(q)
    BY <1>1, StatusStep
  <1>3. credited[o] \in {0, 1} /\ (status[o] \in {"COMPLETED", "REFUND_REQUESTED"}
                                      => credited[o] = 1)
    BY DEF OrderInv, Good, OrderFacts
  <1> QED BY <1>1, <1>2, <1>3 DEF PromiseStep, Promised, PromisedMoves, Closed, RefundStatus

LEMMA ContinuePromise ==
    ASSUME OrderInv, NEW w \in Workers, Continue(w)
    PROVE  \/ UNCHANGED <<status, paidAt, credited>>
           \/ \E o \in Orders : PromiseStep(o)
  <1>1. CASE \E o \in Orders : CreateInsert(w, o)
    BY <1>1, CreatePromise
  <1>2. CASE \/ FailPending(w) \/ CancelOrder(w) \/ ToPaid(w) \/ RejectPayment(w)
             \/ Recover(w) \/ Acquire(w) \/ Complete(w) \/ MarkFailed(w)
             \/ Redeem(w) \/ AssignSubscription(w)
    BY <1>2, ClosePromise, PaymentPromise, LeasePromise, DeliverPromise
  <1>3. CASE \/ CreateRefused(w) \/ InvokeProvider(w) \/ RecordDetails(w) \/ RefuseAmount(w)
             \/ TooLate(w) \/ NotToPaid(w) \/ RejectAudit(w) \/ RejectAttempt(w)
             \/ AlreadyProcessed(w) \/ Check(w) \/ Reload(w) \/ Lookup(w)
             \/ CreateCode(w) \/ Rebate(w) \/ QueryProvider(w) \/ PersistTradeNo(w)
    BY <1>3 DEF CreateRefused, InvokeProvider, RecordDetails, RefuseAmount, TooLate, NotToPaid,
                RejectAudit, RejectAttempt, AlreadyProcessed, Check, Reload, Lookup,
                CreateCode, Rebate, QueryProvider, PersistTradeNo, OnlyWorker, rowVars,
                deliveryVars
  <1> QED BY <1>1, <1>2, <1>3 DEF Continue

LEMMA OrderStepIsPromiseStep ==
    ASSUME OrderInv, [OrderNext]_orderVars
    PROVE  [Promise!PromiseNext]_phases
  <1>1. ASSUME NEW w \in Workers, Begin(w) \/ Stop(w) \/ DatabaseError(w)
        PROVE  UNCHANGED <<status, paidAt, credited>>
    BY <1>1 DEF Begin, CreateCheck, Webhook, AdminRecover, RetryFulfillment, Cancel, Expire,
                Verify, Ask, Stop, DatabaseError, OnlyWorker, rowVars, deliveryVars
  <1>2. ASSUME NEW o \in Orders, Pay(o) \/ TimeOut(o) \/ Age(o)
        PROVE  UNCHANGED <<status, paidAt, credited>>
    BY <1>2 DEF Pay, TimeOut, Age, rowVars, deliveryVars
  <1>3. ASSUME Day \/ BuyInMall \/ UNCHANGED orderVars
        PROVE  UNCHANGED <<status, paidAt, credited>>
    BY <1>3 DEF Day, BuyInMall, orderVars, rowVars, deliveryVars
  <1>4. \/ UNCHANGED <<status, paidAt, credited>>
        \/ \E o \in Orders : PromiseStep(o)
    BY <1>1, <1>2, <1>3, RefundPromise, ContinuePromise DEF OrderNext, Environment
  <1> QED BY <1>4, SilentSteps, PromiseMoves

\* Whatever handlers race, crash and repeat, each order goes through the phases
\* of OrderPromise: it is delivered at most once and only when paid, a rejected
\* payment is only refunded, and a delivered order is only ever refunded.
THEOREM OrderPromised == OrderSpec => KeepsPromise
  <1>1. OrderInit => Promise!PromiseInit
    BY DEF OrderInit, Promise!PromiseInit, phases, Promised
  <1>2. (LimitInv /\ OrderInv) /\ [OrderNext]_orderVars
           => [Promise!PromiseNext]_phases
    BY OrderStepIsPromiseStep
  <1> QED BY <1>1, <1>2, OrderInvariance, PTL DEF OrderSpec, KeepsPromise, Promise!PromiseSpec

================================================================================
