------------------------ MODULE PaymentRefundProofs ------------------------
(***************************************************************************)
(* Proofs about PaymentRefund, for any set of orders, attempts, rows and   *)
(* handlers and any number of faults.                                      *)
(*                                                                         *)
(* 1. Types (RefundTypes).                                                 *)
(* 2. The balance lacks what the attempts hold (RefundBalance), whatever   *)
(*    the providers answer.                                                *)
(* 3. RefundInv is inductive (RefundInvariance): it ties each attempt of   *)
(*    an order that was not misled to its order, to the provider and to    *)
(*    the answers handlers still hold.                                     *)
(* 4. It implies the safety properties.                                    *)
(* 5. With it every step is a step of RefundPromise (RefundPromised).      *)
(***************************************************************************)
EXTENDS PaymentRefund, SumLemmas, FiniteSetTheorems, TLAPS

USE DEF providerVars

-----------------------------------------------------------------------------
(* 1. Types. *)

LEMMA InitTypes == RefundInit => RefundTypeOK
  <1> SUFFICES ASSUME RefundInit PROVE RefundTypeOK
    OBVIOUS
  <1>1. Cardinality(BalanceOrders) \in Nat /\ Cardinality(SubscriptionOrders) \in Nat
    BY RefundAssumption, FS_Subset, FS_CardinalityType DEF BalanceOrders
  <1>2. own \in Int /\ balance \in Int /\ terms \in Nat
    BY <1>1, RefundAssumption DEF RefundInit
  <1>3. refunds \in [Attempts -> Attempt]
    BY DEF RefundInit, Unused, Attempt
  <1>4. expires \in [Subscriptions -> Nat] /\ alive \subseteq Subscriptions
    BY <1>2 DEF RefundInit
  <1> QED BY <1>2, <1>3, <1>4, RefundAssumption DEF RefundInit, RefundTypeOK, Answer

\* The handler of a step works on an attempt of an order.
LEMMA AtTypes ==
    ASSUME RefundTypeOK, NEW w \in Workers, pc[w] # "idle"
    PROVE  /\ at[w] \in Attempts /\ refunds[at[w]] \in Attempt
           /\ refunds[at[w]].order \in Orders
  BY DEF RefundTypeOK

\* The latest attempt of an order is an attempt of this order.
LatestOwned == \A o \in Orders : latest[o] # NoAttempt => refunds[latest[o]].order = o

HandlerTypeOK ==
    /\ pc \in [Workers -> {"idle", "call", "wait", "query", "apply"}]
    /\ at \in [Workers -> Attempts \cup {NoAttempt}]
    /\ \A w \in Workers : pc[w] # "idle" => at[w] \in Attempts /\ refunds[at[w]].order \in Orders
    /\ answer \in [Workers -> Answer]

\* Steps that leave the order of every attempt in place.
LEMMA FinishTypes ==
    ASSUME RefundTypeOK, NEW w \in Workers, Finish(w),
           \A a \in Attempts : refunds'[a].order = refunds[a].order
    PROVE  HandlerTypeOK'
  BY DEF RefundTypeOK, HandlerTypeOK, Finish, Answer

\* An attempt is stored by the handler that begins it.
LEMMA StoreTypes ==
    ASSUME RefundTypeOK, NEW w \in Workers, NEW o \in Orders, NEW a \in Attempts,
           NEW l \in {"call", "apply"}, NEW r \in Attempt, r.order = o,
           Store(o, a, r), Start(w, a, l), answer' \in [Workers -> Answer]
    PROVE  /\ latest' \in [Orders -> Attempts \cup {NoAttempt}]
           /\ refunds' \in [Attempts -> Attempt]
           /\ HandlerTypeOK'
  <1>1. /\ latest' \in [Orders -> Attempts \cup {NoAttempt}]
        /\ refunds' \in [Attempts -> Attempt]
    BY DEF RefundTypeOK, Store
  <1>2. \A v \in Workers : pc[v] # "idle" => at[v] # a
    BY RefundAssumption DEF RefundTypeOK, Store, Unused
  <1>3. ASSUME NEW v \in Workers, pc'[v] # "idle"
        PROVE  at'[v] \in Attempts /\ refunds'[at'[v]].order \in Orders
    BY <1>2, <1>3 DEF RefundTypeOK, Start, Store
  <1> QED BY <1>1, <1>3 DEF RefundTypeOK, HandlerTypeOK, Start

LEMMA NewAttemptTypes ==
    ASSUME NEW o \in Orders, NEW amt \in Nat, NEW hold \in {"none", "held"}, NEW h \in Nat,
           NEW s \in Subscriptions \cup {NoRow}, NEW t \in Nat
    PROVE  /\ NewAttempt(o, amt, hold, h, s, t) \in Attempt
           /\ NewAttempt(o, amt, hold, h, s, t).order = o
  BY DEF NewAttempt, Attempt, LiveState

LEMMA RecordFacts ==
    ASSUME RefundTypeOK, NEW a \in Attempts, NEW state, NEW review, NEW hold,
           Record(a, state, review, hold)
    PROVE  /\ refunds'[a].state = state /\ refunds'[a].review = review
           /\ refunds'[a].hold = hold
           /\ \A b \in Attempts : /\ refunds'[b].order = refunds[b].order
                                  /\ b # a => refunds'[b] = refunds[b]
  BY DEF RefundTypeOK, Record, Attempt

LEMMA RecordTypes ==
    ASSUME RefundTypeOK, NEW a \in Attempts, NEW state \in LiveState \cup {"succeeded", "failed"},
           NEW review \in BOOLEAN, NEW hold \in {"none", "held", "consumed", "returned"},
           Record(a, state, review, hold)
    PROVE  refunds' \in [Attempts -> Attempt]
  <1> DEFINE r1 == [refunds[a] EXCEPT !.state = state]
             r2 == [r1 EXCEPT !.review = review]
             r3 == [r2 EXCEPT !.hold = hold]
  <1>0. refunds[a] \in Attempt
    BY DEF RefundTypeOK
  <1>1. r1 \in Attempt
    BY <1>0 DEF Attempt
  <1>2. r2 \in Attempt
    <2> HIDE DEF r1
    <2> QED BY <1>1 DEF Attempt
  <1>3. r3 \in Attempt
    <2> HIDE DEF r2
    <2> QED BY <1>2 DEF Attempt
  <1>4. refunds' = [refunds EXCEPT ![a] = r3]
    BY DEF Record
  <1> QED
    <2> HIDE DEF r3
    <2> QED BY <1>3, <1>4 DEF RefundTypeOK

LEMMA BeginRefundTypes ==
    ASSUME RefundTypeOK, NEW w \in Workers, NEW o \in Orders, BeginRefund(w, o)
    PROVE  RefundTypeOK'
  <1>1. PICK a \in Attempts, amt \in 1 .. Amount :
           /\ \/ NoHold(o, a, amt) \/ HoldBalance(o, a, amt)
              \/ o \notin RejectedOrders /\ HoldTerm(o, a, amt)
           /\ Start(w, a, "call")
    BY DEF BeginRefund
  <1>2. amt \in Nat
    BY RefundAssumption
  <1>3. ASSUME NEW hold \in {"none", "held"}, NEW h \in Nat,
               NEW s \in Subscriptions \cup {NoRow}, NEW t \in Nat,
               Store(o, a, NewAttempt(o, amt, hold, h, s, t)),
               balance' \in Int, own' = own, terms' = terms,
               expires' \in [Subscriptions -> Nat], alive' \subseteq Subscriptions
        PROVE  RefundTypeOK'
    <2>1. answer' \in [Workers -> Answer] /\ UNCHANGED <<gateway, newest, misled, faults>>
      BY <1>1 DEF BeginRefund, Start, RefundTypeOK
    <2>2. /\ latest' \in [Orders -> Attempts \cup {NoAttempt}]
          /\ refunds' \in [Attempts -> Attempt]
          /\ HandlerTypeOK'
      <3> DEFINE r == NewAttempt(o, amt, hold, h, s, t)
      <3>1. r \in Attempt /\ r.order = o /\ Store(o, a, r) /\ Start(w, a, "call")
        BY <1>1, <1>2, <1>3, NewAttemptTypes
      <3> HIDE DEF r
      <3> QED BY <2>1, <3>1, StoreTypes
    <2>3. status' \in [Orders -> {"COMPLETED", "REFUND_REQUESTED", "REFUNDING",
                                 "REFUND_PENDING", "REFUND_FAILED"} \cup Settled]
      BY DEF BeginRefund, RefundTypeOK
    <2> QED BY <1>3, <2>1, <2>2, <2>3 DEF RefundTypeOK, HandlerTypeOK
  <1>4. CASE NoHold(o, a, amt)
    BY <1>3, <1>4 DEF NoHold, balanceVars, termVars, RefundTypeOK
  <1>5. CASE HoldBalance(o, a, amt)
    <2> DEFINE available == IF balance > 0 THEN balance ELSE 0
               take      == IF available < amt THEN available ELSE amt
    <2>1. balance \in Int /\ expires \in [Subscriptions -> Nat] /\ alive \subseteq Subscriptions
      BY DEF RefundTypeOK
    <2>2. take \in Nat /\ balance - take \in Int
      BY <1>2, <2>1
    <2>3. /\ Store(o, a, NewAttempt(o, amt, IF take > 0 THEN "held" ELSE "none", take, NoRow, 0))
          /\ balance' = balance - take /\ UNCHANGED <<own, termVars>>
      BY <1>5 DEF HoldBalance
    <2> HIDE DEF take
    <2> QED BY <1>3, <2>1, <2>2, <2>3 DEF termVars
  <1>6. CASE HoldTerm(o, a, amt)
    <2>1. PICK s \in alive :
            /\ expires[s] > 0
            /\ Store(o, a, NewAttempt(o, amt, "held", 0, s, expires[s]))
            /\ IF expires[s] = 1
               THEN alive' = alive \ {s} /\ UNCHANGED expires
               ELSE expires' = [expires EXCEPT ![s] = @ - 1] /\ UNCHANGED alive
      BY <1>6 DEF HoldTerm
    <2>2. s \in Subscriptions /\ expires \in [Subscriptions -> Nat] /\ alive \subseteq Subscriptions
          /\ balance \in Int
      BY DEF RefundTypeOK
    <2>3. expires' \in [Subscriptions -> Nat] /\ alive' \subseteq Subscriptions
      <3>1. expires[s] \in Nat /\ expires[s] - 1 \in Nat
        BY <2>1, <2>2
      <3> QED BY <2>1, <2>2, <3>1
    <2> QED BY <1>3, <1>6, <2>1, <2>2, <2>3 DEF HoldTerm, balanceVars
  <1> QED BY <1>1, <1>4, <1>5, <1>6

LEMMA BeginRejectedTypes ==
    ASSUME RefundTypeOK, NEW w \in Workers, NEW o \in Orders, BeginRejected(w, o)
    PROVE  RefundTypeOK'
  <1>1. PICK a \in Attempts :
           /\ NoHold(o, a, Amount)
           /\ \/ Start(w, a, "call") /\ UNCHANGED answer
              \/ Start(w, a, "apply") /\ answer' = [answer EXCEPT ![w] = "failed"]
    BY DEF BeginRejected
  <1>2. /\ NewAttempt(o, Amount, "none", 0, NoRow, 0) \in Attempt
        /\ NewAttempt(o, Amount, "none", 0, NoRow, 0).order = o
    BY RefundAssumption, NewAttemptTypes
  <1>3. answer' \in [Workers -> Answer] /\ UNCHANGED faults
    BY <1>1 DEF RefundTypeOK, Answer, Start
  <1>4. /\ latest' \in [Orders -> Attempts \cup {NoAttempt}]
        /\ refunds' \in [Attempts -> Attempt]
        /\ HandlerTypeOK'
    BY <1>1, <1>2, <1>3, StoreTypes DEF NoHold
  <1> QED BY <1>1, <1>3, <1>4
        DEF RefundTypeOK, HandlerTypeOK, BeginRejected, NoHold, balanceVars, termVars

LEMMA AskTypes ==
    ASSUME RefundTypeOK, LatestOwned, NEW w \in Workers, NEW o \in Orders,
           Query(w, o) \/ Interrupted(w, o)
    PROVE  RefundTypeOK'
  <1>1. latest[o] \in Attempts /\ refunds[latest[o]].order \in Orders
    BY DEF RefundTypeOK, LatestOwned, Query, Interrupted
  <1>2. answer' \in [Workers -> Answer]
    BY DEF RefundTypeOK, Answer, Query, Interrupted
  <1>3. Start(w, latest[o], "query") \/ Start(w, latest[o], "apply")
    BY DEF Query, Interrupted
  <1>4. /\ pc' \in [Workers -> {"idle", "call", "wait", "query", "apply"}]
        /\ at' \in [Workers -> Attempts \cup {NoAttempt}]
        /\ UNCHANGED <<tableVars, balanceVars, termVars, providerVars, faults>>
    BY <1>1, <1>3 DEF RefundTypeOK, Start, Query, Interrupted
  <1>5. \A v \in Workers : pc'[v] # "idle" => at'[v] \in Attempts /\ refunds[at'[v]].order \in Orders
    BY <1>1, <1>3 DEF RefundTypeOK, Start
  <1> QED BY <1>2, <1>4, <1>5 DEF RefundTypeOK, tableVars, balanceVars, termVars

LEMMA ProviderTypes ==
    ASSUME RefundTypeOK, NEW w \in Workers, Call(w) \/ WaitAnswer(w) \/ QueryAnswer(w)
    PROVE  RefundTypeOK'
  <1>1. CASE Call(w)
    <2>1. at[w] \in Attempts /\ refunds[at[w]].order \in Orders
      BY <1>1, AtTypes DEF Call
    <2>2. newest' \in [Orders -> Attempts \cup {NoAttempt}]
      BY <1>1, <2>1 DEF RefundTypeOK, Call
    <2> QED BY <1>1, <2>2 DEF RefundTypeOK, Call, tableVars, balanceVars, termVars
  <1>2. ASSUME NEW r \in Answer, pc[w] # "idle", Hear(w, r), misled' \subseteq Orders
        PROVE  RefundTypeOK'
    BY <1>2 DEF RefundTypeOK, Hear, tableVars, balanceVars, termVars
  <1>3. CASE WaitAnswer(w)
    BY <1>2, <1>3 DEF WaitAnswer, RefundAnswers, Answer, RefundTypeOK
  <1>4. CASE QueryAnswer(w)
    <2>1. pc[w] # "idle" /\ refunds[at[w]].order \in Orders
      BY <1>4, AtTypes DEF QueryAnswer
    <2>2. PICK r \in QueryAnswers(at[w]) : Hear(w, r)
      BY <1>4 DEF QueryAnswer
    <2>3. r \in Answer
      BY <2>2 DEF QueryAnswers, Tells, Answer
    <2>4. misled' \subseteq Orders
      BY <1>4, <2>1 DEF QueryAnswer, RefundTypeOK
    <2> QED BY <1>2, <2>1, <2>2, <2>3, <2>4
  <1> QED BY <1>1, <1>3, <1>4

\* An answer is applied, or turns out to be obsolete.
Applied(w) ==
    /\ pc[w] = "apply"
    /\ \/ UNCHANGED refunds
       \/ \E state \in LiveState \cup {"succeeded", "failed"}, review \in BOOLEAN,
            hold \in {"none", "held", "consumed", "returned"} :
            Record(at[w], state, review, hold)
    /\ Finish(w)
    /\ UNCHANGED <<latest, own, terms, providerVars>>

LEMMA ApplyTypes ==
    ASSUME RefundTypeOK, NEW w \in Workers, Park(w) \/ Settle(w) \/ Return(w)
    PROVE  /\ Applied(w)
           /\ RefundTypeOK'
  <1> DEFINE a == at[w]
  <1>1. pc[w] = "apply" /\ Finish(w) /\ UNCHANGED <<latest, own, terms, providerVars>>
    BY DEF Park, Settle, Return, balanceVars, termVars
  <1>2. a \in Attempts /\ refunds[a] \in Attempt /\ refunds[a].order \in Orders
    BY <1>1, AtTypes
  <1>3. refunds[a].hold \in {"none", "held", "consumed", "returned"} /\ refunds[a].held \in Nat
        /\ refunds[a].original \in Nat /\ refunds[a].row \in Subscriptions \cup {NoRow}
    BY <1>2 DEF Attempt
  <1>4. Applied(w)
    <2>1. CASE Park(w)
      BY <1>1, <1>3, <2>1 DEF Applied, Park, LiveState
    <2>2. CASE Settle(w)
      BY <1>1, <1>3, <2>2 DEF Applied, Settle
    <2>3. CASE Return(w)
      BY <1>1, <1>3, <2>3 DEF Applied, Return
    <2> QED BY <2>1, <2>2, <2>3
  <1>5. refunds' \in [Attempts -> Attempt] /\ \A b \in Attempts : refunds'[b].order = refunds[b].order
    <2>1. CASE UNCHANGED refunds
      BY <2>1 DEF RefundTypeOK
    <2>2. ASSUME NEW state \in LiveState \cup {"succeeded", "failed"}, NEW review \in BOOLEAN,
                 NEW hold \in {"none", "held", "consumed", "returned"},
                 Record(a, state, review, hold)
          PROVE  /\ refunds' \in [Attempts -> Attempt]
                 /\ \A b \in Attempts : refunds'[b].order = refunds[b].order
      BY <1>2, <2>2, RecordTypes, RecordFacts
    <2> QED BY <1>4, <2>1, <2>2 DEF Applied
  <1>6. HandlerTypeOK'
    BY <1>1, <1>5, FinishTypes
  <1>7. status' \in [Orders -> {"COMPLETED", "REFUND_REQUESTED", "REFUNDING",
                               "REFUND_PENDING", "REFUND_FAILED"} \cup Settled]
    <2>1. \/ UNCHANGED status
          \/ \E t \in {"REFUND_PENDING", "REFUND_FAILED"} \cup Settled :
                status' = [status EXCEPT ![refunds[a].order] = t]
      BY DEF Park, Settle, Return, Settled
    <2> QED BY <1>2, <2>1 DEF RefundTypeOK
  <1>8. balance' \in Int /\ expires' \in [Subscriptions -> Nat] /\ alive' \subseteq Subscriptions
    <2>1. /\ balance \in Int /\ balance + refunds[a].held \in Int
          /\ expires \in [Subscriptions -> Nat] /\ alive \subseteq Subscriptions
      BY <1>3 DEF RefundTypeOK
    <2> QED BY <1>3, <2>1 DEF Park, Settle, Return, balanceVars, termVars
  <1> QED BY <1>1, <1>4, <1>5, <1>6, <1>7, <1>8 DEF RefundTypeOK, HandlerTypeOK, Finish

LEMMA OutsideTypes ==
    ASSUME RefundTypeOK,
           \/ Spend \/ Renew \/ UNCHANGED refundVars
           \/ \E o \in Orders : RequestRefund(o)
           \/ \E a \in Attempts : Decide(a)
           \/ \E w \in Workers : Stop(w)
    PROVE  RefundTypeOK'
  <1>1. CASE Spend
    BY <1>1 DEF RefundTypeOK, Spend, tableVars, termVars, workerVars
  <1>2. CASE Renew
    <2>1. expires' \in [Subscriptions -> Nat] /\ alive' \subseteq Subscriptions /\ terms' \in Nat
      BY <1>2 DEF RefundTypeOK, Renew
    <2> QED BY <1>2, <2>1 DEF RefundTypeOK, Renew, tableVars, balanceVars, workerVars
  <1>3. CASE UNCHANGED refundVars
    BY <1>3 DEF RefundTypeOK, refundVars, tableVars, balanceVars, termVars, workerVars
  <1>4. ASSUME NEW o \in Orders, RequestRefund(o) PROVE RefundTypeOK'
    BY <1>4 DEF RefundTypeOK, RequestRefund, balanceVars, termVars, workerVars
  <1>5. ASSUME NEW a \in Attempts, Decide(a) PROVE RefundTypeOK'
    BY <1>5 DEF RefundTypeOK, Decide, tableVars, balanceVars, termVars, workerVars
  <1>6. ASSUME NEW w \in Workers, Stop(w) PROVE RefundTypeOK'
    <2>1. faults' \in 0 .. MaxFaults
      BY <1>6, RefundAssumption DEF RefundTypeOK, Stop
    <2>2. answer' \in [Workers -> Answer]
      BY <1>6 DEF RefundTypeOK, Stop, Answer
    <2> QED BY <1>6, <2>1, <2>2 DEF RefundTypeOK, Stop, tableVars, balanceVars, termVars
  <1> QED BY <1>1, <1>2, <1>3, <1>4, <1>5, <1>6

LEMMA InitOwned == RefundInit => LatestOwned
  BY DEF RefundInit, LatestOwned

\* Steps that leave the latest attempts and the order of every attempt in place.
LEMMA SameOwned ==
    ASSUME RefundTypeOK, LatestOwned, UNCHANGED latest,
           \A a \in Attempts : refunds'[a].order = refunds[a].order
    PROVE  LatestOwned'
  BY DEF RefundTypeOK, LatestOwned

LEMMA StoreOwned ==
    ASSUME RefundTypeOK, LatestOwned, NEW o \in Orders, NEW a \in Attempts, NEW r,
           Store(o, a, r), r.order = o
    PROVE  LatestOwned'
  <1> SUFFICES ASSUME NEW q \in Orders, latest'[q] # NoAttempt
               PROVE  refunds'[latest'[q]].order = q
    BY DEF LatestOwned
  <1>1. CASE q = o
    BY <1>1 DEF Store, RefundTypeOK
  <1>2. CASE q # o
    <2>1. latest'[q] = latest[q] /\ latest[q] \in Attempts /\ refunds[latest[q]].order = q
      BY <1>2 DEF Store, RefundTypeOK, LatestOwned
    <2>2. latest[q] # a
      BY <2>1, RefundAssumption DEF Store, Unused
    <2> QED BY <2>1, <2>2 DEF Store, RefundTypeOK
  <1> QED BY <1>1, <1>2

LEMMA RefundStepTypes ==
    ASSUME RefundTypeOK, LatestOwned, [RefundNext]_refundVars
    PROVE  RefundTypeOK' /\ LatestOwned'
  <1>1. ASSUME NEW w \in Workers, NEW o \in Orders, BeginRefund(w, o) \/ BeginRejected(w, o)
        PROVE  RefundTypeOK' /\ LatestOwned'
    <2>0. PICK a \in Attempts :
             \E amt : NoHold(o, a, amt) \/ HoldBalance(o, a, amt) \/ HoldTerm(o, a, amt)
      BY <1>1 DEF BeginRefund, BeginRejected
    <2>1. PICK amt, hold, h, row, t : Store(o, a, NewAttempt(o, amt, hold, h, row, t))
      BY <2>0 DEF NoHold, HoldBalance, HoldTerm
    <2>2. NewAttempt(o, amt, hold, h, row, t).order = o
      BY DEF NewAttempt
    <2>3. LatestOwned'
      <3> DEFINE r == NewAttempt(o, amt, hold, h, row, t)
      <3>1. Store(o, a, r) /\ r.order = o
        BY <2>1, <2>2
      <3> HIDE DEF r
      <3> QED BY <3>1, StoreOwned
    <2> QED BY <1>1, <2>3, BeginRefundTypes, BeginRejectedTypes
  <1>2. ASSUME NEW w \in Workers, Park(w) \/ Settle(w) \/ Return(w)
        PROVE  RefundTypeOK' /\ LatestOwned'
    <2>1. Applied(w) /\ RefundTypeOK'
      BY <1>2, ApplyTypes
    <2>2. at[w] \in Attempts
      BY <2>1, AtTypes DEF Applied
    <2>3. \A a \in Attempts : refunds'[a].order = refunds[a].order
      <3>1. \/ UNCHANGED refunds
            \/ \E state, review, hold : Record(at[w], state, review, hold)
        BY <2>1 DEF Applied
      <3> QED BY <2>2, <3>1, RecordFacts
    <2> QED BY <2>1, <2>3, SameOwned DEF Applied
  <1>3. ASSUME UNCHANGED <<latest, refunds>> PROVE LatestOwned'
    BY <1>3 DEF LatestOwned
  <1>4. ASSUME NEW w \in Workers, NEW o \in Orders, Query(w, o) \/ Interrupted(w, o)
        PROVE  RefundTypeOK' /\ LatestOwned'
    BY <1>3, <1>4, AskTypes DEF Query, Interrupted, tableVars
  <1>5. ASSUME NEW w \in Workers, Call(w) \/ WaitAnswer(w) \/ QueryAnswer(w)
        PROVE  RefundTypeOK' /\ LatestOwned'
    BY <1>3, <1>5, ProviderTypes DEF Call, WaitAnswer, QueryAnswer, Hear, tableVars
  <1>6. ASSUME \/ Spend \/ Renew \/ UNCHANGED refundVars
               \/ \E o \in Orders : RequestRefund(o)
               \/ \E a \in Attempts : Decide(a)
               \/ \E w \in Workers : Stop(w)
        PROVE  RefundTypeOK' /\ LatestOwned'
    <2>1. UNCHANGED <<latest, refunds>>
      BY <1>6 DEF Spend, Renew, refundVars, RequestRefund, Decide, Stop, tableVars
    <2> QED BY <1>3, <1>6, <2>1, OutsideTypes
  <1> QED BY <1>1, <1>2, <1>4, <1>5, <1>6 DEF RefundNext, Continue, Begin

\* The tables and the handlers stay well formed in every run.
THEOREM RefundTypes == RefundSpec => []RefundTypeOK
  <1>1. RefundInit => RefundTypeOK /\ LatestOwned
    BY InitTypes, InitOwned
  <1>2. (RefundTypeOK /\ LatestOwned) /\ [RefundNext]_refundVars => (RefundTypeOK /\ LatestOwned)'
    BY RefundStepTypes
  <1> QED BY <1>1, <1>2, PTL DEF RefundSpec

-----------------------------------------------------------------------------
(* 2. The balance. *)

\* What each attempt took from the balance.
Taken == [a \in Attempts |-> refunds[a].held]

BalanceInv == RefundTypeOK /\ IsFiniteSet(Holding) /\ BalanceAddsUp

LEMMA TakenCounts == ASSUME RefundTypeOK PROVE Counts(Taken, Attempts)
  BY DEF RefundTypeOK, Attempt, Taken, Counts

\* Nothing that was taken changes, nor what holds it.
LEMMA SameBalance ==
    ASSUME BalanceInv,
           \A b \in Attempts : /\ refunds'[b].held = refunds[b].held
                               /\ b \in Holding' <=> b \in Holding,
           own' \in Int, balance' - own' = balance - own, balance' \in Int
    PROVE  IsFiniteSet(Holding') /\ BalanceAddsUp'
  <1>1. Holding' = Holding /\ Taken' = Taken
    BY DEF Holding, Taken
  <1>2. SumFunctionOnSet(Taken, Holding) \in Int
    BY TakenCounts, SumType DEF BalanceInv, Holding, Counts
  <1>3. balance = own - SumFunctionOnSet(Taken, Holding) /\ balance \in Int /\ own \in Int
    BY DEF BalanceInv, BalanceAddsUp, Taken, RefundTypeOK
  <1>4. balance' = own' - SumFunctionOnSet(Taken, Holding)
    BY <1>2, <1>3
  <1> QED BY <1>1, <1>4, Zenon DEF BalanceInv, BalanceAddsUp, Taken

\* An attempt takes what it holds.
LEMMA TakeBalance ==
    ASSUME BalanceInv, NEW a \in Attempts, a \notin Holding, Holding' = Holding \cup {a},
           refunds'[a].held \in Nat, \A b \in Attempts : b # a => refunds'[b].held = refunds[b].held,
           own' = own, balance' = balance - refunds'[a].held
    PROVE  IsFiniteSet(Holding') /\ BalanceAddsUp'
  <1>1. Counts(Taken', Holding) /\ IsFiniteSet(Holding) /\ Counts(Taken, Holding)
    BY TakenCounts DEF BalanceInv, Holding, Counts, Taken, RefundTypeOK, Attempt
  <1>2. \A b \in Holding : Taken'[b] = Taken[b]
    BY DEF Taken, Holding
  <1>3. SumFunctionOnSet(Taken', Holding) = SumFunctionOnSet(Taken, Holding)
    BY <1>1, <1>2, SumSame
  <1>4. Taken'[a] = refunds'[a].held
    BY DEF Taken
  <1>5. SumFunctionOnSet(Taken', Holding \cup {a}) = SumFunctionOnSet(Taken', Holding) + refunds'[a].held
    BY <1>1, <1>4, SumAdd
  <1>6. SumFunctionOnSet(Taken, Holding) \in Int
    BY <1>1, SumType
  <1>7. balance = own - SumFunctionOnSet(Taken, Holding) /\ balance \in Int /\ own \in Int
    BY DEF BalanceInv, BalanceAddsUp, Taken, RefundTypeOK
  <1>8. balance' = own' - SumFunctionOnSet(Taken', Holding \cup {a})
    BY <1>3, <1>5, <1>6, <1>7
  <1>9. IsFiniteSet(Holding \cup {a})
    BY <1>1, FS_AddElement
  <1> QED BY <1>8, <1>9, Zenon DEF BalanceAddsUp, Taken

\* An attempt gives back what it held.
LEMMA GiveBalance ==
    ASSUME BalanceInv, NEW a \in Holding, Holding' = Holding \ {a},
           \A b \in Attempts : refunds'[b].held = refunds[b].held,
           own' = own, balance' = balance + refunds[a].held
    PROVE  IsFiniteSet(Holding') /\ BalanceAddsUp'
  <1>1. IsFiniteSet(Holding) /\ Counts(Taken, Holding) /\ a \in Attempts
    BY TakenCounts DEF BalanceInv, Holding, Counts
  <1>2. Taken' = Taken /\ Taken[a] = refunds[a].held
    BY <1>1 DEF Taken
  <1>3. /\ SumFunctionOnSet(Taken, Holding) = SumFunctionOnSet(Taken, Holding \ {a}) + refunds[a].held
        /\ SumFunctionOnSet(Taken, Holding \ {a}) \in Int /\ refunds[a].held \in Int
    BY <1>1, <1>2, SumRemove
  <1>4. balance = own - SumFunctionOnSet(Taken, Holding) /\ balance \in Int /\ own \in Int
    BY DEF BalanceInv, BalanceAddsUp, Taken, RefundTypeOK
  <1>5. balance' = own' - SumFunctionOnSet(Taken, Holding \ {a})
    BY <1>3, <1>4
  <1>6. IsFiniteSet(Holding \ {a})
    BY <1>1, FS_RemoveElement
  <1> QED BY <1>2, <1>5, <1>6, Zenon DEF BalanceAddsUp, Taken

\* A hold is stored with its attempt, which was not in use.
LEMMA StoreBalance ==
    ASSUME BalanceInv, NEW o, NEW a \in Attempts, NEW amt, NEW hold \in {"none", "held"},
           NEW n \in Nat, hold = "none" => n = 0, NEW s, NEW t,
           Store(o, a, NewAttempt(o, amt, hold, n, s, t)),
           own' = own, balance' = balance - n
    PROVE  IsFiniteSet(Holding') /\ BalanceAddsUp'
  <1>1. /\ a \notin Holding /\ refunds[a].held = 0
        /\ refunds'[a].hold = hold /\ refunds'[a].held = n
        /\ \A b \in Attempts : b # a => refunds'[b] = refunds[b]
    BY DEF BalanceInv, RefundTypeOK, Store, NewAttempt, Holding, Unused
  <1>2. CASE hold = "held"
    <2>1. Holding' = Holding \cup {a}
      BY <1>1, <1>2 DEF Holding
    <2> QED BY <1>1, <2>1, TakeBalance
  <1>3. CASE hold = "none"
    <2>1. \A b \in Attempts : b \in Holding' <=> b \in Holding
      BY <1>1, <1>3 DEF Holding
    <2>2. /\ balance \in Int /\ own \in Int /\ n = 0
      BY <1>3 DEF BalanceInv, RefundTypeOK
    <2> QED BY <1>1, <1>3, <2>1, <2>2, SameBalance
  <1> QED BY <1>2, <1>3

LEMMA BeginBalance ==
    ASSUME BalanceInv, NEW w \in Workers, NEW o \in Orders,
           BeginRefund(w, o) \/ BeginRejected(w, o)
    PROVE  IsFiniteSet(Holding') /\ BalanceAddsUp'
  <1>1. PICK a \in Attempts, amt \in Nat :
           NoHold(o, a, amt) \/ HoldBalance(o, a, amt) \/ HoldTerm(o, a, amt)
    BY RefundAssumption DEF BeginRefund, BeginRejected
  <1>2. balance \in Int /\ own \in Int
    BY DEF BalanceInv, RefundTypeOK
  <1>3. CASE NoHold(o, a, amt)
    BY <1>2, <1>3, StoreBalance DEF NoHold, balanceVars
  <1>4. CASE HoldTerm(o, a, amt)
    BY <1>2, <1>4, StoreBalance DEF HoldTerm, balanceVars
  <1>5. CASE HoldBalance(o, a, amt)
    <2> DEFINE available == IF balance > 0 THEN balance ELSE 0
               take      == IF available < amt THEN available ELSE amt
               hold      == IF take > 0 THEN "held" ELSE "none"
    <2>1. take \in Nat /\ hold \in {"none", "held"} /\ (hold = "none" => take = 0)
      BY <1>2
    <2>2. /\ Store(o, a, NewAttempt(o, amt, hold, take, NoRow, 0))
          /\ balance' = balance - take /\ own' = own
      BY <1>5 DEF HoldBalance
    <2> HIDE DEF take, hold
    <2> QED BY <2>1, <2>2, StoreBalance
  <1> QED BY <1>1, <1>3, <1>4, <1>5

\* Whatever is recorded of an attempt, what it took stays on record.
LEMMA RecordHeld ==
    ASSUME RefundTypeOK, NEW a \in Attempts, NEW state, NEW review, NEW hold,
           Record(a, state, review, hold)
    PROVE  \A b \in Attempts : refunds'[b].held = refunds[b].held
  BY DEF RefundTypeOK, Record, Attempt

LEMMA ApplyBalance ==
    ASSUME BalanceInv, NEW w \in Workers, Park(w) \/ Settle(w) \/ Return(w)
    PROVE  IsFiniteSet(Holding') /\ BalanceAddsUp'
  <1> DEFINE a == at[w]
  <1>1. a \in Attempts /\ refunds[a] \in Attempt /\ balance \in Int /\ own \in Int
    BY AtTypes DEF BalanceInv, RefundTypeOK, Park, Settle, Return
  <1>2. own' = own
    BY DEF Park, Settle, Return, balanceVars
  <1>3. CASE UNCHANGED <<refunds, balance>>
    BY <1>1, <1>2, <1>3, SameBalance DEF Holding
  <1>4. ASSUME NEW state, NEW review, NEW hold, Record(a, state, review, hold),
               hold \in {"held", "consumed"} <=> a \in Holding, UNCHANGED balance
        PROVE  IsFiniteSet(Holding') /\ BalanceAddsUp'
    <2>1. \A b \in Attempts : b \in Holding' <=> b \in Holding
      BY <1>1, <1>4, RecordFacts DEF BalanceInv, Holding
    <2> QED BY <1>1, <1>2, <1>4, <2>1, RecordHeld, SameBalance DEF BalanceInv
  <1>5. CASE Park(w)
    BY <1>1, <1>3, <1>4, <1>5 DEF Park, Holding, balanceVars
  <1>6. CASE Settle(w)
    BY <1>1, <1>3, <1>4, <1>6 DEF Settle, Holding, balanceVars
  <1>7. CASE Return(w)
    <2>1. CASE refunds[a].hold = "held" /\ refunds' # refunds
      <3>1. /\ Record(a, "failed", FALSE, "returned")
            /\ balance' = balance + refunds[a].held
        BY <1>7, <2>1 DEF Return
      <3>2. /\ refunds'[a].hold = "returned"
            /\ \A b \in Attempts : b # a => refunds'[b] = refunds[b]
        BY <1>1, <3>1 DEF BalanceInv, RefundTypeOK, Attempt, Record
      <3>3. a \in Holding /\ Holding' = Holding \ {a}
        BY <1>1, <2>1, <3>2 DEF Holding
      <3>4. \A b \in Attempts : refunds'[b].held = refunds[b].held
        BY <1>1, <3>1, RecordHeld DEF BalanceInv
      <3> QED BY <1>2, <3>1, <3>3, <3>4, GiveBalance
    <2>2. CASE refunds[a].hold # "held"
      BY <1>1, <1>3, <1>4, <1>7, <2>2 DEF Return, Holding
    <2>3. CASE refunds[a].hold = "held" /\ refunds' = refunds
      <3>1. Record(a, "failed", FALSE, "returned") => refunds'[a].hold = "returned"
        BY <1>1 DEF BalanceInv, RefundTypeOK, Attempt, Record
      <3>2. ~Record(a, "failed", FALSE, "returned")
        BY <2>3, <3>1
      <3>3. UNCHANGED balance
        BY <1>7, <2>3, <3>2 DEF Return
      <3> QED BY <1>3, <2>3, <3>3
    <2> QED BY <2>1, <2>2, <2>3
  <1> QED BY <1>5, <1>6, <1>7

LEMMA BalanceStep ==
    ASSUME BalanceInv, LatestOwned, [RefundNext]_refundVars
    PROVE  BalanceInv' /\ LatestOwned'
  <1>1. RefundTypeOK' /\ LatestOwned'
    BY RefundStepTypes DEF BalanceInv
  <1>2. ASSUME UNCHANGED <<refunds, balanceVars>> PROVE IsFiniteSet(Holding') /\ BalanceAddsUp'
    BY <1>2, SameBalance DEF BalanceInv, RefundTypeOK, Holding, balanceVars
  <1>3. ASSUME NEW w \in Workers, Call(w) \/ WaitAnswer(w) \/ QueryAnswer(w) \/ Stop(w)
        PROVE  UNCHANGED <<refunds, balanceVars>>
    BY <1>3 DEF Call, WaitAnswer, QueryAnswer, Hear, Stop, tableVars
  <1>4. ASSUME NEW w \in Workers, NEW o \in Orders, Query(w, o) \/ Interrupted(w, o)
        PROVE  UNCHANGED <<refunds, balanceVars>>
    BY <1>4 DEF Query, Interrupted, tableVars
  <1>5. ASSUME \/ Renew \/ UNCHANGED refundVars
               \/ \E o \in Orders : RequestRefund(o)
               \/ \E a \in Attempts : Decide(a)
        PROVE  UNCHANGED <<refunds, balanceVars>>
    BY <1>5 DEF Renew, RequestRefund, Decide, refundVars, tableVars
  <1>6. ASSUME Spend PROVE IsFiniteSet(Holding') /\ BalanceAddsUp'
    <2>1. /\ balance' = balance - 1 /\ own' = own - 1 /\ refunds' = refunds
          /\ balance \in Int /\ own \in Int
      BY <1>6 DEF BalanceInv, RefundTypeOK, Spend, tableVars
    <2>2. balance' - own' = balance - own /\ balance' \in Int /\ own' \in Int
      BY <2>1
    <2> QED BY <2>1, <2>2, SameBalance DEF Holding
  <1>7. ASSUME NEW w \in Workers, Continue(w) \/ Stop(w) \/ \E o \in Orders : Begin(w, o)
        PROVE  IsFiniteSet(Holding') /\ BalanceAddsUp'
    BY <1>2, <1>3, <1>4, <1>7, BeginBalance, ApplyBalance DEF Continue, Begin
  <1> QED BY <1>1, <1>2, <1>5, <1>6, <1>7 DEF BalanceInv, RefundNext

(* handleExecuteRefund, its rollback and what follows of a provider's       *)
(* answer: whatever faults happen and however many handlers work on the    *)
(* refunds, the balance lacks exactly what the attempts that hold some of  *)
(* it took, so that nothing is given back twice or never.                  *)
THEOREM RefundBalance == RefundSpec => []BalanceAddsUp
  <1>1. RefundInit => BalanceInv /\ LatestOwned
    <2> SUFFICES ASSUME RefundInit PROVE IsFiniteSet(Holding) /\ BalanceAddsUp
      BY InitTypes, InitOwned DEF BalanceInv
    <2>1. Holding = {}
      BY DEF RefundInit, Holding, Unused
    <2>2. own \in Int /\ balance = own
      BY InitTypes DEF RefundInit, RefundTypeOK
    <2> QED BY <2>1, <2>2, SumOfNone, FS_EmptySet DEF BalanceAddsUp
  <1>2. (BalanceInv /\ LatestOwned) /\ [RefundNext]_refundVars => (BalanceInv /\ LatestOwned)'
    BY BalanceStep
  <1>3. BalanceInv => BalanceAddsUp
    BY DEF BalanceInv
  <1> QED BY <1>1, <1>2, <1>3, PTL DEF RefundSpec

-----------------------------------------------------------------------------
(* 3. The invariant. *)

\* What an attempt says of its order, its hold and the provider.
AttemptFacts(a) ==
    LET r == refunds[a]
        o == refunds[a].order
    IN
    /\ o = NoOrder => r.state = "none" /\ r.hold = "none" /\ gateway[a] = "unsent"
    /\ o # NoOrder =>
          /\ r.state # "none"
          /\ r.state \in LiveState => a = latest[o] /\ InRefund(o) /\ r.hold \in {"none", "held"}
          /\ r.state = "succeeded" =>
                /\ a = latest[o] /\ status[o] \in Settled
                /\ gateway[a] = "refunded" /\ r.hold \in {"none", "consumed"}
          /\ r.state = "failed" =>
                gateway[a] \in {"unsent", "failed"} /\ r.hold \in {"none", "returned"}

\* What the status of an order says of its latest attempt.
OrderFacts(o) ==
    IF latest[o] = NoAttempt
    THEN \/ status[o] \in {"COMPLETED", "REFUND_REQUESTED"}
         \/ status[o] = "REFUNDING" /\ o \in RejectedOrders
    ELSE \/ InRefund(o) /\ refunds[latest[o]].state \in LiveState
         \/ status[o] \in Settled /\ refunds[latest[o]].state = "succeeded"
         \/ status[o] = "REFUND_FAILED" /\ refunds[latest[o]].state = "failed"

\* No handler is about to send the request of this attempt.
Uncalled(a) == \A v \in Workers : pc[v] = "call" => at[v] # a

\* What a handler knows of the attempt it works on.
HandlerFacts(w) ==
    /\ pc[w] = "call" => /\ gateway[at[w]] = "unsent"
                         /\ refunds[at[w]].state \in LiveState
    /\ pc[w] = "apply" /\ answer[w] = "failed" =>
          gateway[at[w]] \in {"unsent", "failed"} /\ Uncalled(at[w])
    /\ pc[w] = "apply" /\ answer[w] = "succeeded" => gateway[at[w]] = "refunded"

\* The request of an attempt is sent by one handler.
OneCaller ==
    \A v, w \in Workers : pc[v] = "call" /\ pc[w] = "call" /\ at[v] = at[w] => v = w

\* No answer about the order of this attempt was wrong.
Trusted(a) == refunds[a].order \notin misled

RefundFacts ==
    /\ \A a \in Attempts : Trusted(a) => AttemptFacts(a)
    /\ \A o \in Orders \ misled : OrderFacts(o)
    /\ \A w \in Workers : pc[w] # "idle" /\ Trusted(at[w]) => HandlerFacts(w)
    /\ OneCaller

RefundInv == RefundTypeOK /\ LatestOwned /\ RefundFacts

LEMMA InitFacts == RefundInit => RefundFacts
  <1> SUFFICES ASSUME RefundInit PROVE RefundFacts
    OBVIOUS
  <1>1. ASSUME NEW a \in Attempts PROVE AttemptFacts(a)
    BY DEF RefundInit, AttemptFacts, Unused
  <1>2. ASSUME NEW o \in Orders PROVE OrderFacts(o)
    BY DEF RefundInit, OrderFacts
  <1>3. ASSUME NEW w \in Workers PROVE pc[w] = "idle"
    BY DEF RefundInit
  <1> QED BY <1>1, <1>2, <1>3 DEF RefundFacts, HandlerFacts, OneCaller

\* Each attempt is one of an order or unused, and then trusted.
LEMMA OrderOf ==
    ASSUME RefundTypeOK, NEW a \in Attempts
    PROVE  /\ refunds[a].order \in Orders \cup {NoOrder}
           /\ refunds[a].order \in Orders => refunds[a].order # NoOrder
           /\ refunds[a].order = NoOrder => Trusted(a)
           /\ refunds[a].state \in LiveState \cup {"none", "succeeded", "failed"}
  <1>1. refunds[a] \in Attempt /\ misled \subseteq Orders
    BY DEF RefundTypeOK
  <1> QED BY <1>1, RefundAssumption DEF Attempt, Trusted

\* A step of one handler that leaves the tables and the provider alone.
Aside(w) ==
    /\ UNCHANGED <<status, latest, refunds, gateway>>
    /\ misled \subseteq misled'
    /\ pc'[w] # "call"
    /\ \A v \in Workers : v # w =>
          pc'[v] = pc[v] /\ at'[v] = at[v] /\ answer'[v] = answer[v]

\* Tables and provider as they are, the facts about them hold on.
LEMMA TablesKept ==
    ASSUME RefundFacts, UNCHANGED <<status, latest, refunds, gateway>>, misled \subseteq misled'
    PROVE  /\ \A a \in Attempts : Trusted(a)' => AttemptFacts(a)'
           /\ \A o \in Orders \ misled' : OrderFacts(o)'
  BY DEF RefundFacts, AttemptFacts, OrderFacts, InRefund, Trusted

LEMMA AsideKeeps ==
    ASSUME RefundInv, NEW w \in Workers, Aside(w), Trusted(at[w])' => HandlerFacts(w)'
    PROVE  RefundFacts'
  <1>1. ASSUME NEW v \in Workers, v # w, pc'[v] # "idle", Trusted(at[v])'
        PROVE  HandlerFacts(v)'
    <2>1. HandlerFacts(v) /\ pc'[v] = pc[v] /\ at'[v] = at[v] /\ answer'[v] = answer[v]
      BY <1>1 DEF RefundInv, RefundFacts, Aside, Trusted
    <2>2. Uncalled(at[v]) => Uncalled(at[v])'
      BY <2>1 DEF Uncalled, Aside
    <2> QED BY <2>1, <2>2 DEF HandlerFacts, Aside
  <1>2. OneCaller'
    BY DEF RefundInv, RefundFacts, OneCaller, Aside
  <1> QED BY <1>1, <1>2, TablesKept DEF RefundInv, RefundFacts, Aside

LEMMA FinishAside ==
    ASSUME RefundTypeOK, NEW w \in Workers, Finish(w),
           UNCHANGED <<status, latest, refunds, gateway, misled>>
    PROVE  Aside(w) /\ HandlerFacts(w)'
  BY DEF RefundTypeOK, Finish, Aside, HandlerFacts

LEMMA HearAside ==
    ASSUME RefundTypeOK, NEW w \in Workers, NEW r, Hear(w, r), misled \subseteq misled'
    PROVE  /\ Aside(w)
           /\ pc'[w] = "apply" /\ answer'[w] = r /\ at'[w] = at[w] /\ gateway' = gateway
  BY DEF RefundTypeOK, Hear, Aside, tableVars

\* A handler hears of a decision what was decided, or the order is misled.
LEMMA AnswerKeeps ==
    ASSUME RefundInv, NEW w \in Workers, WaitAnswer(w) \/ QueryAnswer(w)
    PROVE  RefundFacts'
  <1>1. pc[w] \in {"wait", "query"} /\ RefundTypeOK /\ at[w] \in Attempts
    BY AtTypes DEF WaitAnswer, QueryAnswer, RefundInv
  <1>2. PICK r : /\ Hear(w, r) /\ misled \subseteq misled'
                 /\ Trusted(at[w])' => /\ Trusted(at[w])
                                       /\ r = "failed" => Dead(at[w])
                                       /\ r = "succeeded" => gateway[at[w]] = "refunded"
    <2>1. CASE WaitAnswer(w)
      <3>1. PICK r \in RefundAnswers(gateway[at[w]]) : Hear(w, r)
        BY <2>1 DEF WaitAnswer
      <3>2. /\ r = "failed" => gateway[at[w]] = "failed"
            /\ r = "succeeded" => gateway[at[w]] = "refunded"
        BY <3>1 DEF RefundAnswers
      <3>3. misled' = misled /\ at' = at /\ refunds' = refunds
        BY <2>1, <3>1 DEF WaitAnswer, Hear, tableVars
      <3> QED BY <3>1, <3>2, <3>3 DEF Dead, Trusted
    <2>2. CASE QueryAnswer(w)
      <3>1. PICK r \in QueryAnswers(at[w]) :
               /\ Hear(w, r)
               /\ misled' = IF Misleads(at[w], r)
                            THEN misled \cup {refunds[at[w]].order} ELSE misled
        BY <2>2 DEF QueryAnswer
      <3>2. at' = at /\ refunds' = refunds
        BY <3>1 DEF Hear, tableVars
      <3>3. Trusted(at[w])' => ~Misleads(at[w], r)
        BY <3>1, <3>2 DEF Trusted
      <3> QED BY <3>1, <3>2, <3>3 DEF Misleads, Trusted
    <2> QED BY <2>1, <2>2
  <1>3. /\ Aside(w) /\ pc'[w] = "apply" /\ answer'[w] = r
        /\ at'[w] = at[w] /\ gateway' = gateway
    BY <1>1, <1>2, HearAside
  <1>4. ASSUME Trusted(at[w])' PROVE HandlerFacts(w)'
    <2>1. gateway[at[w]] = "failed" => Uncalled(at[w])
      <3>1. ASSUME NEW v \in Workers, gateway[at[w]] = "failed", pc[v] = "call", at[v] = at[w]
            PROVE  FALSE
        BY <1>2, <1>4, <3>1 DEF RefundInv, RefundFacts, HandlerFacts
      <3> QED BY <3>1 DEF Uncalled
    <2>2. r = "failed" => gateway[at[w]] \in {"unsent", "failed"} /\ Uncalled(at[w])
      BY <1>2, <1>4, <2>1 DEF Dead, Uncalled
    <2>3. Uncalled(at[w]) => Uncalled(at[w])'
      BY <1>3 DEF Uncalled, Aside
    <2> QED BY <1>2, <1>3, <1>4, <2>2, <2>3 DEF HandlerFacts
  <1> QED BY <1>3, <1>4, AsideKeeps

LEMMA AskKeeps ==
    ASSUME RefundInv, NEW w \in Workers, NEW o \in Orders, Query(w, o) \/ Interrupted(w, o)
    PROVE  RefundFacts'
  <1>1. Aside(w) /\ HandlerFacts(w)'
    BY DEF RefundInv, RefundTypeOK, Query, Interrupted, Start, Aside, HandlerFacts, tableVars
  <1> QED BY <1>1, AsideKeeps

LEMMA StopKeeps ==
    ASSUME RefundInv, NEW w \in Workers, Stop(w)
    PROVE  RefundFacts'
  <1>1. Aside(w) /\ HandlerFacts(w)'
    BY DEF RefundInv, RefundTypeOK, Stop, Aside, HandlerFacts, tableVars
  <1> QED BY <1>1, AsideKeeps

LEMMA CallKeeps ==
    ASSUME RefundInv, NEW w \in Workers, Call(w)
    PROVE  RefundFacts'
  <1>1. /\ at[w] \in Attempts /\ refunds[at[w]].order \in Orders /\ pc[w] = "call"
        /\ Trusted(at[w]) => gateway[at[w]] = "unsent" /\ refunds[at[w]].state \in LiveState
    BY AtTypes DEF Call, RefundInv, RefundFacts, HandlerFacts
  <1>2. /\ UNCHANGED <<status, latest, refunds, misled, at, answer>>
        /\ pc'[w] = "wait" /\ \A v \in Workers : v # w => pc'[v] = pc[v]
        /\ gateway'[at[w]] = "sent" \/ gateway'[at[w]] = gateway[at[w]]
        /\ \A a \in Attempts : a # at[w] => gateway'[a] = gateway[a]
    BY <1>1 DEF RefundInv, RefundTypeOK, Call, tableVars
  <1>3. ASSUME NEW a \in Attempts, Trusted(a)' PROVE AttemptFacts(a)'
    <2>1. AttemptFacts(a) /\ Trusted(a) /\ (a = at[w] => refunds[a].order # NoOrder)
      BY <1>1, <1>2, <1>3, RefundAssumption DEF RefundInv, RefundFacts, Trusted
    <2> QED BY <1>1, <1>2, <2>1 DEF AttemptFacts, InRefund, LiveState
  <1>4. ASSUME NEW o \in Orders \ misled' PROVE OrderFacts(o)'
    BY <1>2 DEF RefundInv, RefundFacts, OrderFacts, InRefund
  <1>5. ASSUME NEW v \in Workers, pc'[v] # "idle", Trusted(at[v])' PROVE HandlerFacts(v)'
    <2>1. CASE v = w
      BY <1>2, <2>1 DEF HandlerFacts
    <2>2. CASE v # w
      <3>1. HandlerFacts(v) /\ pc'[v] = pc[v] /\ at'[v] = at[v] /\ answer'[v] = answer[v]
            /\ at[v] \in Attempts
        BY <1>2, <1>5, <2>2 DEF RefundInv, RefundFacts, RefundTypeOK, Trusted
      <3>2. Uncalled(at[v]) => at[v] # at[w] /\ Uncalled(at[v])'
        BY <1>2 DEF Uncalled, Call
      <3>3. pc[v] = "call" => at[v] # at[w]
        BY <2>2 DEF RefundInv, RefundFacts, OneCaller, Call
      <3>4. Trusted(at[v])
        BY <1>2, <1>5 DEF Trusted
      <3>5. at[v] = at[w] => gateway[at[w]] = "unsent"
        BY <1>1, <3>4
      <3> QED BY <1>1, <1>2, <3>1, <3>2, <3>3, <3>5 DEF HandlerFacts
    <2> QED BY <2>1, <2>2
  <1>6. OneCaller'
    BY <1>2 DEF RefundInv, RefundFacts, OneCaller
  <1> QED BY <1>3, <1>4, <1>5, <1>6 DEF RefundFacts

LEMMA DecideKeeps ==
    ASSUME RefundInv, NEW a \in Attempts, Decide(a)
    PROVE  RefundFacts'
  <1>1. /\ gateway[a] \in {"sent", "pending"}
        /\ gateway'[a] \in {"pending", "refunded", "failed"}
        /\ \A b \in Attempts : b # a => gateway'[b] = gateway[b]
        /\ UNCHANGED <<status, latest, refunds, misled, pc, at, answer>>
    BY DEF RefundInv, RefundTypeOK, Decide, tableVars, workerVars
  <1>2. ASSUME NEW b \in Attempts, Trusted(b)' PROVE AttemptFacts(b)'
    BY <1>1, <1>2 DEF RefundInv, RefundFacts, AttemptFacts, InRefund, Trusted
  <1>3. ASSUME NEW o \in Orders \ misled' PROVE OrderFacts(o)'
    BY <1>1 DEF RefundInv, RefundFacts, OrderFacts, InRefund
  <1>4. ASSUME NEW v \in Workers, pc'[v] # "idle", Trusted(at[v])' PROVE HandlerFacts(v)'
    <2>1. HandlerFacts(v) /\ at[v] \in Attempts
      BY <1>1, <1>4 DEF RefundInv, RefundFacts, RefundTypeOK, Trusted
    <2> QED BY <1>1, <2>1 DEF HandlerFacts, Uncalled
  <1>5. OneCaller'
    BY <1>1 DEF RefundInv, RefundFacts, OneCaller
  <1> QED BY <1>2, <1>3, <1>4, <1>5 DEF RefundFacts

\* An order that may begin a refund has no live and no successful attempt.
LEMMA NothingOpen ==
    ASSUME RefundInv, NEW o \in Orders \ misled,
           latest[o] = NoAttempt \/ refunds[latest[o]].state = "failed"
    PROVE  \A b \in Attempts : refunds[b].order = o => refunds[b].state = "failed"
  <1> SUFFICES ASSUME NEW b \in Attempts, refunds[b].order = o
               PROVE  refunds[b].state = "failed"
    OBVIOUS
  <1>1. AttemptFacts(b) /\ b # NoAttempt /\ o # NoOrder
    BY RefundAssumption DEF RefundInv, RefundFacts, Trusted
  <1>2. b # latest[o] \/ refunds[b].state = "failed"
    BY <1>1
  <1>3. refunds[b].state \in LiveState \cup {"none", "succeeded", "failed"}
    BY DEF RefundInv, RefundTypeOK, Attempt
  <1> QED BY <1>1, <1>2, <1>3 DEF AttemptFacts

\* A new attempt begins.
LEMMA StoreKeeps ==
    ASSUME RefundInv, NEW w \in Workers, NEW o \in Orders, NEW a \in Attempts, NEW r,
           latest[o] = NoAttempt \/ refunds[latest[o]].state = "failed",
           Store(o, a, r), r.order = o, r.state = "calling", r.hold \in {"none", "held"},
           status'[o] = "REFUNDING", \A q \in Orders : q # o => status'[q] = status[q],
           \/ Start(w, a, "call") /\ UNCHANGED answer
           \/ Start(w, a, "apply") /\ answer' = [answer EXCEPT ![w] = "failed"],
           UNCHANGED <<gateway, misled>>
    PROVE  RefundFacts'
  <1>1. /\ refunds[a] = Unused /\ refunds[a].order = NoOrder /\ gateway[a] = "unsent"
        /\ refunds'[a] = r /\ latest'[o] = a
        /\ \A b \in Attempts : b # a => refunds'[b] = refunds[b]
        /\ \A q \in Orders : q # o => latest'[q] = latest[q]
    <2>1. refunds[a] = Unused /\ refunds[a].order = NoOrder
      BY DEF Store, Unused
    <2>2. AttemptFacts(a)
      BY <2>1, OrderOf DEF RefundInv, RefundFacts
    <2> QED BY <2>1, <2>2 DEF Store, RefundInv, RefundTypeOK, AttemptFacts
  <1>2. o # NoOrder /\ a # NoAttempt /\ r.state \in LiveState
    BY RefundAssumption DEF LiveState
  <1>3. \A v \in Workers : pc[v] # "idle" => at[v] # a /\ at[v] \in Attempts
    BY <1>1, RefundAssumption DEF RefundInv, RefundTypeOK
  <1>4. ASSUME NEW b \in Attempts, Trusted(b)' PROVE AttemptFacts(b)'
    <2>1. CASE b = a
      BY <1>1, <1>2, <2>1 DEF AttemptFacts, InRefund, LiveState
    <2>2. CASE b # a /\ refunds[b].order = o
      <3>0. o \in Orders \ misled /\ Trusted(b)
        BY <1>1, <1>4, <2>2 DEF Trusted
      <3>1. AttemptFacts(b) /\ refunds[b].state = "failed" /\ refunds'[b] = refunds[b]
        BY <1>1, <2>2, <3>0, NothingOpen DEF RefundInv, RefundFacts
      <3> QED BY <2>2, <3>1, <1>2 DEF AttemptFacts, LiveState
    <2>3. CASE b # a /\ refunds[b].order # o
      <3>1. AttemptFacts(b) /\ refunds'[b] = refunds[b]
            /\ refunds[b].order \in Orders \cup {NoOrder}
        BY <1>1, <1>4, <2>3, OrderOf DEF RefundInv, RefundFacts, Trusted
      <3> QED BY <1>1, <2>3, <3>1 DEF AttemptFacts, InRefund
    <2> QED BY <2>1, <2>2, <2>3
  <1>5. ASSUME NEW q \in Orders \ misled' PROVE OrderFacts(q)'
    <2>1. CASE q = o
      BY <1>1, <1>2, <2>1 DEF OrderFacts, InRefund
    <2>2. CASE q # o
      <3>1. /\ OrderFacts(q) /\ latest[q] \in Attempts \cup {NoAttempt}
            /\ latest[q] # NoAttempt => latest[q] # a
        BY <1>1, RefundAssumption DEF RefundInv, RefundFacts, LatestOwned, RefundTypeOK
      <3> QED BY <1>1, <2>2, <3>1 DEF OrderFacts, InRefund
    <2> QED BY <2>1, <2>2
  <1>6. /\ at'[w] = a
        /\ \/ pc'[w] = "call"
           \/ pc'[w] = "apply" /\ answer'[w] = "failed"
        /\ \A v \in Workers : v # w =>
              pc'[v] = pc[v] /\ at'[v] = at[v] /\ answer'[v] = answer[v]
    BY DEF RefundInv, RefundTypeOK, Start
  <1>7. ASSUME NEW v \in Workers, pc'[v] # "idle", Trusted(at[v])' PROVE HandlerFacts(v)'
    <2>1. CASE v = w
      <3>1. pc'[w] # "call" => Uncalled(a)'
        BY <1>3, <1>6 DEF Uncalled
      <3>2. Uncalled(a)' => Uncalled(at[w])'
        BY <1>6 DEF Uncalled
      <3> QED BY <1>1, <1>2, <1>6, <2>1, <3>1, <3>2 DEF HandlerFacts
    <2>2. CASE v # w
      <3>1. HandlerFacts(v)
        BY <1>1, <1>3, <1>6, <1>7, <2>2 DEF RefundInv, RefundFacts, Trusted
      <3>2. pc[v] # "idle" /\ Uncalled(at[v]) => Uncalled(at[v])'
        BY <1>3, <1>6, <2>2 DEF Uncalled
      <3> QED BY <1>1, <1>3, <1>6, <2>2, <3>1, <3>2 DEF HandlerFacts
    <2> QED BY <2>1, <2>2
  <1>8. OneCaller'
    BY <1>3, <1>6 DEF RefundInv, RefundFacts, OneCaller
  <1> QED BY <1>4, <1>5, <1>7, <1>8 DEF RefundFacts

LEMMA BeginKeeps ==
    ASSUME RefundInv, NEW w \in Workers, NEW o \in Orders,
           BeginRefund(w, o) \/ BeginRejected(w, o)
    PROVE  RefundFacts'
  <1>1. PICK a \in Attempts :
           /\ \E amt : NoHold(o, a, amt) \/ HoldBalance(o, a, amt) \/ HoldTerm(o, a, amt)
           /\ \/ Start(w, a, "call") /\ UNCHANGED answer
              \/ Start(w, a, "apply") /\ answer' = [answer EXCEPT ![w] = "failed"]
    BY DEF BeginRefund, BeginRejected
  <1>2. PICK amt, hold, h, s, t :
           hold \in {"none", "held"} /\ Store(o, a, NewAttempt(o, amt, hold, h, s, t))
    BY <1>1 DEF NoHold, HoldBalance, HoldTerm
  <1>3. latest[o] = NoAttempt \/ refunds[latest[o]].state = "failed"
    BY DEF BeginRefund, BeginRejected, MayBegin, Retryable
  <1>4. /\ status'[o] = "REFUNDING" /\ \A q \in Orders : q # o => status'[q] = status[q]
        /\ UNCHANGED <<gateway, misled>>
    BY DEF RefundInv, RefundTypeOK, BeginRefund, BeginRejected
  <1> DEFINE r == NewAttempt(o, amt, hold, h, s, t)
  <1>5. r.order = o /\ r.state = "calling" /\ r.hold \in {"none", "held"} /\ Store(o, a, r)
    BY <1>2 DEF NewAttempt
  <1> HIDE DEF r
  <1> QED BY <1>1, <1>3, <1>4, <1>5, StoreKeeps

\* A handler applies an answer to its attempt and the order of it.
Applies(w, a, o) ==
    /\ pc[w] = "apply" /\ a = at[w] /\ o = refunds[a].order
    /\ \A b \in Attempts : b # a => refunds'[b] = refunds[b]
    /\ refunds'[a].order = o
    /\ \A q \in Orders : q # o => status'[q] = status[q]
    /\ Finish(w) /\ UNCHANGED <<latest, gateway, misled>>

\* It disturbs no other attempt, order or handler.
LEMMA ApplyKeepsOthers ==
    ASSUME RefundInv, NEW w \in Workers, NEW a \in Attempts, NEW o \in Orders, Applies(w, a, o)
    PROVE  /\ \A b \in Attempts : Trusted(b)' /\ refunds[b].order # o => AttemptFacts(b)'
           /\ \A q \in Orders \ misled' : q # o => OrderFacts(q)'
           /\ \A v \in Workers : /\ pc'[v] # "idle" /\ Trusted(at[v])'
                                 /\ pc[v] = "call" /\ at[v] = a => refunds'[a].state \in LiveState
                                => HandlerFacts(v)'
           /\ OneCaller'
  <1>1. /\ pc'[w] = "idle"
        /\ \A v \in Workers : v # w =>
              pc'[v] = pc[v] /\ at'[v] = at[v] /\ answer'[v] = answer[v]
    BY DEF RefundInv, RefundTypeOK, Finish, Applies
  <1>2. ASSUME NEW b \in Attempts, Trusted(b)', refunds[b].order # o PROVE AttemptFacts(b)'
    <2>1. b # a /\ AttemptFacts(b) /\ refunds'[b] = refunds[b]
          /\ refunds[b].order \in Orders \cup {NoOrder}
      BY <1>2, OrderOf DEF RefundInv, RefundFacts, Trusted, Applies
    <2> QED BY <1>2, <2>1 DEF AttemptFacts, InRefund, Applies
  <1>3. ASSUME NEW q \in Orders \ misled', q # o PROVE OrderFacts(q)'
    <2>1. OrderFacts(q) /\ (latest[q] # NoAttempt => latest[q] \in Attempts /\ latest[q] # a)
      BY <1>3 DEF RefundInv, RefundFacts, LatestOwned, RefundTypeOK, Applies
    <2> QED BY <1>3, <2>1 DEF OrderFacts, InRefund, Applies
  <1>4. ASSUME NEW v \in Workers, pc'[v] # "idle", Trusted(at[v])',
               pc[v] = "call" /\ at[v] = a => refunds'[a].state \in LiveState
        PROVE  HandlerFacts(v)'
    <2>1. v # w /\ pc'[v] = pc[v] /\ at'[v] = at[v] /\ answer'[v] = answer[v]
          /\ at[v] \in Attempts
      BY <1>1, <1>4 DEF RefundInv, RefundTypeOK
    <2>2. refunds'[at[v]].order = refunds[at[v]].order
      BY <2>1 DEF Applies
    <2>3. HandlerFacts(v)
      BY <1>4, <2>1, <2>2 DEF RefundInv, RefundFacts, Trusted, Applies
    <2>4. Uncalled(at[v]) => Uncalled(at[v])'
      BY <1>1, <2>1 DEF Uncalled
    <2> QED BY <1>4, <2>1, <2>3, <2>4 DEF HandlerFacts, Applies
  <1>5. OneCaller'
    BY <1>1 DEF RefundInv, RefundFacts, OneCaller
  <1> QED BY <1>2, <1>3, <1>4, <1>5

\* What is applied to a misled order stays with it.
LEMMA MisledKeeps ==
    ASSUME RefundInv, NEW w \in Workers, NEW a \in Attempts, NEW o \in misled, Applies(w, a, o)
    PROVE  RefundFacts'
  <1>1. o \in Orders /\ o \in misled'
    BY DEF RefundInv, RefundTypeOK, Applies
  <1>2. ASSUME NEW b \in Attempts, Trusted(b)'
        PROVE  refunds[b].order # o /\ b # a
    BY <1>1, <1>2 DEF Trusted, Applies
  <1>3. \A v \in Workers : pc'[v] # "idle" /\ Trusted(at[v])' => at[v] # a
    BY <1>2 DEF RefundInv, RefundTypeOK, Finish, Applies
  <1> QED BY <1>1, <1>2, <1>3, ApplyKeepsOthers DEF RefundFacts

\* The live attempt of an order is decided, or is pending still.
LEMMA DecidedKeeps ==
    ASSUME RefundInv, NEW w \in Workers, NEW a \in Attempts, NEW o \in Orders \ misled,
           Applies(w, a, o), refunds[a].state \in LiveState,
           \/ /\ refunds'[a].state \in LiveState /\ status'[o] \in {"REFUNDING", "REFUND_PENDING"}
              /\ refunds'[a].hold \in {"none", "held"}
           \/ /\ refunds'[a].state = "succeeded" /\ status'[o] \in Settled
              /\ refunds'[a].hold \in {"none", "consumed"} /\ gateway[a] = "refunded"
           \/ /\ refunds'[a].state = "failed" /\ status'[o] = "REFUND_FAILED"
              /\ refunds'[a].hold \in {"none", "returned"}
              /\ gateway[a] \in {"unsent", "failed"} /\ Uncalled(a)
    PROVE  RefundFacts'
  <1>1. o # NoOrder /\ a # NoAttempt
    BY RefundAssumption
  <1>2. a = latest[o]
    BY <1>1 DEF RefundInv, RefundFacts, AttemptFacts, Trusted, Applies
  <1>3. ASSUME NEW b \in Attempts, Trusted(b)', refunds[b].order = o PROVE AttemptFacts(b)'
    <2>1. CASE b = a
      BY <1>1, <1>2, <2>1 DEF AttemptFacts, InRefund, LiveState, Applies
    <2>2. CASE b # a
      <3>1. AttemptFacts(b) /\ refunds'[b] = refunds[b] /\ b # latest[o]
        BY <1>2, <1>3, <2>2 DEF RefundInv, RefundFacts, Trusted, Applies
      <3> QED BY <1>1, <1>3, <3>1 DEF AttemptFacts, Applies
    <2> QED BY <2>1, <2>2
  <1>4. OrderFacts(o)'
    BY <1>1, <1>2 DEF OrderFacts, InRefund, Applies
  <1>5. ASSUME NEW v \in Workers, pc[v] = "call", at[v] = a PROVE refunds'[a].state \in LiveState
    <2>1. HandlerFacts(v)
      BY <1>5 DEF RefundInv, RefundFacts, Trusted, Applies
    <2> QED BY <1>5, <2>1 DEF HandlerFacts, Uncalled
  <1> QED BY <1>3, <1>4, <1>5, ApplyKeepsOthers DEF RefundFacts

LEMMA StaleKeeps ==
    ASSUME RefundInv, NEW w \in Workers, Finish(w),
           UNCHANGED <<status, latest, refunds, gateway, misled>>
    PROVE  RefundFacts'
  BY FinishAside, AsideKeeps DEF RefundInv

\* Each answer is applied, or it is stale.
LEMMA ApplyApplies ==
    ASSUME RefundTypeOK, NEW w \in Workers, Park(w) \/ Settle(w) \/ Return(w)
    PROVE  /\ at[w] \in Attempts /\ refunds[at[w]].order \in Orders
           /\ Applies(w, at[w], refunds[at[w]].order)
  <1>1. Applied(w)
    BY ApplyTypes
  <1>2. at[w] \in Attempts /\ refunds[at[w]].order \in Orders
    BY <1>1, AtTypes DEF Applied
  <1>3. /\ refunds'[at[w]].order = refunds[at[w]].order
        /\ \A b \in Attempts : b # at[w] => refunds'[b] = refunds[b]
    <2>1. \/ UNCHANGED refunds
          \/ \E state, review, hold : Record(at[w], state, review, hold)
      BY <1>1 DEF Applied
    <2> QED BY <1>2, <2>1, RecordFacts
  <1>4. \A q \in Orders : q # refunds[at[w]].order => status'[q] = status[q]
    BY <1>2 DEF RefundTypeOK, Park, Settle, Return
  <1> QED BY <1>1, <1>2, <1>3, <1>4 DEF Applied, Applies

LEMMA ParkKeeps ==
    ASSUME RefundInv, NEW w \in Workers, Park(w)
    PROVE  RefundFacts'
  <1> DEFINE a == at[w]
             o == refunds[a].order
  <1>1. a \in Attempts /\ o \in Orders /\ Applies(w, a, o)
    BY ApplyApplies DEF RefundInv
  <1>2. CASE o \in misled
    BY <1>1, <1>2, MisledKeeps
  <1>3. CASE o \notin misled /\ refunds[a].state \in LiveState /\ InRefund(o)
    <2>1. refunds[a].hold \in {"none", "held"}
      <3>1. AttemptFacts(a) /\ o # NoOrder
        BY <1>1, <1>3, RefundAssumption DEF RefundInv, RefundFacts, Trusted
      <3> QED BY <1>3, <3>1 DEF AttemptFacts
    <2>2. PICK state \in LiveState, review \in BOOLEAN :
             Record(a, state, review, refunds[a].hold)
             /\ status' = [status EXCEPT ![o] = "REFUND_PENDING"]
      BY <1>3 DEF Park, LiveState
    <2>3. refunds'[a].state = state /\ refunds'[a].hold = refunds[a].hold
      BY <1>1, <2>2, RecordFacts DEF RefundInv
    <2>4. status'[o] = "REFUND_PENDING"
      BY <1>1, <2>2 DEF RefundInv, RefundTypeOK
    <2> HIDE DEF a, o
    <2> QED BY <1>1, <1>3, <2>1, <2>2, <2>3, <2>4, DecidedKeeps
  <1>4. CASE ~(refunds[a].state \in LiveState /\ InRefund(o))
    BY <1>1, <1>4, StaleKeeps DEF Park, Applies
  <1> QED BY <1>2, <1>3, <1>4

\* An attempt that was decided does not change: what is applied concerns an
\* attempt that is live, or nothing at all.
LEMMA SettleKeeps ==
    ASSUME RefundInv, NEW w \in Workers, Settle(w)
    PROVE  RefundFacts'
  <1> DEFINE a == at[w]
             o == refunds[a].order
             effective == /\ ~(refunds[a].state = "succeeded" /\ refunds[a].hold \in {"consumed", "none"})
                          /\ refunds[a].hold # "returned"
                          /\ InRefund(o)
  <1>1. a \in Attempts /\ o \in Orders /\ Applies(w, a, o)
    BY ApplyApplies DEF RefundInv
  <1>2. CASE o \in misled
    BY <1>1, <1>2, MisledKeeps
  <1>3. CASE o \notin misled /\ effective
    <2>1. AttemptFacts(a) /\ o # NoOrder /\ gateway[a] = "refunded"
      BY <1>1, <1>3, RefundAssumption
         DEF Settle, RefundInv, RefundFacts, HandlerFacts, Trusted
    <2>2. refunds[a].state \in LiveState /\ refunds[a].hold \in {"none", "held"}
      <3>1. refunds[a].state \in LiveState \cup {"none", "succeeded", "failed"}
        BY <1>1 DEF RefundInv, RefundTypeOK, Attempt
      <3> QED BY <1>3, <2>1, <3>1 DEF AttemptFacts
    <2>3. PICK s \in Settled, hold \in {"none", "consumed"}, review \in BOOLEAN :
             Record(a, "succeeded", review, hold) /\ status' = [status EXCEPT ![o] = s]
      <3>1. "REFUNDED" \in Settled /\ "PARTIALLY_REFUNDED" \in Settled
        BY DEF Settled
      <3> QED BY <1>3, <2>2, <3>1 DEF Settle
    <2>4. refunds'[a].state = "succeeded" /\ refunds'[a].hold = hold
      BY <1>1, <2>3, RecordFacts DEF RefundInv
    <2>5. status'[o] = s
      BY <1>1, <2>3 DEF RefundInv, RefundTypeOK
    <2> HIDE DEF a, o, effective
    <2> QED BY <1>1, <1>3, <2>1, <2>2, <2>3, <2>4, <2>5, DecidedKeeps
  <1>4. CASE ~effective
    <2>1. UNCHANGED <<status, refunds>>
      BY <1>4 DEF Settle
    <2> QED BY <1>1, <2>1, StaleKeeps DEF Applies
  <1> QED BY <1>2, <1>3, <1>4

LEMMA ReturnKeeps ==
    ASSUME RefundInv, NEW w \in Workers, Return(w)
    PROVE  RefundFacts'
  <1> DEFINE a == at[w]
             o == refunds[a].order
             effective == /\ ~(refunds[a].state = "failed" /\ refunds[a].hold \in {"returned", "none"})
                          /\ refunds[a].hold # "consumed"
                          /\ InRefund(o) \/ status[o] = "REFUND_FAILED"
                          /\ ~Blocked(refunds[a])
  <1>1. a \in Attempts /\ o \in Orders /\ Applies(w, a, o)
    BY ApplyApplies DEF RefundInv
  <1>2. CASE o \in misled
    BY <1>1, <1>2, MisledKeeps
  <1>3. CASE o \notin misled /\ effective
    <2>1. /\ AttemptFacts(a) /\ o # NoOrder
          /\ gateway[a] \in {"unsent", "failed"} /\ Uncalled(a)
      BY <1>1, <1>3, RefundAssumption
         DEF Return, RefundInv, RefundFacts, HandlerFacts, Trusted
    <2>2. refunds[a].state \in LiveState /\ refunds[a].hold \in {"none", "held"}
      <3>1. refunds[a].state \in LiveState \cup {"none", "succeeded", "failed"}
        BY <1>1 DEF RefundInv, RefundTypeOK, Attempt
      <3> QED BY <1>3, <2>1, <3>1 DEF AttemptFacts
    <2>3. PICK hold \in {"none", "returned"}, review \in BOOLEAN :
             Record(a, "failed", review, hold) /\ status' = [status EXCEPT ![o] = "REFUND_FAILED"]
      BY <1>3, <2>2 DEF Return
    <2>4. refunds'[a].state = "failed" /\ refunds'[a].hold = hold
      BY <1>1, <2>3, RecordFacts DEF RefundInv
    <2>5. status'[o] = "REFUND_FAILED"
      BY <1>1, <2>3 DEF RefundInv, RefundTypeOK
    <2> HIDE DEF a, o, effective
    <2> QED BY <1>1, <1>3, <2>1, <2>2, <2>3, <2>4, <2>5, DecidedKeeps
  <1>4. CASE ~effective
    <2>1. UNCHANGED <<status, refunds>>
      BY <1>4 DEF Return
    <2> QED BY <1>1, <2>1, StaleKeeps DEF Applies
  <1> QED BY <1>2, <1>3, <1>4

LEMMA OutsideKeeps ==
    ASSUME RefundInv, Spend \/ Renew \/ UNCHANGED refundVars \/ \E o \in Orders : RequestRefund(o)
    PROVE  RefundFacts'
  <1>1. UNCHANGED <<latest, refunds, gateway, misled, pc, at, answer>>
    BY DEF Spend, Renew, RequestRefund, refundVars, tableVars, workerVars
  <1>2. (\A w \in Workers : pc'[w] # "idle" /\ Trusted(at[w])' => HandlerFacts(w)') /\ OneCaller'
    BY <1>1 DEF RefundInv, RefundFacts, HandlerFacts, Uncalled, OneCaller, Trusted
  <1>3. CASE UNCHANGED status
    BY <1>1, <1>2, <1>3, TablesKept DEF RefundInv, RefundFacts
  <1>4. ASSUME NEW o \in Orders, RequestRefund(o) PROVE RefundFacts'
    <2>1. /\ status[o] = "COMPLETED" /\ status'[o] = "REFUND_REQUESTED"
          /\ \A q \in Orders : q # o => status'[q] = status[q]
      BY <1>4 DEF RefundInv, RefundTypeOK, RequestRefund
    <2>2. ASSUME NEW q \in Orders \ misled' PROVE OrderFacts(q)'
      BY <1>1, <2>1 DEF RefundInv, RefundFacts, OrderFacts, InRefund, Settled
    <2>3. ASSUME NEW a \in Attempts, Trusted(a)' PROVE AttemptFacts(a)'
      <3>1. AttemptFacts(a) /\ refunds[a].order \in Orders \cup {NoOrder}
        BY <1>1, <2>3 DEF RefundInv, RefundFacts, RefundTypeOK, Attempt, Trusted
      <3> QED BY <1>1, <2>1, <3>1 DEF AttemptFacts, InRefund, Settled
    <2> QED BY <1>2, <2>2, <2>3 DEF RefundFacts
  <1> QED BY <1>3, <1>4 DEF Spend, Renew, refundVars, tableVars

\* Attempts, orders, provider and handlers agree in every state, except about an
\* order that was misled.
LEMMA RefundInvariance == RefundSpec => []RefundInv
  <1>1. RefundInit => RefundInv
    BY InitTypes, InitOwned, InitFacts DEF RefundInv
  <1>2. RefundInv /\ [RefundNext]_refundVars => RefundInv'
    <2> SUFFICES ASSUME RefundInv, [RefundNext]_refundVars
                 PROVE  RefundInv'
      OBVIOUS
    <2>1. RefundTypeOK' /\ LatestOwned'
      BY RefundStepTypes DEF RefundInv
    <2>2. RefundFacts'
      BY BeginKeeps, AskKeeps, StopKeeps, CallKeeps, DecideKeeps, AnswerKeeps, ParkKeeps,
         SettleKeeps, ReturnKeeps, OutsideKeeps
         DEF RefundNext, Continue, Begin
    <2> QED BY <2>1, <2>2 DEF RefundInv
  <1> QED BY <1>1, <1>2, PTL DEF RefundSpec

-----------------------------------------------------------------------------
(* 4. The safety properties. *)

\* An order that was not misled has one live attempt at most, its latest, and no
\* hold is left over when its refund is decided (finalizeRefundSuccess and
\* finalizeRefundReturned, whoever calls them and how often).
THEOREM RefundHolds == RefundSpec => []HoldFollowsOrder
  <1>1. RefundInv => HoldFollowsOrder
    <2> SUFFICES ASSUME RefundInv, NEW o \in Orders \ misled,
                        NEW a \in Attempts, refunds[a].order = o
                 PROVE  /\ refunds[a].state \in LiveState => a = latest[o] /\ InRefund(o)
                        /\ refunds[a].hold = "held" => a = latest[o] /\ InRefund(o)
                        /\ refunds[a].hold = "consumed" => a = latest[o] /\ status[o] \in Settled
      BY DEF HoldFollowsOrder, OfOrder
    <2>1. AttemptFacts(a) /\ o # NoOrder
          /\ refunds[a].state \in LiveState \cup {"none", "succeeded", "failed"}
      BY RefundAssumption DEF RefundInv, RefundFacts, RefundTypeOK, Attempt, Trusted
    <2> QED BY <2>1 DEF AttemptFacts
  <1> QED BY <1>1, RefundInvariance, PTL

\* Money went back for the latest attempt of an order or for none.
LEMMA PaidBackLatest ==
    ASSUME RefundInv, NEW o \in Orders \ misled
    PROVE  PaidBack(o) = IF latest[o] # NoAttempt /\ gateway[latest[o]] = "refunded" THEN 1 ELSE 0
  <1> DEFINE S == {a \in OfOrder(o) : gateway[a] = "refunded"}
  <1>1. ASSUME NEW a \in S PROVE a = latest[o] /\ a # NoAttempt
    <2>1. AttemptFacts(a) /\ o # NoOrder /\ a # NoAttempt /\ refunds[a].order = o
          /\ refunds[a].state \in LiveState \cup {"none", "succeeded", "failed"}
      BY RefundAssumption DEF RefundInv, RefundFacts, RefundTypeOK, Attempt, OfOrder, Trusted
    <2> QED BY <2>1 DEF AttemptFacts
  <1>2. CASE latest[o] # NoAttempt /\ gateway[latest[o]] = "refunded"
    <2>1. latest[o] \in S
      BY <1>2 DEF RefundInv, RefundTypeOK, LatestOwned, OfOrder
    <2>2. S = {latest[o]}
      BY <1>1, <2>1
    <2>3. Cardinality({latest[o]}) = 1
      BY FS_Singleton
    <2> HIDE DEF S
    <2>4. Cardinality(S) = 1
      BY <2>2, <2>3
    <2> QED BY <1>2, <2>4 DEF PaidBack, S
  <1>3. CASE ~(latest[o] # NoAttempt /\ gateway[latest[o]] = "refunded")
    <2>1. S = {}
      BY <1>1, <1>3
    <2>2. Cardinality(S) = 0
      <3> HIDE DEF S
      <3> QED BY <2>1, FS_EmptySet
    <2> QED BY <1>3, <2>2 DEF PaidBack
  <1> QED BY <1>2, <1>3

\* An order that was not misled is refunded once if it says so and never
\* otherwise, also by a request that is still on its way.
THEOREM RefundsOnce == RefundSpec => []RefundedOnce
  <1>1. RefundInv => RefundedOnce
    <2> SUFFICES ASSUME RefundInv, NEW o \in Orders \ misled
                 PROVE  /\ PaidBack(o) <= 1
                        /\ status[o] \in Settled => PaidBack(o) = 1
                        /\ status[o] \in {"COMPLETED", "REFUND_REQUESTED", "REFUND_FAILED"} =>
                             \A a \in OfOrder(o) : gateway[a] \in {"unsent", "failed"}
      BY DEF RefundedOnce
    <2>1. PaidBack(o) <= 1
      BY PaidBackLatest
    <2>2. ASSUME status[o] \in Settled PROVE PaidBack(o) = 1
      <3>1. OrderFacts(o)
        BY DEF RefundInv, RefundFacts
      <3>2. latest[o] # NoAttempt /\ refunds[latest[o]].state = "succeeded"
        BY <2>2, <3>1 DEF OrderFacts, Settled, InRefund
      <3>3. AttemptFacts(latest[o]) /\ refunds[latest[o]].order = o /\ o # NoOrder
        BY <3>2, RefundAssumption DEF RefundInv, RefundFacts, RefundTypeOK, LatestOwned, Trusted
      <3> QED BY <3>2, <3>3, PaidBackLatest DEF AttemptFacts
    <2>3. ASSUME status[o] \in {"COMPLETED", "REFUND_REQUESTED", "REFUND_FAILED"},
                 NEW a \in OfOrder(o)
          PROVE  gateway[a] \in {"unsent", "failed"}
      <3>1. a \in Attempts /\ refunds[a].order = o /\ AttemptFacts(a) /\ o # NoOrder
        BY RefundAssumption DEF OfOrder, RefundInv, RefundFacts, Trusted
      <3>2. refunds[a].state \in LiveState \cup {"none", "succeeded", "failed"}
        BY <3>1 DEF RefundInv, RefundTypeOK, Attempt
      <3> QED BY <2>3, <3>1, <3>2 DEF AttemptFacts, InRefund, Settled
    <2> QED BY <2>1, <2>2, <2>3
  <1> QED BY <1>1, RefundInvariance, PTL

-----------------------------------------------------------------------------
(* 5. PaymentRefund implements RefundPromise. *)

PhaseOf(o) ==
    IF InRefund(o) THEN "returning" ELSE IF status[o] \in Settled THEN "refunded" ELSE "kept"

\* No order but this one moves.
Alone(o) ==
    /\ \A q \in Orders : q # o => PhaseOf(q)' = PhaseOf(q) /\ PaidBack(q)' = PaidBack(q)
    /\ UNCHANGED misled

\* One order moves, or none.
PromisedStep(o) ==
    /\ Alone(o)
    /\ \/ PhaseOf(o)' = PhaseOf(o) /\ PaidBack(o)' = PaidBack(o)
       \/ PhaseOf(o) = "kept" /\ PhaseOf(o)' = "returning" /\ PaidBack(o)' = PaidBack(o)
       \/ /\ PhaseOf(o) = "returning" /\ PhaseOf(o)' = "kept"
          /\ PaidBack(o) = 0 /\ PaidBack(o)' = 0
       \/ /\ PhaseOf(o) = "returning" /\ PhaseOf(o)' = "refunded"
          /\ PaidBack(o) = 1 /\ PaidBack(o)' = 1
       \/ /\ PhaseOf(o) = "returning" /\ PhaseOf(o)' = "returning"
          /\ PaidBack(o) = 0 /\ PaidBack(o)' = 1
       \/ o \in misled

PromisedVars == <<phases, [o \in Orders |-> PaidBack(o)], misled>>

LEMMA PromisedMove ==
    ASSUME NEW o \in Orders, PromisedStep(o)
    PROVE  [Promise!RefundPromiseNext]_PromisedVars
  <1> DEFINE f  == [q \in Orders |-> PhaseOf(q)]
             fp == [q \in Orders |-> PhaseOf(q)']
             g  == [q \in Orders |-> PaidBack(q)]
             gp == [q \in Orders |-> PaidBack(q)']
  <1>1. phases = f /\ phases' = fp /\ misled' = misled
    BY DEF phases, PhaseOf, PromisedStep, Alone
  <1>2. PhaseOf(o)' = PhaseOf(o) => fp = f
    BY DEF PromisedStep, Alone
  <1>3. PaidBack(o)' = PaidBack(o) => gp = g
    BY DEF PromisedStep, Alone
  <1>4. fp = [f EXCEPT ![o] = PhaseOf(o)'] /\ gp = [g EXCEPT ![o] = PaidBack(o)']
    BY DEF PromisedStep, Alone
  <1>5. f[o] = PhaseOf(o) /\ g[o] = PaidBack(o) /\ fp[o] = PhaseOf(o)' /\ gp[o] = PaidBack(o)'
    OBVIOUS
  <1>6. CASE PhaseOf(o)' = PhaseOf(o) /\ PaidBack(o)' = PaidBack(o)
    BY <1>1, <1>2, <1>3, <1>6 DEF PromisedVars
  <1>7. CASE PhaseOf(o) = "kept" /\ PhaseOf(o)' = "returning" /\ PaidBack(o)' = PaidBack(o)
    <2>1. Promise!Begin(o)
      BY <1>1, <1>3, <1>4, <1>5, <1>7 DEF Promise!Begin, Promise!Move
    <2> QED BY <2>1 DEF Promise!RefundPromiseNext
  <1>8. CASE PhaseOf(o) = "returning" /\ PhaseOf(o)' = "kept" /\ PaidBack(o) = 0 /\ PaidBack(o)' = 0
    <2>1. Promise!CallOff(o)
      BY <1>1, <1>3, <1>4, <1>5, <1>8 DEF Promise!CallOff, Promise!Move
    <2> QED BY <2>1 DEF Promise!RefundPromiseNext
  <1>9. CASE PhaseOf(o) = "returning" /\ PhaseOf(o)' = "refunded" /\ PaidBack(o) = 1 /\ PaidBack(o)' = 1
    <2>1. Promise!Settle(o)
      BY <1>1, <1>3, <1>4, <1>5, <1>9 DEF Promise!Settle, Promise!Move
    <2> QED BY <2>1 DEF Promise!RefundPromiseNext
  <1>10. CASE PhaseOf(o) = "returning" /\ PhaseOf(o)' = "returning" /\ PaidBack(o) = 0 /\ PaidBack(o)' = 1
    <2>1. Promise!PayBack(o)
      BY <1>1, <1>2, <1>4, <1>5, <1>10 DEF Promise!PayBack
    <2> QED BY <2>1 DEF Promise!RefundPromiseNext
  <1>11. CASE o \in misled
    <2>1. Promise!Stray(o)
      BY <1>1, <1>4, <1>5, <1>11 DEF Promise!Stray
    <2> QED BY <2>1 DEF Promise!RefundPromiseNext
  <1> QED BY <1>6, <1>7, <1>8, <1>9, <1>10, <1>11 DEF PromisedStep

\* What was paid back for an order depends on its attempts and the provider only.
LEMMA SamePaidBack ==
    ASSUME NEW o \in Orders,
           \A a \in Attempts : (refunds'[a].order = o /\ gateway'[a] = "refunded")
                               <=> (refunds[a].order = o /\ gateway[a] = "refunded")
    PROVE  PaidBack(o)' = PaidBack(o)
  <1>1. {a \in OfOrder(o) : gateway[a] = "refunded"}' = {a \in OfOrder(o) : gateway[a] = "refunded"}
    BY DEF OfOrder
  <1> QED BY <1>1 DEF PaidBack

PaysBackLatest ==
    \A o \in Orders \ misled :
       PaidBack(o) = IF latest[o] # NoAttempt /\ gateway[latest[o]] = "refunded" THEN 1 ELSE 0

LEMMA PaidBackNow == RefundInv => PaysBackLatest
  BY PaidBackLatest DEF PaysBackLatest

LEMMA PaidBackNext == RefundInv' => PaysBackLatest'
  BY PaidBackNow, PTL

\* Steps that move no order to another phase and no money.
LEMMA SilentSteps ==
    ASSUME UNCHANGED <<refunds, misled>>, \A o \in Orders : PhaseOf(o)' = PhaseOf(o),
           \A a \in Attempts : gateway'[a] = "refunded" <=> gateway[a] = "refunded"
    PROVE  UNCHANGED PromisedVars
  <1>1. ASSUME NEW o \in Orders PROVE PaidBack(o)' = PaidBack(o)
    BY SamePaidBack
  <1>2. phases' = phases
    BY DEF phases, PhaseOf
  <1> QED BY <1>1, <1>2 DEF PromisedVars

LEMMA BeginPromised ==
    ASSUME RefundInv, RefundInv', NEW w \in Workers, NEW o \in Orders,
           BeginRefund(w, o) \/ BeginRejected(w, o)
    PROVE  PromisedStep(o)
  <1>1. PICK a \in Attempts :
           /\ refunds[a] = Unused /\ latest' = [latest EXCEPT ![o] = a]
           /\ refunds'[a].order = o /\ \A b \in Attempts : b # a => refunds'[b] = refunds[b]
    <2>1. PICK a \in Attempts :
             \E amt : NoHold(o, a, amt) \/ HoldBalance(o, a, amt) \/ HoldTerm(o, a, amt)
      BY DEF BeginRefund, BeginRejected
    <2>2. PICK amt, hold, h, row, t : Store(o, a, NewAttempt(o, amt, hold, h, row, t))
      BY <2>1 DEF NoHold, HoldBalance, HoldTerm
    <2> QED BY <2>2 DEF Store, NewAttempt, RefundInv, RefundTypeOK
  <1>2. UNCHANGED <<gateway, misled>> /\ status' = [status EXCEPT ![o] = "REFUNDING"]
    BY DEF BeginRefund, BeginRejected, RefundInv, RefundTypeOK
  <1>3. refunds[a].order = NoOrder /\ gateway[a] = "unsent"
    <2>1. refunds[a].order = NoOrder
      BY <1>1 DEF Unused
    <2>2. AttemptFacts(a)
      BY <2>1, OrderOf DEF RefundInv, RefundFacts
    <2> QED BY <2>1, <2>2 DEF AttemptFacts
  <1>4. PaidBack(o)' = PaidBack(o) /\ Alone(o)
    <2>1. ASSUME NEW q \in Orders PROVE PaidBack(q)' = PaidBack(q)
      BY <1>1, <1>2, <1>3, SamePaidBack
    <2>2. \A q \in Orders : q # o => PhaseOf(q)' = PhaseOf(q)
      BY <1>2 DEF RefundInv, RefundTypeOK, PhaseOf, InRefund
    <2> QED BY <1>2, <2>1, <2>2 DEF Alone
  <1>5. PhaseOf(o)' = "returning" /\ PhaseOf(o) \in {"kept", "returning"}
    <2>1. status'[o] = "REFUNDING"
      BY <1>2 DEF RefundInv, RefundTypeOK
    <2>2. status[o] \in {"COMPLETED", "REFUND_REQUESTED", "REFUND_FAILED", "REFUNDING"}
      BY DEF BeginRefund, BeginRejected, MayBegin
    <2> QED BY <2>1, <2>2 DEF PhaseOf, InRefund, Settled
  <1> QED BY <1>4, <1>5 DEF PromisedStep

LEMMA DecidePromised ==
    ASSUME RefundInv, RefundInv', NEW a \in Attempts, Decide(a)
    PROVE  [Promise!RefundPromiseNext]_PromisedVars
  <1>1. /\ gateway[a] \in {"sent", "pending"} /\ UNCHANGED <<status, latest, refunds, misled>>
        /\ gateway'[a] \in {"pending", "refunded", "failed"}
        /\ \A b \in Attempts : b # a => gateway'[b] = gateway[b]
    BY DEF Decide, RefundInv, RefundTypeOK, tableVars
  <1>2. \A o \in Orders : PhaseOf(o)' = PhaseOf(o)
    BY <1>1 DEF PhaseOf, InRefund
  <1>3. CASE gateway'[a] # "refunded"
    BY <1>1, <1>2, <1>3, SilentSteps
  <1>4. CASE gateway'[a] = "refunded"
    <2>1. PICK o : o = refunds[a].order
      OBVIOUS
    <2>2. o \in Orders
      <3>1. refunds[a].order = NoOrder => AttemptFacts(a)
        BY OrderOf DEF RefundInv, RefundFacts
      <3> QED BY <1>1, <2>1, <3>1, OrderOf DEF RefundInv, AttemptFacts
    <2>3. Alone(o)
      <3>1. ASSUME NEW q \in Orders, q # o PROVE PaidBack(q)' = PaidBack(q)
        BY <1>1, <2>1, <3>1, SamePaidBack
      <3> QED BY <1>1, <1>2, <3>1 DEF Alone
    <2>4. CASE o \in misled
      BY <2>2, <2>3, <2>4, PromisedMove DEF PromisedStep
    <2>5. CASE o \notin misled
      <3>1. a = latest[o] /\ InRefund(o) /\ a # NoAttempt
        <4>1. AttemptFacts(a) /\ refunds[a].order # NoOrder
          BY <2>1, <2>2, <2>5, OrderOf DEF RefundInv, RefundFacts, Trusted
        <4>2. refunds[a].state \in LiveState \cup {"none", "succeeded", "failed"}
          BY OrderOf DEF RefundInv
        <4> QED BY <1>1, <2>1, <4>1, <4>2, RefundAssumption DEF AttemptFacts
      <3>2. PaidBack(o) = 0 /\ PaidBack(o)' = 1
        BY <1>1, <1>4, <2>2, <2>5, <3>1, PaidBackNow, PaidBackNext DEF PaysBackLatest
      <3>3. PhaseOf(o) = "returning"
        BY <3>1 DEF PhaseOf
      <3>4. PromisedStep(o)
        BY <1>2, <2>2, <2>3, <3>2, <3>3 DEF PromisedStep
      <3> QED BY <2>2, <3>4, PromisedMove
    <2> QED BY <2>4, <2>5
  <1> QED BY <1>3, <1>4

LEMMA ApplyPromised ==
    ASSUME RefundInv, RefundInv', NEW w \in Workers, Park(w) \/ Settle(w) \/ Return(w)
    PROVE  [Promise!RefundPromiseNext]_PromisedVars
  <1>1. pc[w] = "apply" /\ UNCHANGED <<latest, gateway, misled>>
    BY DEF Park, Settle, Return
  <1>2. PICK a \in Attempts, o \in Orders :
           a = at[w] /\ o = refunds[a].order /\ Applies(w, a, o)
    BY ApplyApplies DEF RefundInv
  <1>3. o # NoOrder /\ a # NoAttempt
    BY RefundAssumption
  <1>4. PaidBack(o)' = PaidBack(o) /\ Alone(o)
    <2>1. ASSUME NEW q \in Orders PROVE PaidBack(q)' = PaidBack(q)
      <3>1. \A b \in Attempts : refunds'[b].order = refunds[b].order
        BY <1>2 DEF Applies
      <3> QED BY <1>1, <3>1, SamePaidBack
    <2>2. \A q \in Orders : q # o => PhaseOf(q)' = PhaseOf(q)
      BY <1>2 DEF Applies, PhaseOf, InRefund
    <2> QED BY <1>1, <2>1, <2>2 DEF Alone
  <1>5. CASE o \in misled \/ PhaseOf(o)' = PhaseOf(o)
    BY <1>4, <1>5, PromisedMove DEF PromisedStep
  <1>6. CASE o \notin misled /\ PhaseOf(o)' # PhaseOf(o)
    <2>1. /\ HandlerFacts(w) /\ AttemptFacts(a)
          /\ refunds[a].state \in LiveState \cup {"none", "succeeded", "failed"}
      BY <1>1, <1>2, <1>6 DEF RefundInv, RefundFacts, RefundTypeOK, Attempt, Trusted
    <2>2. status'[o] # status[o]
      BY <1>6 DEF PhaseOf, InRefund
    <2>3. CASE Park(w)
      <3>1. InRefund(o) /\ status'[o] = "REFUND_PENDING"
        BY <1>2, <2>2, <2>3 DEF Park, RefundInv, RefundTypeOK
      <3> QED BY <1>6, <3>1 DEF PhaseOf, InRefund
    <2>4. CASE Settle(w)
      <3>1. InRefund(o) /\ status'[o] \in Settled /\ gateway[a] = "refunded"
        <4>1. o = refunds[a].order /\ DOMAIN status = Orders
          BY <1>2 DEF RefundInv, RefundTypeOK
        <4>2. InRefund(o) /\ \E t \in Settled : status' = [status EXCEPT ![o] = t]
          BY <1>2, <2>2, <2>4, <4>1 DEF Settle, Settled
        <4>3. gateway[a] = "refunded"
          BY <1>2, <2>1, <2>4 DEF Settle, HandlerFacts
        <4> QED BY <1>2, <4>1, <4>2, <4>3
      <3>2. refunds[a].state \notin {"none", "failed"}
        BY <1>2, <1>3, <2>1, <3>1 DEF AttemptFacts
      <3>3. a = latest[o]
        BY <1>2, <1>3, <2>1, <3>2 DEF AttemptFacts
      <3>4. PaidBack(o) = 1
        BY <1>3, <1>6, <3>1, <3>3, PaidBackNow DEF PaysBackLatest
      <3>5. PhaseOf(o) = "returning" /\ PhaseOf(o)' = "refunded"
        BY <3>1 DEF PhaseOf, InRefund, Settled
      <3> QED BY <1>4, <3>4, <3>5, PromisedMove DEF PromisedStep
    <2>5. CASE Return(w)
      <3>1. status'[o] = "REFUND_FAILED" /\ gateway[a] \in {"unsent", "failed"}
            /\ (InRefund(o) \/ status[o] = "REFUND_FAILED")
        BY <1>1, <1>2, <2>1, <2>2, <2>5 DEF Return, RefundInv, RefundTypeOK, HandlerFacts
      <3>2. PhaseOf(o)' = "kept" /\ PhaseOf(o) = "returning"
        BY <1>6, <3>1 DEF PhaseOf, InRefund, Settled
      <3>3. PaidBack(o) = 0
        <4>1. CASE a = latest[o]
          BY <1>6, <3>1, <4>1, PaidBackNow DEF PaysBackLatest
        <4>2. CASE refunds[a].state = "failed"
          <5>1. refunds[a].hold \in {"none", "returned"}
            BY <1>2, <1>3, <2>1, <4>2 DEF AttemptFacts
          <5> QED BY <1>2, <2>2, <2>5, <4>2, <5>1 DEF Return
        <4>3. a = latest[o] \/ refunds[a].state = "failed"
          BY <1>2, <1>3, <2>1, <3>1 DEF AttemptFacts
        <4> QED BY <4>1, <4>2, <4>3
      <3> QED BY <1>4, <3>2, <3>3, PromisedMove DEF PromisedStep
    <2> QED BY <2>3, <2>4, <2>5
  <1> QED BY <1>5, <1>6

LEMMA QueryPromised ==
    ASSUME RefundInv, NEW w \in Workers, QueryAnswer(w)
    PROVE  [Promise!RefundPromiseNext]_PromisedVars
  <1>1. UNCHANGED <<status, refunds, gateway>> /\ refunds[at[w]].order \in Orders
    BY AtTypes DEF RefundInv, QueryAnswer, Hear, tableVars
  <1>2. \A o \in Orders : PhaseOf(o)' = PhaseOf(o) /\ PaidBack(o)' = PaidBack(o)
    BY <1>1, SamePaidBack DEF PhaseOf, InRefund
  <1>3. phases' = phases /\ [o \in Orders |-> PaidBack(o)]' = [o \in Orders |-> PaidBack(o)]
    BY <1>2 DEF phases, PhaseOf
  <1>4. CASE UNCHANGED misled
    BY <1>3, <1>4 DEF PromisedVars
  <1>5. CASE misled' = misled \cup {refunds[at[w]].order}
    <2>1. Promise!Excuse(refunds[at[w]].order)
      BY <1>3, <1>5 DEF Promise!Excuse
    <2> QED BY <1>1, <2>1 DEF Promise!RefundPromiseNext
  <1> QED BY <1>4, <1>5 DEF QueryAnswer

LEMMA RefundStepIsPromised ==
    ASSUME RefundInv, RefundInv', [RefundNext]_refundVars
    PROVE  [Promise!RefundPromiseNext]_PromisedVars
  <1>1. ASSUME NEW w \in Workers, NEW o \in Orders, BeginRefund(w, o) \/ BeginRejected(w, o)
        PROVE  [Promise!RefundPromiseNext]_PromisedVars
    BY <1>1, BeginPromised, PromisedMove
  <1>2. ASSUME NEW w \in Workers,
               \/ WaitAnswer(w) \/ Stop(w)
               \/ \E o \in Orders : Query(w, o) \/ Interrupted(w, o)
        PROVE  UNCHANGED <<status, refunds, gateway, misled>>
    BY <1>2 DEF WaitAnswer, Hear, Stop, Query, Interrupted, tableVars
  <1>3. ASSUME Spend \/ Renew \/ UNCHANGED refundVars
        PROVE  UNCHANGED <<status, refunds, gateway, misled>>
    BY <1>3 DEF Spend, Renew, refundVars, tableVars
  <1>4. ASSUME UNCHANGED <<status, refunds, gateway, misled>> PROVE UNCHANGED PromisedVars
    <2>1. \A o \in Orders : PhaseOf(o)' = PhaseOf(o)
      BY <1>4 DEF PhaseOf, InRefund
    <2> QED BY <1>4, <2>1, SilentSteps
  <1>5. ASSUME NEW w \in Workers, Call(w) PROVE [Promise!RefundPromiseNext]_PromisedVars
    <2>1. /\ UNCHANGED <<status, refunds, misled>> /\ refunds[at[w]].order \in Orders
          /\ \A a \in Attempts : a # at[w] => gateway'[a] = gateway[a]
      BY <1>5, AtTypes DEF Call, tableVars, RefundInv, RefundTypeOK
    <2>2. \A o \in Orders : PhaseOf(o)' = PhaseOf(o)
      BY <2>1 DEF PhaseOf, InRefund
    <2>3. CASE Trusted(at[w])
      <3>1. gateway[at[w]] = "unsent"
        BY <1>5, <2>3 DEF Call, RefundInv, RefundFacts, HandlerFacts
      <3>2. \A a \in Attempts : gateway'[a] = "refunded" <=> gateway[a] = "refunded"
        BY <1>5, <3>1 DEF Call, RefundInv, RefundTypeOK
      <3> QED BY <2>1, <2>2, <3>2, SilentSteps
    <2>4. CASE ~Trusted(at[w])
      <3>1. \A q \in Orders : q # refunds[at[w]].order => PaidBack(q)' = PaidBack(q)
        BY <2>1, SamePaidBack
      <3> QED BY <2>1, <2>2, <2>4, <3>1, PromisedMove DEF PromisedStep, Alone, Trusted
    <2> QED BY <2>3, <2>4
  <1>6. ASSUME NEW o \in Orders, RequestRefund(o) PROVE UNCHANGED PromisedVars
    <2>1. \A q \in Orders : PhaseOf(q)' = PhaseOf(q)
      BY <1>6 DEF RequestRefund, RefundInv, RefundTypeOK, PhaseOf, InRefund, Settled
    <2> QED BY <1>6, <2>1, SilentSteps DEF RequestRefund
  <1> QED BY <1>1, <1>2, <1>3, <1>4, <1>5, <1>6, DecidePromised, ApplyPromised, QueryPromised
        DEF RefundNext, Continue, Begin

\* Money goes back at most once, only while the order is in refund, and an order
\* ends as refunded if and only if it did, whatever handlers race, repeat and
\* die; an order whose provider answered wrongly is the exception, alone.
THEOREM RefundPromised == RefundSpec => KeepsRefundPromise
  <1>1. RefundInit => Promise!RefundPromiseInit
    <2> SUFFICES ASSUME RefundInit PROVE Promise!RefundPromiseInit
      OBVIOUS
    <2>1. ASSUME NEW o \in Orders PROVE PaidBack(o) = 0
      <3>1. {a \in OfOrder(o) : gateway[a] = "refunded"} = {}
        BY DEF RefundInit, OfOrder
      <3> QED BY <3>1, FS_EmptySet DEF PaidBack
    <2>2. phases = [o \in Orders |-> IF o \in RejectedOrders THEN "returning" ELSE "kept"]
      BY DEF RefundInit, phases, InRefund, Settled
    <2>3. misled = {}
      BY DEF RefundInit
    <2> QED BY <2>1, <2>2, <2>3 DEF Promise!RefundPromiseInit
  <1>2. RefundInv /\ RefundInv' /\ [RefundNext]_refundVars
           => [Promise!RefundPromiseNext]_(Promise!promiseVars)
    BY RefundStepIsPromised DEF PromisedVars, Promise!promiseVars
  <1> QED BY <1>1, <1>2, RefundInvariance, PTL DEF RefundSpec, KeepsRefundPromise, Promise!RefundPromiseSpec
=============================================================================
