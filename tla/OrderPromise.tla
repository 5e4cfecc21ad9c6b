---------------------------- MODULE OrderPromise ----------------------------
(***************************************************************************)
(* What the payment system promises about each order, whatever handlers    *)
(* run, crash, repeat or overtake each other: an order that is paid is     *)
(* delivered at most once, one that could not be honoured is never         *)
(* delivered but only refunded, a delivered order is only ever refunded,   *)
(* and a settled refund is the end.  PaymentOrder implements it.           *)
(***************************************************************************)
CONSTANT Orders

VARIABLE promise

Phase ==
    {"none",       \* not created
     "open",       \* awaiting its payment
     "closed",     \* cancelled, expired or failed without a payment
     "paid",       \* to be delivered
     "delivered",  \* the user has what was bought
     "rejected",   \* paid too late: to be refunded, never delivered
     "returning",  \* delivered, and a refund was begun
     "refunded"}

PromiseInit == promise = [o \in Orders |-> "none"]

Move(o, from, to) ==
    /\ promise[o] \in from
    /\ promise' = [promise EXCEPT ![o] = to]

Open(o)    == Move(o, {"none"}, "open")
Close(o)   == Move(o, {"open"}, "closed")
Capture(o) == Move(o, {"open", "closed"}, "paid")
Reject(o)  == Move(o, {"closed"}, "rejected")
Deliver(o) == Move(o, {"paid"}, "delivered")
Return(o)  == Move(o, {"delivered"}, "returning")
Settle(o)  == Move(o, {"rejected", "returning"}, "refunded")

PromiseNext ==
    \E o \in Orders :
       Open(o) \/ Close(o) \/ Capture(o) \/ Reject(o) \/ Deliver(o) \/ Return(o) \/ Settle(o)

PromiseSpec == PromiseInit /\ [][PromiseNext]_promise
=============================================================================
