------------------------------ MODULE UsageProofs ------------------------------
(***************************************************************************)
(* Proofs about what the use of the service costs a user.                  *)
(*                                                                         *)
(* A live call (LiveCall) is accounted for at most once, its lease         *)
(* outlives every controller, and without trouble somebody is in charge.   *)
(* Each kind of step has one lemma: it keeps LiveInv.                      *)
(*                                                                         *)
(* The ledger of one user (CreditLedger): the types of its rows, the       *)
(* agreement of the debt with the loans, the promise of the holds, and     *)
(* that balance and credit add up.  Every operator that maps rows to rows  *)
(* has two lemmas: it keeps Sound rows sound, and it Changes the sums of   *)
(* the rows by so much.  Transactions compose them, and so do their        *)
(* proofs.                                                                 *)
(*                                                                         *)
(* Transactions that wait for each other in a circle (LedgerLocks) include *)
(* a settlement of a hold or two charges.                                  *)
(***************************************************************************)
EXTENDS CreditLedger, LedgerLocks, LiveCall, SumLemmas, TLAPS

---------------------------------------------------------------------------
(* Live calls. *)

Controllers == Open \cup {"none", "closed", "gone"}

LiveTypes ==
    /\ call \in [controller : Controllers, owner : Proxies \cup {Nobody}]
    /\ lease \in {"none", "held", "aging", "lapsed", "released"}
    /\ creator \in {"lease", "upstream", "save", "created", "refused"}
    /\ proxy \in [Proxies -> [at : ProxyAt, left : {"undialed", "over", "broken"}]]
    /\ observer \in [Handlers -> [at : ObserverAt, errors : Nat]]
    /\ logged \in Nat

\* Until the record is saved there is none, and the lease that was acquired is kept.
NotYetSaved ==
    creator \in {"lease", "upstream", "save"} =>
      /\ call.controller = "none"
      /\ creator # "lease" => lease # "released"

EndProxyAt(p) == proxy[p].at \in {"unlease", "log"}
EndObserverAt(h) == observer[h].at \in {"unlease", "log"}

\* AccountedOnce without counting.
OneAccounts ==
    /\ logged <= 1
    /\ \A p \in Proxies : EndProxyAt(p) => logged = 0 /\ \A q \in Proxies : EndProxyAt(q) => p = q
    /\ \A h \in Handlers : EndObserverAt(h) =>
         /\ logged = 0
         /\ \A k \in Handlers : EndObserverAt(k) => h = k
         /\ \A p \in Proxies : ~EndProxyAt(p)

Ended == call.controller \in {"closed", "gone"}

AccountsAfterEnd ==
    /\ logged = 1 => Ended
    /\ \A p \in Proxies : EndProxyAt(p) => Ended
    /\ \A h \in Handlers : EndObserverAt(h) => Ended

\* A proxy controls under its own id, and has no observer before it ends.
Owners ==
    /\ call.controller = "proxy" => call.owner \in Proxies
    /\ \A p \in Proxies : proxy[p].at # "end" => observer[p].at = "none"

LiveInv ==
    /\ LiveTypes
    /\ NotYetSaved
    /\ OneAccounts
    /\ AccountsAfterEnd
    /\ LeaseOutlivesControl
    /\ Owners
    /\ SomeoneInCharge

---------------------------------------------------------------------------
(* What a step leaves alone, and what it moves. *)

LEMMA HandlersAre == Proxies \subseteq Handlers /\ Creator \in Handlers /\ Creator \notin Proxies
  BY LiveAssumption DEF Handlers, LiveAssumption

LEMMA ProxyMoved ==
    ASSUME LiveTypes, NEW p \in Proxies, NEW at \in ProxyAt,
           NEW left \in {"undialed", "over", "broken"},
           proxy' = [proxy EXCEPT ![p] = [at |-> at, left |-> left]]
    PROVE  /\ proxy' \in [Proxies -> [at : ProxyAt, left : {"undialed", "over", "broken"}]]
           /\ proxy'[p].at = at
           /\ \A q \in Proxies : q # p => proxy'[q] = proxy[q]
  BY DEF LiveTypes

LEMMA ProxyGone ==
    ASSUME LiveTypes, NEW p \in Proxies, NEW at \in ProxyAt, ProxyGoes(p, at)
    PROVE  /\ proxy' \in [Proxies -> [at : ProxyAt, left : {"undialed", "over", "broken"}]]
           /\ proxy'[p].at = at
           /\ \A q \in Proxies : q # p => proxy'[q] = proxy[q]
  BY DEF LiveTypes, ProxyGoes

LEMMA ObserverMoved ==
    ASSUME LiveTypes, NEW h \in Handlers, NEW at \in ObserverAt, NEW n \in Nat,
           observer' = [observer EXCEPT ![h] = [at |-> at, errors |-> n]]
    PROVE  /\ observer' \in [Handlers -> [at : ObserverAt, errors : Nat]]
           /\ observer'[h].at = at
           /\ \A k \in Handlers : k # h => observer'[k] = observer[k]
  BY DEF LiveTypes

LEMMA ObserverGone ==
    ASSUME LiveTypes, NEW h \in Handlers, NEW at \in ObserverAt,
           observer' = [observer EXCEPT ![h].at = at]
    PROVE  /\ observer' \in [Handlers -> [at : ObserverAt, errors : Nat]]
           /\ observer'[h].at = at
           /\ \A k \in Handlers : k # h => observer'[k] = observer[k]
  BY DEF LiveTypes

LEMMA Controlled ==
    ASSUME NEW c \in Controllers, NEW owner \in Proxies \cup {Nobody}, Controller(c, owner)
    PROVE  /\ call' \in [controller : Controllers, owner : Proxies \cup {Nobody}]
           /\ call'.controller = c /\ call'.owner = owner
  BY DEF Controller

\* A fault that is no trouble, and no fault, leave what is in trouble as it was.
LEMMA Troubled ==
    /\ NoFault => trouble' = trouble
    /\ \A word : Fault(word) => trouble' = trouble
    /\ \A word : Troubles(word) => trouble' # {}
  BY DEF NoFault, Fault, Troubles, Counted

\* Nobody is the first to account.
LEMMA NobodyAccounts ==
    ASSUME OneAccounts, AccountsAfterEnd, logged' = logged,
           \A p \in Proxies : EndProxyAt(p)' => EndProxyAt(p),
           \A h \in Handlers : EndObserverAt(h)' => EndObserverAt(h),
           Ended => Ended'
    PROVE  OneAccounts' /\ AccountsAfterEnd'
  BY DEF OneAccounts, AccountsAfterEnd
---------------------------------------------------------------------------
(* Creation. *)

LEMMA CreatorKeeps == ASSUME LiveInv, CreatorStep PROVE LiveInv'
  <1> USE DEF LiveInv
  <1>0. proxy' = proxy /\ logged' = logged
    BY DEF CreatorStep, AcquireLease, LoseLease, CreateUpstream, SaveCall, OthersOfCreator
  <1>1. CASE AcquireLease \/ LoseLease \/ CreateUpstream
    <2> USE <1>0, <1>1 DEF AcquireLease, LoseLease, CreateUpstream
    <2>0. call' = call /\ observer' = observer /\ trouble' = trouble
      BY DEF NoFault, Fault
    <2>1. LiveTypes'
      BY <2>0 DEF LiveTypes
    <2>2. NotYetSaved' /\ LeaseOutlivesControl'
      BY <2>0 DEF NotYetSaved, LeaseOutlivesControl, Open
    <2>3. OneAccounts' /\ AccountsAfterEnd' /\ Owners' /\ SomeoneInCharge'
      BY <2>0 DEF OneAccounts, AccountsAfterEnd, EndProxyAt, EndObserverAt, Ended, Owners,
                  SomeoneInCharge
    <2> QED BY <2>1, <2>2, <2>3
  <1>2. CASE SaveCall /\ creator' = "created"
    <2>1. /\ creator = "save" /\ creator' = "created" /\ Spawn(Creator)
          /\ Controller("pending", Nobody) /\ lease' = lease /\ trouble' = trouble
      BY <1>2 DEF SaveCall, NoFault
    <2>2. /\ observer' \in [Handlers -> [at : ObserverAt, errors : Nat]]
          /\ observer'[Creator].at = "claim"
          /\ \A k \in Handlers : k # Creator => observer'[k] = observer[k]
      BY <2>1, HandlersAre, ObserverGone DEF Spawn, ObserverAt
    <2>3. /\ call' \in [controller : Controllers, owner : Proxies \cup {Nobody}]
          /\ call'.controller = "pending"
      BY <2>1, Controlled DEF Controllers, Open
    <2>4. LiveTypes'
      BY <1>0, <2>1, <2>2, <2>3 DEF LiveTypes
    <2>5. NotYetSaved'
      BY <2>1 DEF NotYetSaved
    <2>6. call.controller = "none" /\ lease # "released"
      BY <2>1 DEF NotYetSaved
    <2>7. OneAccounts' /\ AccountsAfterEnd'
      <3>1. \A h \in Handlers : EndObserverAt(h)' => EndObserverAt(h)
        BY <2>2 DEF EndObserverAt
      <3>2. ~Ended
        BY <2>6 DEF Ended
      <3> QED BY <1>0, <3>1, <3>2, NobodyAccounts DEF EndProxyAt
    <2>8. LeaseOutlivesControl'
      BY <2>1, <2>6 DEF LeaseOutlivesControl
    <2>9. Owners'
      BY <1>0, <2>2, <2>3, HandlersAre DEF Owners
    <2>10. SomeoneInCharge'
      BY <2>2, <2>3, HandlersAre DEF SomeoneInCharge
    <2> QED BY <2>4, <2>5, <2>7, <2>8, <2>9, <2>10
  <1>3. CASE SaveCall /\ creator' # "created"
    <2>1. /\ creator = "save" /\ creator' = "refused" /\ lease' = "released" /\ observer' = observer
          /\ \/ call' = call /\ trouble' = trouble
             \/ Controller("pending", Nobody) /\ trouble' # {}
      BY <1>3, Troubled DEF SaveCall
    <2>2. /\ call' \in [controller : Controllers, owner : Proxies \cup {Nobody}]
          /\ call'.controller \in {"none", "pending"}
          /\ call'.controller = "pending" => trouble' # {}
      BY <2>1, Controlled DEF Controllers, Open, LiveTypes, NotYetSaved
    <2>3. LiveTypes'
      BY <1>0, <2>1, <2>2 DEF LiveTypes
    <2>4. NotYetSaved' /\ LeaseOutlivesControl'
      BY <2>1 DEF NotYetSaved, LeaseOutlivesControl
    <2>5. ~Ended
      BY <2>1 DEF Ended, NotYetSaved
    <2>6. OneAccounts' /\ AccountsAfterEnd'
      BY <1>0, <2>1, <2>5, NobodyAccounts DEF EndProxyAt, EndObserverAt
    <2>7. Owners' /\ SomeoneInCharge'
      BY <1>0, <2>1, <2>2 DEF Owners, SomeoneInCharge
    <2> QED BY <2>3, <2>4, <2>6, <2>7
  <1> QED BY <1>1, <1>2, <1>3 DEF CreatorStep

---------------------------------------------------------------------------
(* Proxies. *)

\* A proxy that goes on by itself, and not to an end it did not reach yet.
LEMMA ProxyWalks ==
    ASSUME LiveInv, NEW p \in Proxies, proxy[p].at \notin {"end", "unlease", "log"},
           proxy' \in [Proxies -> [at : ProxyAt, left : {"undialed", "over", "broken"}]],
           proxy'[p].at \notin {"unlease", "log"},
           \A q \in Proxies : q # p => proxy'[q] = proxy[q],
           observer' = observer, creator' = creator, logged' = logged,
           call' \in [controller : Controllers, owner : Proxies \cup {Nobody}],
           call' # call => call.controller \in Open /\ call'.controller \in Open,
           call'.controller = "proxy" => call'.owner \in Proxies,
           lease' = lease \/ (lease = "aging" /\ lease' = "held"),
           SomeoneInCharge'
    PROVE  LiveInv'
  <1> USE DEF LiveInv
  <1>1. LiveTypes'
    BY DEF LiveTypes
  <1>2. NotYetSaved' /\ LeaseOutlivesControl'
    BY DEF NotYetSaved, LeaseOutlivesControl, Open
  <1>3. OneAccounts' /\ AccountsAfterEnd'
    <2>1. \A q \in Proxies : EndProxyAt(q)' => EndProxyAt(q)
      BY DEF EndProxyAt
    <2>2. Ended => Ended'
      BY DEF Ended, Open
    <2> QED BY <2>1, <2>2, NobodyAccounts DEF EndObserverAt
  <1>4. Owners'
    BY DEF Owners
  <1> QED BY <1>1, <1>2, <1>3, <1>4

LEMMA ProxyStarts ==
    ASSUME LiveInv, NEW p \in Proxies, StartProxy(p) PROVE LiveInv'
  <1>1. /\ proxy[p].at = "idle" /\ ProxyGoes(p, "claim")
        /\ call' = call /\ lease' = lease /\ observer' = observer /\ logged' = logged
        /\ trouble' = trouble /\ creator' = creator
    BY DEF StartProxy, NoFault, OthersOfProxy
  <1>2. /\ proxy' \in [Proxies -> [at : ProxyAt, left : {"undialed", "over", "broken"}]]
        /\ proxy'[p].at = "claim"
        /\ \A q \in Proxies : q # p => proxy'[q] = proxy[q]
    BY <1>1, ProxyGone DEF LiveInv, ProxyAt
  <1>3. SomeoneInCharge'
    BY <1>1, <1>2 DEF LiveInv, SomeoneInCharge, Owners
  <1> QED BY <1>1, <1>2, <1>3, ProxyWalks DEF LiveInv, LiveTypes, Owners

LEMMA ProxyClaims ==
    ASSUME LiveInv, NEW p \in Proxies, ClaimProxy(p) PROVE LiveInv'
  <1>1. /\ proxy[p].at = "claim" /\ lease' = lease /\ observer' = observer
        /\ logged' = logged /\ creator' = creator
    BY DEF ClaimProxy, OthersOfProxy
  <1> DEFINE Claimed == /\ ProxyMayClaim /\ Controller("proxy", p)
                        /\ ProxyGoes(p, "dial") /\ trouble' = trouble
             Unheard == ProxyMayClaim /\ Controller("proxy", p) /\ trouble' # {}
                          /\ ProxyGoes(p, "end")
             Refused == call' = call /\ ProxyGoes(p, "end") /\ trouble' = trouble
  <1>2. Claimed \/ Unheard \/ Refused
    BY Troubled DEF ClaimProxy
  <1>3. /\ proxy' \in [Proxies -> [at : ProxyAt, left : {"undialed", "over", "broken"}]]
        /\ proxy'[p].at \in {"dial", "end"}
        /\ Claimed => proxy'[p].at = "dial"
        /\ \A q \in Proxies : q # p => proxy'[q] = proxy[q]
    BY <1>2, ProxyGone DEF LiveInv, ProxyAt
  <1>4. /\ call' \in [controller : Controllers, owner : Proxies \cup {Nobody}]
        /\ Claimed \/ Unheard =>
             call.controller \in Open /\ call'.controller = "proxy" /\ call'.owner = p
    BY <1>2, Controlled DEF ProxyMayClaim, Controllers, Open, LiveInv, LiveTypes
  <1>5. SomeoneInCharge'
    <2>1. CASE Claimed
      BY <1>3, <1>4, <2>1 DEF SomeoneInCharge, ProxyMayClaim
    <2>2. CASE Unheard
      BY <2>2 DEF SomeoneInCharge
    <2>3. CASE Refused
      BY <1>1, <1>3, <2>3 DEF LiveInv, SomeoneInCharge, Owners
    <2> QED BY <1>2, <2>1, <2>2, <2>3
  <1>6. call' # call => call.controller \in Open /\ call'.controller \in Open
    BY <1>2, <1>4 DEF Open
  <1>7. call'.controller = "proxy" => call'.owner \in Proxies
    BY <1>2, <1>4 DEF LiveInv, Owners
  <1> HIDE DEF Claimed, Unheard, Refused
  <1> QED BY <1>1, <1>3, <1>4, <1>5, <1>6, <1>7, ProxyWalks

LEMMA ProxyDialsOrRuns ==
    ASSUME LiveInv, NEW p \in Proxies, DialProxy(p) \/ RunProxy(p) PROVE LiveInv'
  <1>1. /\ proxy[p].at \in {"dial", "run"} /\ call' = call /\ observer' = observer
        /\ logged' = logged /\ creator' = creator /\ trouble' = trouble
        /\ lease' = lease \/ (lease = "aging" /\ lease' = "held")
    BY Troubled DEF DialProxy, RunProxy, OthersOfProxy, RefreshLease, RefreshFails
  <1>2. \/ proxy' = proxy /\ proxy[p].at = "run"
        \/ \E at \in {"run", "release"} : ProxyGoes(p, at)
        \/ \E left \in {"over", "broken"} : Disconnect(p, left)
    BY DEF DialProxy, RunProxy
  <1>3. /\ proxy' \in [Proxies -> [at : ProxyAt, left : {"undialed", "over", "broken"}]]
        /\ proxy'[p].at \in {"run", "release"}
        /\ \A q \in Proxies : q # p => proxy'[q] = proxy[q]
    <2>1. CASE proxy' = proxy /\ proxy[p].at = "run"
      BY <2>1 DEF LiveInv, LiveTypes
    <2>2. CASE \E at \in {"run", "release"} : ProxyGoes(p, at)
      BY <2>2, ProxyGone DEF LiveInv, ProxyAt
    <2>3. CASE \E left \in {"over", "broken"} : Disconnect(p, left)
      BY <2>3, ProxyMoved DEF LiveInv, ProxyAt, Disconnect
    <2> QED BY <1>2, <2>1, <2>2, <2>3
  <1>4. SomeoneInCharge'
    BY <1>1, <1>3 DEF LiveInv, SomeoneInCharge, Owners
  <1> QED BY <1>1, <1>3, <1>4, ProxyWalks DEF LiveInv, LiveTypes, Owners

LEMMA ProxyReleases ==
    ASSUME LiveInv, NEW p \in Proxies, ReleaseProxy(p) PROVE LiveInv'
  <1>1. /\ proxy[p].at = "release" /\ ProxyGoes(p, "after") /\ lease' = lease
        /\ observer' = observer /\ logged' = logged /\ creator' = creator
        /\ \/ ReleaseController(p) /\ trouble' = trouble
           \/ call' = call /\ trouble' # {}
    BY Troubled DEF ReleaseProxy, OthersOfProxy
  <1>2. /\ proxy' \in [Proxies -> [at : ProxyAt, left : {"undialed", "over", "broken"}]]
        /\ proxy'[p].at = "after"
        /\ \A q \in Proxies : q # p => proxy'[q] = proxy[q]
    BY <1>1, ProxyGone DEF LiveInv, ProxyAt
  <1> DEFINE Mine == call.controller = "proxy" /\ call.owner = p
  <1>3. /\ call' \in [controller : Controllers, owner : Proxies \cup {Nobody}]
        /\ call' = call \/ (Mine /\ call'.controller = "pending")
        /\ trouble' = {} => IF Mine THEN call'.controller = "pending" ELSE call' = call
    BY <1>1, Controlled DEF ReleaseController, Controllers, Open, LiveInv, LiveTypes
  <1>4. SomeoneInCharge'
    <2>1. SUFFICES ASSUME trouble' = {} PROVE SomeoneInCharge'
      BY DEF SomeoneInCharge
    <2>2. trouble = {}
      BY <1>1, <2>1
    <2>3. CASE Mine
      BY <1>2, <1>3, <2>1, <2>3 DEF SomeoneInCharge
    <2>4. CASE ~Mine
      BY <1>1, <1>2, <1>3, <2>1, <2>2, <2>4 DEF LiveInv, SomeoneInCharge, Owners
    <2> QED BY <2>3, <2>4
  <1>5. call' # call => call.controller \in Open /\ call'.controller \in Open
    BY <1>3 DEF Open
  <1>6. call'.controller = "proxy" => call'.owner \in Proxies
    BY <1>3 DEF LiveInv, Owners
  <1> QED BY <1>1, <1>2, <1>3, <1>4, <1>5, <1>6, ProxyWalks

LEMMA ProxyLeaves ==
    ASSUME LiveInv, NEW p \in Proxies, AfterProxy(p) PROVE LiveInv'
  <1>1. /\ proxy[p].at = "after" /\ call' = call /\ lease' = lease /\ logged' = logged
        /\ creator' = creator /\ trouble' = trouble
        /\ \/ ProxyGoes(p, "finalize") /\ observer' = observer
           \/ ProxyGoes(p, "end") /\ Spawn(p)
    BY DEF AfterProxy, NoFault, OthersOfProxy
  <1>2. CASE ProxyGoes(p, "finalize") /\ observer' = observer
    <2>1. /\ proxy' \in [Proxies -> [at : ProxyAt, left : {"undialed", "over", "broken"}]]
          /\ proxy'[p].at = "finalize"
          /\ \A q \in Proxies : q # p => proxy'[q] = proxy[q]
      BY <1>2, ProxyGone DEF LiveInv, ProxyAt, Ending
    <2>2. SomeoneInCharge'
      BY <1>1, <1>2, <2>1 DEF LiveInv, SomeoneInCharge, Owners
    <2> QED BY <1>1, <1>2, <2>1, <2>2, ProxyWalks DEF LiveInv, LiveTypes, Owners
  <1>3. CASE ProxyGoes(p, "end") /\ Spawn(p)
    <2>1. /\ proxy' \in [Proxies -> [at : ProxyAt, left : {"undialed", "over", "broken"}]]
          /\ proxy'[p].at = "end"
          /\ \A q \in Proxies : q # p => proxy'[q] = proxy[q]
      BY <1>3, ProxyGone DEF LiveInv, ProxyAt
    <2>2. /\ observer' \in [Handlers -> [at : ObserverAt, errors : Nat]]
          /\ observer'[p].at = "claim"
          /\ \A k \in Handlers : k # p => observer'[k] = observer[k]
      BY <1>3, HandlersAre, ObserverGone DEF LiveInv, Spawn, ObserverAt
    <2>3. LiveTypes' /\ NotYetSaved' /\ LeaseOutlivesControl'
      BY <1>1, <2>1, <2>2 DEF LiveInv, LiveTypes, NotYetSaved, LeaseOutlivesControl
    <2>4. OneAccounts' /\ AccountsAfterEnd'
      <3>1. /\ \A q \in Proxies : EndProxyAt(q)' => EndProxyAt(q)
            /\ \A h \in Handlers : EndObserverAt(h)' => EndObserverAt(h)
        BY <2>1, <2>2 DEF EndProxyAt, EndObserverAt
      <3> QED BY <1>1, <3>1, NobodyAccounts DEF LiveInv, Ended
    <2>5. Owners'
      BY <1>1, <2>1, <2>2, HandlersAre DEF LiveInv, Owners
    <2>6. SomeoneInCharge'
      <3>1. observer[p].at = "none"
        BY <1>1 DEF LiveInv, Owners
      <3> QED BY <1>1, <2>1, <2>2, <3>1, HandlersAre DEF LiveInv, SomeoneInCharge, Owners
    <2> QED BY <2>3, <2>4, <2>5, <2>6 DEF LiveInv
  <1> QED BY <1>1, <1>2, <1>3

\* What an end does to the record, the lease and the log.
LEMMA EndSteps ==
    ASSUME LiveInv, NEW at, NEW next, EndStep(at, next)
    PROVE  \/ /\ at = "finalize" /\ next = "unlease" /\ call.controller \in Open
              /\ call' = [controller |-> "closed", owner |-> Nobody]
              /\ lease' = lease /\ logged' = logged /\ trouble' = trouble
           \/ /\ at = "finalize" /\ next = "end" /\ lease' = lease /\ logged' = logged
              /\ \/ trouble' # {}
                 \/ call' = call /\ trouble' = trouble /\ call.controller \notin Open
              /\ \/ call' = call
                 \/ /\ call.controller \in Open
                    /\ call' = [controller |-> "closed", owner |-> Nobody]
           \/ /\ at = "unlease" /\ next = "log" /\ call' = call /\ logged' = logged
              /\ trouble' = trouble /\ lease' \in {lease, "released"}
           \/ /\ at = "log" /\ next = "end" /\ call' = call /\ lease' = lease
              /\ \/ logged' = logged
                 \/ logged' = logged + 1 /\ trouble' = trouble
              /\ trouble' = {} => trouble = {}
  <1>1. CASE at = "finalize" /\ Marked(next) /\ UNCHANGED <<lease, logged>>
    BY <1>1, Troubled DEF Marked, MayClose, Controller
  <1>2. CASE at = "unlease" /\ next = "log" /\ ReleaseLease /\ UNCHANGED <<call, logged>>
    BY <1>2, Troubled DEF ReleaseLease
  <1>3. CASE at = "log" /\ next = "end" /\ WriteLog /\ UNCHANGED <<call, lease>>
    BY <1>3, Troubled DEF WriteLog
  <1> QED BY <1>1, <1>2, <1>3 DEF EndStep

\* A call that is over has no controller, and what is given back is given back.
LEMMA NothingOpens ==
    ASSUME LiveInv,
           call' = call \/ (call.controller \in Open
                              /\ call' = [controller |-> "closed", owner |-> Nobody]),
           lease' = lease \/ (Ended /\ lease' \in {lease, "released"}),
           creator' = creator
    PROVE  /\ call' \in [controller : Controllers, owner : Proxies \cup {Nobody}]
           /\ lease' \in {"none", "held", "aging", "lapsed", "released"}
           /\ NotYetSaved' /\ LeaseOutlivesControl'
           /\ call'.controller = "proxy" => call'.owner \in Proxies
           /\ Ended => Ended'
           /\ call' # call => Ended'
  BY DEF LiveInv, LiveTypes, NotYetSaved, LeaseOutlivesControl, Owners, Ended, Open, Controllers

LEMMA ProxyAccounts ==
    ASSUME LiveInv, NEW p \in Proxies, EndProxy(p) PROVE LiveInv'
  <1>1. PICK next \in Ending \cup {"end"} : EndStep(proxy[p].at, next) /\ ProxyGoes(p, next)
    BY DEF EndProxy
  <1>2. /\ proxy' \in [Proxies -> [at : ProxyAt, left : {"undialed", "over", "broken"}]]
        /\ proxy'[p].at = next
        /\ \A q \in Proxies : q # p => proxy'[q] = proxy[q]
    BY <1>1, ProxyGone DEF LiveInv, ProxyAt
  <1>3. observer' = observer /\ creator' = creator
    BY DEF EndProxy, OthersOfProxy
  <1>4. EndProxyAt(p) => Ended
    BY DEF LiveInv, AccountsAfterEnd
  <1>5. /\ call' \in [controller : Controllers, owner : Proxies \cup {Nobody}]
        /\ lease' \in {"none", "held", "aging", "lapsed", "released"}
        /\ NotYetSaved' /\ LeaseOutlivesControl'
        /\ call'.controller = "proxy" => call'.owner \in Proxies
        /\ Ended => Ended'
        /\ call' # call => Ended'
    BY <1>1, <1>3, <1>4, EndSteps, NothingOpens DEF EndProxyAt
  <1>6. logged' \in Nat /\ proxy[p].at \in Ending
    BY <1>1, EndSteps DEF LiveInv, LiveTypes, Ending
  <1>7. LiveTypes'
    BY <1>2, <1>3, <1>5, <1>6 DEF LiveInv, LiveTypes
  <1>8. Owners'
    BY <1>2, <1>3, <1>5, <1>6 DEF LiveInv, Owners, Ending
  <1>9. OneAccounts' /\ AccountsAfterEnd'
    <2>1. CASE proxy[p].at = "finalize" /\ next = "unlease"
      <3>1. ~Ended /\ Ended' /\ logged' = logged
        BY <1>1, <2>1, EndSteps DEF Ended, Open
      <3>2. \A q \in Proxies : ~EndProxyAt(q)
        BY <3>1 DEF LiveInv, AccountsAfterEnd
      <3>3. \A h \in Handlers : ~EndObserverAt(h)
        BY <3>1 DEF LiveInv, AccountsAfterEnd
      <3>4. logged = 0
        BY <3>1 DEF LiveInv, AccountsAfterEnd, OneAccounts, LiveTypes
      <3>5. \A q \in Proxies : EndProxyAt(q)' => q = p
        BY <1>2, <3>2 DEF EndProxyAt
      <3>6. \A h \in Handlers : ~EndObserverAt(h)'
        BY <1>3, <3>3 DEF EndObserverAt
      <3> QED BY <3>1, <3>4, <3>5, <3>6 DEF OneAccounts, AccountsAfterEnd
    <2>2. CASE proxy[p].at = "log" /\ logged' = logged + 1
      <3>1. Ended' /\ logged = 0
        BY <1>5, <2>2 DEF LiveInv, OneAccounts, AccountsAfterEnd, EndProxyAt
      <3>2. \A q \in Proxies : EndProxyAt(q) => q = p
        BY <2>2 DEF LiveInv, OneAccounts, EndProxyAt
      <3>3. \A h \in Handlers : ~EndObserverAt(h)
        BY <2>2 DEF LiveInv, OneAccounts, EndProxyAt
      <3>4. next = "end"
        BY <1>1, <2>2, EndSteps
      <3>5. \A q \in Proxies : ~EndProxyAt(q)'
        BY <1>2, <3>2, <3>4 DEF EndProxyAt
      <3>6. \A h \in Handlers : ~EndObserverAt(h)'
        BY <1>3, <3>3 DEF EndObserverAt
      <3> QED BY <2>2, <3>1, <3>5, <3>6 DEF OneAccounts, AccountsAfterEnd
    <2>3. CASE /\ ~(proxy[p].at = "finalize" /\ next = "unlease")
               /\ ~(proxy[p].at = "log" /\ logged' = logged + 1)
      <3>1. logged' = logged /\ (proxy'[p].at \in {"unlease", "log"} => EndProxyAt(p))
        BY <1>1, <1>2, <2>3, EndSteps DEF EndProxyAt
      <3>2. \A q \in Proxies : EndProxyAt(q)' => EndProxyAt(q)
        BY <1>2, <3>1 DEF EndProxyAt
      <3> QED BY <1>3, <1>5, <3>1, <3>2, NobodyAccounts DEF LiveInv, EndObserverAt
    <2> QED BY <2>1, <2>2, <2>3
  <1>10. SomeoneInCharge'
    <2>1. CASE trouble' # {}
      BY <2>1 DEF SomeoneInCharge
    <2>2. CASE Ended'
      BY <2>2 DEF SomeoneInCharge, Ended
    <2>3. CASE trouble' = {} /\ ~Ended'
      <3>1. call' = call /\ trouble = {} /\ proxy[p].at = "finalize" /\ call.controller \notin Open
        BY <1>1, <1>4, <1>5, <2>3, EndSteps DEF EndProxyAt, Ended, Open
      <3> QED BY <3>1 DEF SomeoneInCharge, Open
    <2> QED BY <2>1, <2>2, <2>3
  <1> QED BY <1>5, <1>7, <1>8, <1>9, <1>10 DEF LiveInv

LEMMA ProxyKeeps ==
    ASSUME LiveInv, NEW p \in Proxies, StartProxy(p) \/ ProxyStep(p) PROVE LiveInv'
  BY ProxyStarts, ProxyClaims, ProxyDialsOrRuns, ProxyReleases, ProxyLeaves, ProxyAccounts
     DEF ProxyStep

---------------------------------------------------------------------------
(* Observers. *)

\* An observer that goes on by itself, and not to an end it did not reach yet.
LEMMA ObserverWalks ==
    ASSUME LiveInv, NEW h \in Handlers, observer[h].at \notin {"none", "unlease", "log"},
           observer' \in [Handlers -> [at : ObserverAt, errors : Nat]],
           observer'[h].at \notin {"unlease", "log"},
           \A k \in Handlers : k # h => observer'[k] = observer[k],
           proxy' = proxy, creator' = creator, logged' = logged,
           call' = call \/ (ObserverMayClaim /\ call' = [controller |-> "observer", owner |-> Nobody]),
           lease' = lease \/ (lease = "aging" /\ lease' = "held"),
           SomeoneInCharge'
    PROVE  LiveInv'
  <1> USE DEF LiveInv
  <1>1. /\ call' \in [controller : Controllers, owner : Proxies \cup {Nobody}]
        /\ call'.controller \in Open => call.controller \in Open
        /\ call' # call => call.controller = "pending" /\ call'.controller = "observer"
    BY DEF LiveTypes, Controllers, Open, ObserverMayClaim
  <1>2. LiveTypes'
    BY <1>1 DEF LiveTypes
  <1>3. NotYetSaved' /\ LeaseOutlivesControl'
    BY <1>1 DEF NotYetSaved, LeaseOutlivesControl
  <1>4. OneAccounts' /\ AccountsAfterEnd'
    <2>1. \A k \in Handlers : EndObserverAt(k)' => EndObserverAt(k)
      BY DEF EndObserverAt
    <2>2. Ended => Ended'
      BY <1>1 DEF Ended
    <2> QED BY <2>1, <2>2, NobodyAccounts DEF EndProxyAt
  <1>5. Owners'
    <2>1. \A p \in Proxies : proxy[p].at # "end" => p # h
      BY DEF Owners
    <2> QED BY <1>1, <2>1, HandlersAre DEF Owners
  <1> QED BY <1>2, <1>3, <1>4, <1>5

LEMMA ObserverClaims ==
    ASSUME LiveInv, NEW h \in Handlers, ClaimObserver(h) PROVE LiveInv'
  <1>1. /\ observer[h].at = "claim" /\ lease' = lease /\ logged' = logged
        /\ proxy' = proxy /\ creator' = creator /\ trouble' = trouble
    BY Troubled DEF ClaimObserver, OthersOfObserver
  <1> DEFINE Claimed == /\ ObserverMayClaim /\ \E at \in {"check", "expiry"} : Goes(h, at)
                        /\ call' = [controller |-> "observer", owner |-> Nobody]
             Refused == ~ObserverMayClaim /\ call' = call /\ Goes(h, "end")
             Unheard == call' = call /\ Goes(h, "expiry")
  <1>2. Claimed \/ Refused \/ Unheard
    BY DEF ClaimObserver, Controller
  <1>3. /\ observer' \in [Handlers -> [at : ObserverAt, errors : Nat]]
        /\ observer'[h].at \in {"check", "expiry", "end"}
        /\ Claimed => observer'[h].at \in {"check", "expiry"}
        /\ Unheard => observer'[h].at = "expiry"
        /\ \A k \in Handlers : k # h => observer'[k] = observer[k]
    BY <1>2, ObserverGone DEF LiveInv, ObserverAt, Goes
  <1>4. SomeoneInCharge'
    <2>1. CASE Claimed
      BY <1>3, <2>1 DEF SomeoneInCharge, ObserverAt
    <2>2. CASE Refused
      BY <1>1, <1>3, <2>2 DEF LiveInv, SomeoneInCharge, ObserverMayClaim
    <2>3. CASE Unheard
      BY <1>1, <1>3, <2>3 DEF LiveInv, SomeoneInCharge
    <2> QED BY <1>2, <2>1, <2>2, <2>3
  <1>5. call' = call \/ (ObserverMayClaim /\ call' = [controller |-> "observer", owner |-> Nobody])
    BY <1>2
  <1> HIDE DEF Claimed, Refused, Unheard
  <1> QED BY <1>1, <1>3, <1>4, <1>5, ObserverWalks

LEMMA ObserverRuns ==
    ASSUME LiveInv, NEW h \in Handlers,
           CheckCall(h) \/ DialObserver(h) \/ RunObserver(h) \/ WaitObserver(h) \/ ExpireObserver(h)
    PROVE  LiveInv'
  <1>1. /\ observer[h].at \in {"check", "dial", "run", "wait", "expiry"}
        /\ call' = call /\ logged' = logged
        /\ proxy' = proxy /\ creator' = creator /\ trouble' = trouble
        /\ lease' = lease \/ (lease = "aging" /\ lease' = "held")
    BY Troubled DEF CheckCall, DialObserver, RunObserver, WaitObserver, ExpireObserver,
                    OthersOfObserver, RefreshLease, RefreshFails
  <1> DEFINE Next == {"check", "dial", "run", "wait", "expiry", "finalize", "end"}
  <1>2. /\ observer' \in [Handlers -> [at : ObserverAt, errors : Nat]]
        /\ observer'[h].at \in Next
        /\ observer'[h].at = "end" => call.controller # "observer"
        /\ observer[h].at = "expiry" => observer'[h].at = "finalize"
        /\ \A k \in Handlers : k # h => observer'[k] = observer[k]
    <2>0. Next \subseteq ObserverAt
      BY DEF ObserverAt, Ending
    <2>1. CASE CheckCall(h)
      <3>1. observer[h].errors + 1 \in Nat /\ observer[h].at = "check"
        BY <2>1 DEF LiveInv, LiveTypes, CheckCall
      <3>2. PICK at \in Next, n \in Nat :
               /\ observer' = [observer EXCEPT ![h] = [at |-> at, errors |-> n]]
               /\ at = "end" => call.controller # "observer"
        BY <2>1, <3>1 DEF CheckCall
      <3> QED BY <2>0, <3>1, <3>2, ObserverMoved DEF LiveInv
    <2>2. CASE DialObserver(h)
      BY <2>0, <2>2, ObserverGone DEF LiveInv, DialObserver, Goes
    <2>3. CASE RunObserver(h)
      <3>1. CASE observer' = observer
        BY <2>3, <3>1 DEF LiveInv, LiveTypes, RunObserver
      <3>2. CASE observer' # observer
        <4>1. /\ observer[h].at = "run"
              /\ \E at \in {"finalize", "wait", "end"} :
                   Goes(h, at) /\ (at = "end" => call.controller # "observer")
          BY <2>3, <3>2 DEF RunObserver
        <4> QED BY <2>0, <4>1, ObserverGone DEF LiveInv, Goes
      <3> QED BY <3>1, <3>2
    <2>4. CASE WaitObserver(h)
      <3>1. /\ observer[h].at = "wait"
            /\ \E at \in {"check", "end"} : Goes(h, at) /\ (at = "end" => call.controller # "observer")
        BY <2>4 DEF WaitObserver
      <3> QED BY <2>0, <3>1, ObserverGone DEF LiveInv, Goes
    <2>5. CASE ExpireObserver(h)
      BY <2>0, <2>5, ObserverGone DEF LiveInv, ExpireObserver, Goes
    <2> QED BY <2>1, <2>2, <2>3, <2>4, <2>5
  <1>3. SomeoneInCharge'
    <2>1. SUFFICES ASSUME trouble' = {} PROVE SomeoneInCharge'
      BY DEF SomeoneInCharge
    <2>2. CASE call.controller = "pending"
      BY <1>1, <1>2, <2>1, <2>2 DEF LiveInv, SomeoneInCharge
    <2>3. CASE call.controller = "observer"
      BY <1>1, <1>2, <2>1, <2>3 DEF LiveInv, SomeoneInCharge, ObserverAt, Ending
    <2>4. CASE call.controller = "proxy"
      BY <1>1, <2>1, <2>4 DEF LiveInv, SomeoneInCharge
    <2> QED BY <1>1, <2>2, <2>3, <2>4 DEF SomeoneInCharge
  <1> QED BY <1>1, <1>2, <1>3, ObserverWalks

LEMMA ObserverAccounts ==
    ASSUME LiveInv, NEW h \in Handlers, EndObserver(h) PROVE LiveInv'
  <1>1. PICK next \in Ending \cup {"end"} : EndStep(observer[h].at, next) /\ Goes(h, next)
    BY DEF EndObserver
  <1>2. /\ observer' \in [Handlers -> [at : ObserverAt, errors : Nat]]
        /\ observer'[h].at = next
        /\ \A k \in Handlers : k # h => observer'[k] = observer[k]
    BY <1>1, ObserverGone DEF LiveInv, ObserverAt, Goes
  <1>3. proxy' = proxy /\ creator' = creator
    BY DEF EndObserver, OthersOfObserver
  <1>4. EndObserverAt(h) => Ended
    BY DEF LiveInv, AccountsAfterEnd
  <1>5. /\ call' \in [controller : Controllers, owner : Proxies \cup {Nobody}]
        /\ lease' \in {"none", "held", "aging", "lapsed", "released"}
        /\ NotYetSaved' /\ LeaseOutlivesControl'
        /\ call'.controller = "proxy" => call'.owner \in Proxies
        /\ Ended => Ended'
        /\ call' # call => Ended'
    BY <1>1, <1>3, <1>4, EndSteps, NothingOpens DEF EndObserverAt
  <1>6. logged' \in Nat /\ observer[h].at \in Ending
    BY <1>1, EndSteps DEF LiveInv, LiveTypes, Ending
  <1>7. LiveTypes'
    BY <1>2, <1>3, <1>5, <1>6 DEF LiveInv, LiveTypes
  <1>8. Owners'
    <2>1. \A p \in Proxies : proxy[p].at # "end" => p # h
      BY <1>6 DEF LiveInv, Owners, Ending
    <2> QED BY <1>2, <1>3, <1>5, <2>1, HandlersAre DEF LiveInv, Owners
  <1>9. OneAccounts' /\ AccountsAfterEnd'
    <2>1. CASE observer[h].at = "finalize" /\ next = "unlease"
      <3>1. ~Ended /\ Ended' /\ logged' = logged
        BY <1>1, <2>1, EndSteps DEF Ended, Open
      <3>2. \A k \in Handlers : ~EndObserverAt(k)
        BY <3>1 DEF LiveInv, AccountsAfterEnd
      <3>3. \A p \in Proxies : ~EndProxyAt(p)
        BY <3>1 DEF LiveInv, AccountsAfterEnd
      <3>4. logged = 0
        BY <3>1 DEF LiveInv, AccountsAfterEnd, OneAccounts, LiveTypes
      <3>5. \A k \in Handlers : EndObserverAt(k)' => k = h
        BY <1>2, <3>2 DEF EndObserverAt
      <3>6. \A p \in Proxies : ~EndProxyAt(p)'
        BY <1>3, <3>3 DEF EndProxyAt
      <3> QED BY <3>1, <3>4, <3>5, <3>6 DEF OneAccounts, AccountsAfterEnd
    <2>2. CASE observer[h].at = "log" /\ logged' = logged + 1
      <3>1. Ended' /\ logged = 0
        BY <1>5, <2>2 DEF LiveInv, OneAccounts, AccountsAfterEnd, EndObserverAt
      <3>2. \A k \in Handlers : EndObserverAt(k) => k = h
        BY <2>2 DEF LiveInv, OneAccounts, EndObserverAt
      <3>3. \A p \in Proxies : ~EndProxyAt(p)
        BY <2>2 DEF LiveInv, OneAccounts, EndObserverAt
      <3>4. next = "end"
        BY <1>1, <2>2, EndSteps
      <3>5. \A k \in Handlers : ~EndObserverAt(k)'
        BY <1>2, <3>2, <3>4 DEF EndObserverAt
      <3>6. \A p \in Proxies : ~EndProxyAt(p)'
        BY <1>3, <3>3 DEF EndProxyAt
      <3> QED BY <2>2, <3>1, <3>5, <3>6 DEF OneAccounts, AccountsAfterEnd
    <2>3. CASE /\ ~(observer[h].at = "finalize" /\ next = "unlease")
               /\ ~(observer[h].at = "log" /\ logged' = logged + 1)
      <3>1. logged' = logged /\ (observer'[h].at \in {"unlease", "log"} => EndObserverAt(h))
        BY <1>1, <1>2, <2>3, EndSteps DEF EndObserverAt
      <3>2. \A k \in Handlers : EndObserverAt(k)' => EndObserverAt(k)
        BY <1>2, <3>1 DEF EndObserverAt
      <3> QED BY <1>3, <1>5, <3>1, <3>2, NobodyAccounts DEF LiveInv, EndProxyAt
    <2> QED BY <2>1, <2>2, <2>3
  <1>10. SomeoneInCharge'
    <2>1. CASE trouble' # {}
      BY <2>1 DEF SomeoneInCharge
    <2>2. CASE Ended'
      BY <2>2 DEF SomeoneInCharge, Ended
    <2>3. CASE trouble' = {} /\ ~Ended'
      <3>1. call' = call /\ call.controller \notin Open
        BY <1>1, <1>4, <1>5, <2>3, EndSteps DEF EndObserverAt, Ended, Open
      <3> QED BY <3>1 DEF SomeoneInCharge, Open
    <2> QED BY <2>1, <2>2, <2>3
  <1> QED BY <1>5, <1>7, <1>8, <1>9, <1>10 DEF LiveInv

LEMMA ObserverKeeps == ASSUME LiveInv, NEW h \in Handlers, ObserverStep(h) PROVE LiveInv'
  BY ObserverClaims, ObserverRuns, ObserverAccounts DEF ObserverStep

---------------------------------------------------------------------------
(* Time and death. *)

LEMMA TimeKeeps ==
    ASSUME LiveInv, LeaseAges \/ CallExpires \/ RecordExpires PROVE LiveInv'
  <1> USE DEF LiveInv
  <1>1. /\ creator' = creator /\ proxy' = proxy /\ observer' = observer /\ logged' = logged
        /\ trouble' = trouble
        /\ \/ call' = call
           \/ /\ lease' = lease /\ call.controller # "none"
              /\ call' = [controller |-> "gone", owner |-> Nobody]
        /\ lease' = lease \/ (lease' \in {"aging", "lapsed"} /\ call' = call)
    BY DEF LeaseAges, CallExpires, RecordExpires, NoFault, OthersOfTime, Controller, Open
  <1>2. /\ call' \in [controller : Controllers, owner : Proxies \cup {Nobody}]
        /\ call' # call => call'.controller = "gone" /\ call.controller # "none"
    BY <1>1 DEF LiveTypes, Controllers, Open
  <1>3. LiveTypes'
    BY <1>1, <1>2 DEF LiveTypes
  <1>4. NotYetSaved' /\ LeaseOutlivesControl'
    BY <1>1, <1>2 DEF NotYetSaved, LeaseOutlivesControl, Open
  <1>5. OneAccounts' /\ AccountsAfterEnd'
    BY <1>1, <1>2, NobodyAccounts DEF Ended, EndProxyAt, EndObserverAt
  <1>6. Owners' /\ SomeoneInCharge'
    BY <1>1, <1>2 DEF Owners, SomeoneInCharge
  <1> QED BY <1>3, <1>4, <1>5, <1>6

LEMMA ProxyDeathKeeps == ASSUME LiveInv, NEW p \in Proxies, ProxyDies(p) PROVE LiveInv'
  <1> USE DEF LiveInv
  <1>1. /\ ProxyGoes(p, "end") /\ trouble' # {} /\ call' = call /\ lease' = lease
        /\ creator' = creator /\ observer' = observer /\ logged' = logged
    BY Troubled DEF ProxyDies
  <1>2. /\ proxy' \in [Proxies -> [at : ProxyAt, left : {"undialed", "over", "broken"}]]
        /\ proxy'[p].at = "end"
        /\ \A q \in Proxies : q # p => proxy'[q] = proxy[q]
    BY <1>1, ProxyGone DEF ProxyAt
  <1>3. LiveTypes' /\ NotYetSaved' /\ LeaseOutlivesControl' /\ SomeoneInCharge' /\ Owners'
    BY <1>1, <1>2 DEF LiveTypes, NotYetSaved, LeaseOutlivesControl, SomeoneInCharge, Owners
  <1>4. \A q \in Proxies : EndProxyAt(q)' => EndProxyAt(q)
    BY <1>2 DEF EndProxyAt
  <1> QED BY <1>1, <1>3, <1>4, NobodyAccounts DEF Ended, EndObserverAt

LEMMA ObserverDeathKeeps == ASSUME LiveInv, NEW h \in Handlers, ObserverDies(h) PROVE LiveInv'
  <1> USE DEF LiveInv
  <1>1. /\ Goes(h, "end") /\ trouble' # {} /\ call' = call /\ lease' = lease
        /\ creator' = creator /\ proxy' = proxy /\ logged' = logged
        /\ observer[h].at # "none"
    BY Troubled DEF ObserverDies
  <1>2. /\ observer' \in [Handlers -> [at : ObserverAt, errors : Nat]]
        /\ observer'[h].at = "end"
        /\ \A k \in Handlers : k # h => observer'[k] = observer[k]
    BY <1>1, ObserverGone DEF ObserverAt, Goes
  <1>3. LiveTypes' /\ NotYetSaved' /\ LeaseOutlivesControl' /\ SomeoneInCharge'
    BY <1>1, <1>2 DEF LiveTypes, NotYetSaved, LeaseOutlivesControl, SomeoneInCharge
  <1>4. Owners'
    <2>1. \A p \in Proxies : proxy[p].at # "end" => p # h
      BY <1>1 DEF Owners
    <2> QED BY <1>1, <1>2, <2>1, HandlersAre DEF Owners
  <1>5. \A k \in Handlers : EndObserverAt(k)' => EndObserverAt(k)
    BY <1>2 DEF EndObserverAt
  <1> QED BY <1>1, <1>3, <1>4, <1>5, NobodyAccounts DEF Ended, EndProxyAt

---------------------------------------------------------------------------
(* The invariant, and what follows from it. *)

LEMMA LiveInvInit == LiveInit => LiveInv
  <1> SUFFICES ASSUME LiveInit PROVE LiveInv
    OBVIOUS
  <1>1. LiveTypes
    BY DEF LiveInit, LiveTypes, Controllers, Open, ProxyAt, ObserverAt
  <1>2. NotYetSaved /\ LeaseOutlivesControl /\ Owners /\ SomeoneInCharge
    BY HandlersAre DEF LiveInit, NotYetSaved, LeaseOutlivesControl, Owners, SomeoneInCharge, Open
  <1>3. OneAccounts /\ AccountsAfterEnd
    BY DEF LiveInit, OneAccounts, AccountsAfterEnd, EndProxyAt, EndObserverAt
  <1> QED BY <1>1, <1>2, <1>3 DEF LiveInv

LEMMA LiveInvNext == LiveInv /\ [LiveNext]_liveVars => LiveInv'
  <1> SUFFICES ASSUME LiveInv, [LiveNext]_liveVars PROVE LiveInv'
    OBVIOUS
  <1>1. CASE LiveNext
    BY <1>1, CreatorKeeps, ProxyKeeps, ObserverKeeps, TimeKeeps,
       ProxyDeathKeeps, ObserverDeathKeeps DEF LiveNext
  <1>2. CASE UNCHANGED liveVars
    BY <1>2 DEF liveVars, LiveInv, LiveTypes, NotYetSaved, OneAccounts, AccountsAfterEnd, EndProxyAt,
                EndObserverAt, Ended, LeaseOutlivesControl, Owners, SomeoneInCharge
  <1> QED BY <1>1, <1>2

LEMMA LiveInvHolds == LiveSpec => []LiveInv
  BY LiveInvInit, LiveInvNext, PTL DEF LiveSpec

\* A set that has all its elements in one of them has at most one.
LEMMA AtMostOne ==
    ASSUME NEW S, \A x, y \in S : x = y
    PROVE  /\ S = {} => Cardinality(S) = 0
           /\ S # {} => Cardinality(S) = 1
  <1>1. CASE S = {}
    BY <1>1, FS_EmptySet
  <1>2. CASE S # {}
    <2>1. PICK x \in S : S = {x}
      BY <1>2
    <2> QED BY <1>2, <2>1, FS_Singleton
  <1> QED BY <1>1, <1>2

(* finalizeLiveCall: of all the observers and proxies that find the call   *)
(* over, at most one accounts for it, and no controller comes after it.    *)
THEOREM LiveCallAccountedOnce == LiveSpec => []AccountedOnce
  <1>1. LiveInv => AccountedOnce
    <2> SUFFICES ASSUME LiveInv PROVE AccountedOnce
      OBVIOUS
    <2>1. /\ \A p \in Accounting : p \in Proxies /\ EndProxyAt(p)
          /\ \A h \in AccountingObservers : h \in Handlers /\ EndObserverAt(h)
      BY DEF Accounting, AccountingObservers, EndProxyAt, EndObserverAt
    <2>2. /\ logged \in {0, 1}
          /\ \A p, q \in Accounting : p = q
          /\ \A h, k \in AccountingObservers : h = k
          /\ Accounting # {} => logged = 0
          /\ AccountingObservers # {} => logged = 0 /\ Accounting = {}
      BY <2>1 DEF LiveInv, OneAccounts, LiveTypes
    <2>3. logged + Cardinality(Accounting) + Cardinality(AccountingObservers) <= 1
      BY <2>2, AtMostOne
    <2>4. logged = 1 \/ Accounting # {} \/ AccountingObservers # {} => Ended
      BY <2>1 DEF LiveInv, AccountsAfterEnd
    <2> QED BY <2>3, <2>4 DEF AccountedOnce, Ended
  <1> QED BY <1>1, LiveInvHolds, PTL

(* releaseLiveLease: the lease of a call goes back only once no controller *)
(* can be in charge of it any more, or when the call was never created.    *)
THEOREM LiveLeaseOutlivesControl == LiveSpec => []LeaseOutlivesControl
  <1>1. LiveInv => LeaseOutlivesControl
    BY DEF LiveInv
  <1> QED BY <1>1, LiveInvHolds, PTL

(* observeLiveCall, ProxyLiveSideband: as long as no answer is lost, no    *)
(* step of an end fails and no process dies, a call that is not closed has *)
(* somebody who will go on with it.                                        *)
THEOREM LiveCallInHands == LiveSpec => []SomeoneInCharge
  <1>1. LiveInv => SomeoneInCharge
    BY DEF LiveInv
  <1> QED BY <1>1, LiveInvHolds, PTL

---------------------------------------------------------------------------
(* The ledger of a user. *)

Active(s, g) == s.loan[g].status = "active"

\* DebtIsOwed of any rows, and that at most one loan is active.
Agrees(s) ==
    /\ s.debt > 0 <=> s.due # NoDue
    /\ \A g \in Grants : s.loan[g].owed > 0 <=> Active(s, g)
    /\ \A g \in Grants : Active(s, g) => s.debt = s.loan[g].owed
    /\ s.debt > 0 => \E g \in Grants : Active(s, g)
    /\ \A g, h \in Grants : Active(s, g) /\ Active(s, h) => g = h

Sound(s) == s \in Ledger /\ Agrees(s)

Now == day \in Nat

---------------------------------------------------------------------------
(* The ledger: rows. *)

\* Products of amounts and ratios are amounts.
LEMMA Product == ASSUME NEW m \in Nat, NEW n \in Nat PROVE m * n \in Nat
  OBVIOUS

LEMMA Ratios ==
    /\ ExchangeRate \in Nat /\ ConversionRatio \in Nat /\ UnusedRatio \in Nat
    /\ TemporaryRatio \in Nat /\ PermanentRatio \in Nat
    /\ TemporaryRatio > 0 /\ PermanentRatio > 0 /\ GraceDays \in Nat
  BY LedgerAssumption DEF LedgerAssumption, Positive

LEMMA LeastType ==
    ASSUME NEW m \in Nat, NEW n \in Nat
    PROVE  Least(m, n) \in Nat /\ Least(m, n) <= m /\ Least(m, n) <= n
  BY DEF Least

LEMMA RowTypes ==
    ASSUME NEW s \in Ledger, NEW g \in Grants
    PROVE  /\ s.grant[g] \in Grant /\ s.loan[g] \in Loan
           /\ s.grant[g].remaining \in Nat /\ s.grant[g].expires \in Nat
           /\ s.loan[g].owed \in Nat
  BY DEF Ledger, Grant, Loan

LEMMA AccountTypes ==
    ASSUME NEW s \in Ledger
    PROVE  /\ s.debt \in Nat /\ s.due \in Nat /\ s.exchange \in Nat
           /\ s.balance \in Int /\ s.frozen \in Int /\ s.banked \in Int
           /\ s.grant \in [Grants -> Grant] /\ s.loan \in [Grants -> Loan]
           /\ s.consumed \in Credit
  BY DEF Ledger

\* What was created in place of a grant is a grant.
LEMMA CreateGrantSound ==
    ASSUME NEW s, Sound(s), NEW g \in Grants, NEW n \in Nat,
           NEW from \in Nat, NEW until \in Nat
    PROVE  Sound(CreateGrant(s, g, n, from, until))
  <1> DEFINE t == CreateGrant(s, g, n, from, until)
  <1>1. t \in Ledger
    BY DEF Sound, CreateGrant, Ledger, Grant
  <1>2. t.loan = s.loan /\ t.debt = s.debt /\ t.due = s.due
    BY DEF Sound, CreateGrant, Ledger
  <1> QED BY <1>1, <1>2 DEF Sound, Agrees, Active

\* Balance and frozen balance are no part of what Sound relates.
LEMMA BalanceSound ==
    ASSUME NEW s, Sound(s), NEW m \in Int, NEW n \in Int, NEW k \in Int, NEW a \in Nat
    PROVE  Sound([s EXCEPT !.balance = m, !.frozen = n, !.banked = k, !.exchange = a])
  <1> DEFINE t == [s EXCEPT !.balance = m, !.frozen = n, !.banked = k, !.exchange = a]
  <1>1. t \in Ledger
    BY DEF Sound, Ledger
  <1>2. t.loan = s.loan /\ t.debt = s.debt /\ t.due = s.due
    BY DEF Sound, Ledger
  <1> QED BY <1>1, <1>2 DEF Sound, Agrees, Active

\* So are the grants, as long as they are grants.
LEMMA CreditSound ==
    ASSUME NEW s, Sound(s), NEW f \in [Grants -> Grant], NEW c \in Credit
    PROVE  Sound([s EXCEPT !.grant = f, !.consumed = c])
  <1> DEFINE t == [s EXCEPT !.grant = f, !.consumed = c]
  <1>1. t \in Ledger
    BY DEF Sound, Ledger
  <1>2. t.loan = s.loan /\ t.debt = s.debt /\ t.due = s.due
    BY DEF Sound, Ledger
  <1> QED BY <1>1, <1>2 DEF Sound, Agrees, Active

---------------------------------------------------------------------------
(* The ledger: debt. *)

LEMMA ReductionType ==
    ASSUME NEW s \in Ledger, NEW g \in Grants
    PROVE  LET n == UnusedReduction(s, g) IN n \in Nat /\ n <= s.debt /\ n <= s.loan[g].owed
  <1> DEFINE m == s.grant[g].remaining * UnusedRatio
             l == Least(s.debt, s.loan[g].owed)
  <1>1. m \in Nat
    BY RowTypes, AccountTypes, Ratios, Product
  <1>2. l \in Nat /\ l <= s.debt /\ l <= s.loan[g].owed
    BY RowTypes, AccountTypes, LeastType
  <1>3. Least(m, l) \in Nat /\ Least(m, l) <= l
    BY <1>1, <1>2, LeastType
  <1> QED BY <1>2, <1>3, RowTypes, AccountTypes DEF UnusedReduction

LEMMA ReduceLoanType ==
    ASSUME NEW loan \in Loan, NEW n \in Nat, n <= loan.owed
    PROVE  /\ ReduceLoan(loan, n) \in Loan
           /\ ReduceLoan(loan, n).owed = loan.owed - n
           /\ ReduceLoan(loan, n).status = IF loan.owed = n THEN "repaid" ELSE loan.status
  <1> DEFINE m == loan.owed - n
             status == IF loan.owed = n THEN "repaid" ELSE loan.status
             t == [loan EXCEPT !.owed = m, !.status = status]
  <1>1. m \in Nat /\ status \in {"none", "active", "repaid", "settled"}
    BY DEF Loan
  <1>2. ReduceLoan(loan, n) = t
    BY DEF ReduceLoan, Loan
  <1> HIDE DEF m, status
  <1>3. t \in Loan /\ t.owed = m /\ t.status = status
    BY <1>1 DEF Loan
  <1> QED BY <1>2, <1>3 DEF m, status

LEMMA ReduceDebtType ==
    ASSUME NEW s \in Ledger, NEW n \in Nat, n <= s.debt
    PROVE  /\ ReduceDebt(s, n) \in Ledger
           /\ ReduceDebt(s, n).debt = s.debt - n
           /\ ReduceDebt(s, n).due = IF n > 0 /\ s.debt = n THEN NoDue ELSE s.due
           /\ ReduceDebt(s, n).loan = s.loan
           /\ ReduceDebt(s, n).grant = s.grant
  <1> DEFINE m == s.debt - n
             due == IF n > 0 /\ s.debt = n THEN NoDue ELSE s.due
             t == [s EXCEPT !.debt = m, !.due = due]
  <1>1. m \in Nat /\ due \in Nat
    BY AccountTypes DEF NoDue
  <1>2. ReduceDebt(s, n) = t
    BY DEF ReduceDebt, Ledger
  <1> HIDE DEF m, due
  <1>3. t \in Ledger /\ t.debt = m /\ t.due = due /\ t.loan = s.loan /\ t.grant = s.grant
    BY <1>1 DEF Ledger
  <1> QED BY <1>2, <1>3 DEF m, due

(* The debt is reduced by n, and the loan c of a family f of loans that     *)
(* otherwise owe what they owed is too.                                    *)
LEMMA ReductionSound ==
    ASSUME NEW s, Sound(s), NEW t \in Ledger,
           NEW n \in Nat, n <= s.debt,
           t.debt = s.debt - n,
           t.due = IF n > 0 /\ s.debt = n THEN NoDue ELSE s.due,
           \A g \in Grants : t.loan[g].owed = IF Active(s, g) THEN s.loan[g].owed - n
                                              ELSE s.loan[g].owed,
           \A g \in Grants : Active(t, g) <=> Active(s, g) /\ s.loan[g].owed # n
    PROVE  Sound(t)
  <1> USE DEF Sound
  <1>1. /\ s.debt \in Nat /\ s.due \in Nat /\ \A g \in Grants : s.loan[g].owed \in Nat
    BY RowTypes, AccountTypes
  <1>2. t.debt > 0 <=> t.due # NoDue
    BY <1>1 DEF Agrees, NoDue
  <1>3. \A g \in Grants : t.loan[g].owed > 0 <=> Active(t, g)
    BY <1>1 DEF Agrees
  <1>4. \A g \in Grants : Active(t, g) => t.debt = t.loan[g].owed
    BY <1>1 DEF Agrees
  <1>5. t.debt > 0 => \E g \in Grants : Active(t, g)
    BY <1>1 DEF Agrees
  <1>6. \A g, h \in Grants : Active(t, g) /\ Active(t, h) => g = h
    BY DEF Agrees
  <1> QED BY <1>2, <1>3, <1>4, <1>5, <1>6 DEF Agrees

LEMMA SettleUnusedSound ==
    ASSUME NEW s, Sound(s)
    PROVE  Sound(SettleUnused(s))
  <1> DEFINE owing == {g \in Lapsed(s) : s.loan[g].owed > 0}
             c == CHOOSE g \in owing : TRUE
             reduced == IF owing = {} THEN s ELSE ReduceDebt(s, UnusedReduction(s, c))
             grants == [g \in Grants |-> IF g \in Lapsed(s)
                                         THEN [reduced.grant[g] EXCEPT !.remaining = 0]
                                         ELSE reduced.grant[g]]
             Settled(g) == [ReduceLoan(s.loan[g], UnusedReduction(s, g)) EXCEPT
                              !.swept = TRUE, !.unused = s.grant[g].remaining]
             loans == [g \in Grants |-> IF g \in Lapsed(s) THEN Settled(g) ELSE s.loan[g]]
             n == IF owing = {} THEN 0 ELSE UnusedReduction(s, c)
             t == [reduced EXCEPT !.grant = grants, !.loan = loans]
  <1>1. s \in Ledger /\ Lapsed(s) \subseteq Grants
    BY DEF Sound, Lapsed
  <1>2. owing # {} => c \in owing /\ c \in Grants
    BY <1>1
  <1>3. n \in Nat /\ n <= s.debt
    BY <1>1, <1>2, ReductionType, RowTypes, AccountTypes
  <1>4. /\ reduced \in Ledger /\ reduced.grant = s.grant /\ reduced.loan = s.loan
        /\ reduced.debt = s.debt - n
        /\ reduced.due = IF n > 0 /\ s.debt = n THEN NoDue ELSE s.due
    <2>1. CASE owing = {}
      BY <1>1, <1>3, <2>1, RowTypes, AccountTypes
    <2>2. CASE owing # {}
      BY <1>1, <1>3, <2>2, ReduceDebtType
    <2> QED BY <2>1, <2>2
  <1>5. SettleUnused(s) = t
    BY <1>4 DEF SettleUnused
  <1>6. \A g \in Grants :
          /\ Settled(g) \in Loan
          /\ Settled(g).owed = s.loan[g].owed - UnusedReduction(s, g)
          /\ Settled(g).status = IF s.loan[g].owed = UnusedReduction(s, g) THEN "repaid"
                                 ELSE s.loan[g].status
    <2> SUFFICES ASSUME NEW g \in Grants
                 PROVE  /\ Settled(g) \in Loan
                        /\ Settled(g).owed = s.loan[g].owed - UnusedReduction(s, g)
                        /\ Settled(g).status = IF s.loan[g].owed = UnusedReduction(s, g)
                                               THEN "repaid" ELSE s.loan[g].status
      OBVIOUS
    <2> DEFINE loan == ReduceLoan(s.loan[g], UnusedReduction(s, g))
    <2>1. /\ loan \in Loan /\ loan.owed = s.loan[g].owed - UnusedReduction(s, g)
          /\ loan.status = IF s.loan[g].owed = UnusedReduction(s, g) THEN "repaid"
                           ELSE s.loan[g].status
      BY <1>1, RowTypes, AccountTypes, ReductionType, ReduceLoanType
    <2> QED BY <1>1, <2>1, RowTypes, AccountTypes DEF Loan
  <1>7. grants \in [Grants -> Grant] /\ loans \in [Grants -> Loan]
    <2>1. \A g \in Grants : reduced.grant[g] \in Grant
      BY <1>4, RowTypes
    <2>2. \A g \in Grants : [reduced.grant[g] EXCEPT !.remaining = 0] \in Grant
      BY <2>1 DEF Grant
    <2>3. \A g \in Grants : s.loan[g] \in Loan
      BY <1>1, RowTypes
    <2> HIDE DEF reduced, Settled
    <2>4. grants \in [Grants -> Grant]
      BY <2>1, <2>2
    <2>5. loans \in [Grants -> Loan]
      BY <1>6, <2>3
    <2> QED BY <2>4, <2>5
  <1>8. /\ t \in Ledger /\ t.debt = reduced.debt /\ t.due = reduced.due /\ t.loan = loans
    <2>1. reduced \in Ledger
      BY <1>4
    <2>2. t = [reduced EXCEPT !.grant = grants, !.loan = loans]
      OBVIOUS
    <2> HIDE DEF t, grants, loans, reduced
    <2> QED BY <2>1, <2>2, <1>7 DEF Ledger
  <1>9. \A g \in Grants : t.loan[g] = IF g \in Lapsed(s) THEN Settled(g) ELSE s.loan[g]
    BY <1>8
  <1>10. \A g \in Grants : g \in Lapsed(s) /\ ~Active(s, g) =>
          s.loan[g].owed = 0 /\ UnusedReduction(s, g) = 0 /\ s.loan[g].status = "repaid"
    BY <1>1, ReductionType, RowTypes, AccountTypes DEF Sound, Agrees, Lapsed, Active
  <1>11. \A g \in Grants : g \in Lapsed(s) /\ Active(s, g) => UnusedReduction(s, g) = n
    BY <1>1, <1>2, RowTypes, AccountTypes DEF Sound, Agrees
  <1>12. \A g \in Grants : Active(s, g) /\ g \notin Lapsed(s) => n = 0
    BY <1>1, <1>2, RowTypes, AccountTypes DEF Sound, Agrees
  <1>13. t.debt = s.debt - n /\ t.due = IF n > 0 /\ s.debt = n THEN NoDue ELSE s.due
    BY <1>4, <1>8
  <1> HIDE DEF t, n, loans, Settled
  <1>14. \A g \in Grants : t.loan[g].owed = IF Active(s, g) THEN s.loan[g].owed - n
                                            ELSE s.loan[g].owed
    <2> SUFFICES ASSUME NEW g \in Grants
                 PROVE  t.loan[g].owed = IF Active(s, g) THEN s.loan[g].owed - n
                                         ELSE s.loan[g].owed
      OBVIOUS
    <2>1. s.loan[g].owed \in Nat
      BY <1>1, RowTypes
    <2>2. CASE g \in Lapsed(s) /\ Active(s, g)
      BY <1>6, <1>9, <1>11, <2>2
    <2>3. CASE g \in Lapsed(s) /\ ~Active(s, g)
      BY <1>6, <1>9, <1>10, <2>1, <2>3
    <2>4. CASE g \notin Lapsed(s)
      BY <1>9, <1>12, <2>1, <2>4
    <2> QED BY <2>2, <2>3, <2>4
  <1>15. \A g \in Grants : Active(t, g) <=> Active(s, g) /\ s.loan[g].owed # n
    <2> SUFFICES ASSUME NEW g \in Grants
                 PROVE  Active(t, g) <=> Active(s, g) /\ s.loan[g].owed # n
      OBVIOUS
    <2>1. s.loan[g].owed \in Nat /\ (Active(s, g) => s.loan[g].owed > 0)
      BY <1>1, RowTypes DEF Sound, Agrees
    <2>2. CASE g \in Lapsed(s) /\ Active(s, g)
      BY <1>6, <1>9, <1>11, <2>2 DEF Active
    <2>3. CASE g \in Lapsed(s) /\ ~Active(s, g)
      BY <1>6, <1>9, <1>10, <2>3 DEF Active
    <2>4. CASE g \notin Lapsed(s)
      BY <1>9, <1>12, <2>1, <2>4 DEF Active
    <2> QED BY <2>2, <2>3, <2>4
  <1>16. t \in Ledger
    BY <1>8
  <1> QED BY <1>3, <1>5, <1>13, <1>14, <1>15, <1>16, ReductionSound

LEMMA SettleDebtSound ==
    ASSUME NEW s, Sound(s)
    PROVE  Sound(SettleDebt(s))
  <1> DEFINE m == s.debt * ConversionRatio
             loans == [g \in Grants |-> IF s.loan[g].status = "active"
                                        THEN [s.loan[g] EXCEPT !.status = "settled", !.owed = 0]
                                        ELSE s.loan[g]]
  <1>1. CASE ~Due(s)
    BY <1>1 DEF SettleDebt
  <1>2. CASE Due(s)
    <2>1. s \in Ledger /\ m \in Nat
      BY RowTypes, AccountTypes, Ratios, Product DEF Sound
    <2>2. loans \in [Grants -> Loan]
      BY <2>1, RowTypes, AccountTypes DEF Loan
    <2> DEFINE b == s.balance - m
               k == s.banked - m
               t == [s EXCEPT !.balance = b, !.banked = k, !.debt = 0, !.due = NoDue,
                              !.loan = loans]
    <2>3. SettleDebt(s) = t /\ b \in Int /\ k \in Int
      BY <1>2, <2>1, AccountTypes DEF SettleDebt
    <2> HIDE DEF m, loans, b, k
    <2>4. t \in Ledger /\ t.debt = 0 /\ t.due = NoDue /\ t.loan = loans
      BY <2>1, <2>2, <2>3 DEF Ledger, NoDue
    <2>5. \A g \in Grants : loans[g].status # "active" /\ loans[g].owed = 0
      BY <2>1, RowTypes, AccountTypes DEF loans, Sound, Agrees, Active, Loan
    <2> QED BY <2>3, <2>4, <2>5 DEF Sound, Agrees, Active
  <1> QED BY <1>1, <1>2

LEMMA ReconciledSound == ASSUME NEW s, Sound(s) PROVE Sound(Reconciled(s))
  BY SettleUnusedSound, SettleDebtSound DEF Reconciled

LEMMA RepaidSound ==
    ASSUME NEW s, Sound(s), NEW n \in Nat, NEW ratio \in Nat
    PROVE  Sound(Repaid(s, n, ratio))
  <1> DEFINE reduction == Least(n * ratio, s.debt)
             r == ReduceDebt(s, reduction)
             loans == [g \in Grants |-> IF s.loan[g].status = "active"
                         THEN ReduceLoan(s.loan[g], Least(reduction, s.loan[g].owed))
                         ELSE s.loan[g]]
             t == [r EXCEPT !.loan = loans]
  <1>1. s \in Ledger /\ reduction \in Nat /\ reduction <= s.debt
    BY RowTypes, AccountTypes, Product, LeastType DEF Sound
  <1>2. /\ r \in Ledger /\ r.debt = s.debt - reduction /\ r.loan = s.loan
        /\ r.due = IF reduction > 0 /\ s.debt = reduction THEN NoDue ELSE s.due
    BY <1>1, ReduceDebtType
  <1>3. Repaid(s, n, ratio) = t
    BY <1>2 DEF Repaid
  <1>4. \A g \in Grants : Active(s, g) => Least(reduction, s.loan[g].owed) = reduction
    BY <1>1, RowTypes, AccountTypes DEF Sound, Agrees, Least
  <1> HIDE DEF reduction
  <1>5. \A g \in Grants : Active(s, g) =>
          LET loan == ReduceLoan(s.loan[g], reduction) IN
          /\ loan \in Loan /\ loan.owed = s.loan[g].owed - reduction
          /\ loan.status = IF s.loan[g].owed = reduction THEN "repaid" ELSE "active"
    BY <1>1, RowTypes, AccountTypes, ReduceLoanType DEF Sound, Agrees, Active
  <1>6. \A g \in Grants : loans[g] = IF Active(s, g) THEN ReduceLoan(s.loan[g], reduction)
                                     ELSE s.loan[g]
    BY <1>4 DEF Active
  <1>7. loans \in [Grants -> Loan]
    BY <1>1, <1>5, <1>6, RowTypes, AccountTypes
  <1> HIDE DEF loans, r
  <1>8. t \in Ledger /\ t.debt = r.debt /\ t.due = r.due /\ t.loan = loans
    BY <1>2, <1>7 DEF Ledger
  <1> HIDE DEF t
  <1>9. \A g \in Grants : t.loan[g].owed = IF Active(s, g) THEN s.loan[g].owed - reduction
                                           ELSE s.loan[g].owed
    BY <1>5, <1>6, <1>8
  <1>10. \A g \in Grants : Active(t, g) <=> Active(s, g) /\ s.loan[g].owed # reduction
    BY <1>5, <1>6, <1>8 DEF Active
  <1> QED BY <1>1, <1>2, <1>3, <1>8, <1>9, <1>10, ReductionSound

---------------------------------------------------------------------------
(* The ledger: spending and exchanging. *)

LEMMA SplitType ==
    ASSUME NEW s, NEW limit, NEW n \in Nat, NEW d \in Split(s, limit, n)
    PROVE  /\ d.taken \in Credit /\ d.permanent \in Nat /\ d.permanent <= n
           /\ \A g \in Grants : d.taken[g] <= limit[g]
  BY DEF Split, Credit

LEMMA UsableType ==
    ASSUME NEW s \in Ledger, NEW g \in Grants
    PROVE  UsableCredit(s)[g] \in Nat /\ UsableCredit(s)[g] <= s.grant[g].remaining
  BY RowTypes DEF UsableCredit, Usable

LEMMA MovedType ==
    ASSUME NEW row \in Grant, NEW n \in Int, row.remaining + n >= 0
    PROVE  Moved(row, n) \in Grant
  <1> DEFINE m == row.remaining + n
  <1>1. m \in Nat
    BY DEF Grant
  <1>2. Moved(row, n) = [row EXCEPT !.remaining = m]
    BY DEF Moved, Grant
  <1> HIDE DEF m
  <1> QED BY <1>1, <1>2 DEF Grant

\* Taking credit out of the grants.
LEMMA TakenType ==
    ASSUME NEW s \in Ledger, NEW amounts \in Credit,
           \A g \in Grants : amounts[g] <= s.grant[g].remaining
    PROVE  [g \in Grants |-> Moved(s.grant[g], -amounts[g])] \in [Grants -> Grant]
  <1> SUFFICES ASSUME NEW g \in Grants
               PROVE  Moved(s.grant[g], -amounts[g]) \in Grant
    OBVIOUS
  <1>1. s.grant[g] \in Grant /\ s.grant[g].remaining \in Nat /\ amounts[g] \in Nat
    BY RowTypes DEF Credit
  <1>2. -amounts[g] \in Int /\ s.grant[g].remaining + (-amounts[g]) >= 0
    BY <1>1
  <1> QED BY <1>1, <1>2, MovedType

LEMMA CreditSums ==
    ASSUME NEW c \in Credit, NEW d \in Credit
    PROVE  [g \in Grants |-> c[g] + d[g]] \in Credit
  BY DEF Credit

LEMMA SetAsideSound ==
    ASSUME NEW s, Sound(s), NEW amounts \in Credit,
           \A g \in Grants : amounts[g] <= s.grant[g].remaining
    PROVE  Sound(SetAside(s, amounts)) /\ SetAside(s, amounts).consumed = s.consumed
  <1> DEFINE f == [g \in Grants |-> Moved(s.grant[g], -amounts[g])]
  <1>1. f \in [Grants -> Grant] /\ s \in Ledger /\ s.consumed \in Credit
    BY TakenType, AccountTypes DEF Sound
  <1>2. SetAside(s, amounts) = [s EXCEPT !.grant = f]
    BY DEF SetAside
  <1> HIDE DEF f
  <1>3. [s EXCEPT !.grant = f] = [s EXCEPT !.grant = f, !.consumed = s.consumed]
    BY <1>1 DEF Ledger
  <1>4. Sound([s EXCEPT !.grant = f, !.consumed = s.consumed])
    BY <1>1, CreditSound
  <1>5. [s EXCEPT !.grant = f].consumed = s.consumed
    BY <1>1 DEF Ledger
  <1> QED BY ONLY <1>2, <1>3, <1>4, <1>5

LEMMA ConsumeSound ==
    ASSUME NEW s, Sound(s), NEW amounts \in Credit,
           \A g \in Grants : amounts[g] <= s.grant[g].remaining
    PROVE  Sound(Consume(s, amounts))
  <1> DEFINE t == SetAside(s, amounts)
             c == [g \in Grants |-> s.consumed[g] + amounts[g]]
  <1>1. Sound(t)
    BY SetAsideSound
  <1>2. t \in Ledger /\ t.grant \in [Grants -> Grant] /\ c \in Credit
    BY <1>1, AccountTypes, CreditSums DEF Sound
  <1>3. Consume(s, amounts) = [t EXCEPT !.consumed = c]
    BY DEF Consume
  <1> HIDE DEF t, c
  <1>4. [t EXCEPT !.consumed = c] = [t EXCEPT !.grant = t.grant, !.consumed = c]
    BY <1>2 DEF Ledger
  <1>5. Sound([t EXCEPT !.grant = t.grant, !.consumed = c])
    BY <1>1, <1>2, CreditSound
  <1> QED BY ONLY <1>3, <1>4, <1>5

\* Changes of the balance alone, with what the bank books.
LEMMA BookSound ==
    ASSUME NEW s, Sound(s), NEW m \in Int, NEW k \in Int
    PROVE  Sound([s EXCEPT !.balance = m, !.banked = k])
  <1>1. s \in Ledger /\ s.frozen \in Int /\ s.exchange \in Nat
    BY AccountTypes DEF Sound
  <1>2. [s EXCEPT !.balance = m, !.banked = k]
          = [s EXCEPT !.balance = m, !.frozen = s.frozen, !.banked = k, !.exchange = s.exchange]
    BY <1>1 DEF Ledger
  <1>3. Sound([s EXCEPT !.balance = m, !.frozen = s.frozen, !.banked = k,
                        !.exchange = s.exchange])
    BY <1>1, BalanceSound
  <1> QED BY ONLY <1>2, <1>3

LEMMA SpendSound ==
    ASSUME NEW s, Sound(s), NEW n \in Int
    PROVE  Sound([s EXCEPT !.balance = @ - n])
  <1> DEFINE m == s.balance - n
  <1>1. s \in Ledger /\ m \in Int /\ s.banked \in Int
    BY AccountTypes DEF Sound
  <1>2. [s EXCEPT !.balance = @ - n] = [s EXCEPT !.balance = m, !.banked = s.banked]
    BY <1>1 DEF Ledger
  <1> HIDE DEF m
  <1> QED BY <1>1, <1>2, BookSound

\* What the bank takes from the balance and books.
LEMMA BankSound ==
    ASSUME NEW s, Sound(s), NEW n \in Int
    PROVE  Sound([s EXCEPT !.balance = @ - n, !.banked = @ - n])
  <1> DEFINE m == s.balance - n
             k == s.banked - n
  <1>1. s \in Ledger /\ m \in Int /\ k \in Int
    BY AccountTypes DEF Sound
  <1>2. [s EXCEPT !.balance = @ - n, !.banked = @ - n] = [s EXCEPT !.balance = m, !.banked = k]
    BY <1>1 DEF Ledger
  <1> HIDE DEF m, k
  <1> QED BY <1>1, <1>2, BookSound

LEMMA FreezeSound ==
    ASSUME NEW s, Sound(s), NEW n \in Int
    PROVE  Sound(Freeze(s, n))
  <1> DEFINE m == s.balance - n
             k == s.frozen + n
  <1>1. s \in Ledger /\ m \in Int /\ k \in Int /\ s.banked \in Int /\ s.exchange \in Nat
    BY AccountTypes DEF Sound
  <1>2. Freeze(s, n)
          = [s EXCEPT !.balance = m, !.frozen = k, !.banked = s.banked, !.exchange = s.exchange]
    BY <1>1 DEF Freeze, Ledger
  <1> HIDE DEF m, k
  <1>3. Sound([s EXCEPT !.balance = m, !.frozen = k, !.banked = s.banked,
                        !.exchange = s.exchange])
    BY <1>1, BalanceSound
  <1> QED BY ONLY <1>2, <1>3

LEMMA ExchangeSound ==
    ASSUME Now, NEW s, Sound(s), NEW g \in Grants, NEW n \in Nat
    PROVE  Sound(Exchange(s, g, n))
  <1> DEFINE t == [s EXCEPT !.balance = @ - n, !.banked = @ - n]
             m == n * ExchangeRate
  <1>1. Sound(t)
    <2>1. n \in Int
      OBVIOUS
    <2> QED BY <2>1, BankSound
  <1>2. m \in Nat /\ day \in Nat /\ Tomorrow \in Nat
    BY Ratios, Product DEF Now, Tomorrow
  <1>3. Exchange(s, g, n) = CreateGrant(t, g, m, day, Tomorrow)
    BY DEF Exchange
  <1> HIDE DEF t, m
  <1> QED BY <1>1, <1>2, <1>3, CreateGrantSound

LEMMA AutoExchangedSound ==
    ASSUME Now, NEW s, Sound(s), NEW t \in AutoExchanged(s)
    PROVE  Sound(t)
  <1> DEFINE r == Reconciled(s)
  <1>1. Sound(r) /\ r.exchange \in Nat
    BY ReconciledSound, AccountTypes DEF Sound
  <1>2. \/ t = s
        \/ t = r
        \/ \E g \in FreshGrants(r), k \in Rounds(r) : t = Exchange(r, g, k * r.exchange)
    BY DEF AutoExchanged
  <1> HIDE DEF r
  <1>3. CASE \E g \in FreshGrants(r), k \in Rounds(r) : t = Exchange(r, g, k * r.exchange)
    <2> PICK g \in FreshGrants(r), k \in Rounds(r) : t = Exchange(r, g, k * r.exchange)
      BY <1>3
    <2>1. k \in Nat /\ g \in Grants
      BY <1>1, AccountTypes DEF Rounds, FreshGrants, Sound
    <2>2. k * r.exchange \in Nat
      BY <1>1, <2>1, Product
    <2> QED BY <1>1, <2>1, <2>2, ExchangeSound
  <1> QED BY <1>1, <1>2, <1>3

---------------------------------------------------------------------------
(* The ledger: transactions. *)

ChargeRow == [taken : Credit, permanent : Nat, billed : BOOLEAN]

HoldRow == [status : {"none", "reserved", "captured", "released"},
            taken : Credit, permanent : Nat,
            captured : Nat, permanentCaptured : Nat, expired : Credit]

HoldsOK ==
    /\ hold \in [Jobs -> HoldRow]
    /\ \A j \in Jobs : hold[j].status # "captured" => hold[j].captured = 0

LedgerInv ==
    /\ Now /\ income \in Nat
    /\ Sound(ledger)
    /\ charge \in [Requests -> ChargeRow]
    /\ HoldsOK

LEMMA NothingType == Nothing \in Credit
  BY DEF Nothing, Credit

\* The credit a split takes can be taken.
LEMMA SpendableSound ==
    ASSUME NEW s, Sound(s), NEW n \in Nat, NEW d \in Split(s, UsableCredit(s), n)
    PROVE  /\ Sound(Consume(s, d.taken)) /\ Sound(SetAside(s, d.taken))
           /\ d.taken \in Credit /\ d.permanent \in Nat
  <1>1. /\ d.taken \in Credit /\ d.permanent \in Nat
        /\ \A g \in Grants : d.taken[g] <= UsableCredit(s)[g]
    BY SplitType
  <1>2. \A g \in Grants : d.taken[g] <= s.grant[g].remaining
    <2> SUFFICES ASSUME NEW g \in Grants PROVE d.taken[g] <= s.grant[g].remaining
      OBVIOUS
    <2>1. /\ UsableCredit(s)[g] \in Nat /\ UsableCredit(s)[g] <= s.grant[g].remaining
          /\ d.taken[g] \in Nat /\ s.grant[g].remaining \in Nat
      BY <1>1, UsableType, RowTypes DEF Sound, Credit
    <2> QED BY <1>1, <2>1
  <1> QED BY <1>1, <1>2, ConsumeSound, SetAsideSound

LEMMA ChargeKeeps ==
    ASSUME LedgerInv, NEW r \in Requests, Charge(r)
    PROVE  LedgerInv'
  <1> PICK s \in AutoExchanged(ledger) : \E d \in Split(s, UsableCredit(s), Cost[r]) :
         /\ ledger' = [Consume(s, d.taken) EXCEPT !.balance = @ - d.permanent]
         /\ charge' = [charge EXCEPT ![r] = [taken |-> d.taken, permanent |-> d.permanent,
                                             billed |-> TRUE]]
    BY DEF Charge
  <1> PICK d \in Split(s, UsableCredit(s), Cost[r]) :
         /\ ledger' = [Consume(s, d.taken) EXCEPT !.balance = @ - d.permanent]
         /\ charge' = [charge EXCEPT ![r] = [taken |-> d.taken, permanent |-> d.permanent,
                                             billed |-> TRUE]]
    OBVIOUS
  <1>1. Sound(s) /\ Cost[r] \in Nat
    BY AutoExchangedSound, LedgerAssumption DEF LedgerInv, LedgerAssumption, Positive
  <1>2. Sound(Consume(s, d.taken)) /\ d.taken \in Credit /\ d.permanent \in Nat
    BY <1>1, SpendableSound
  <1>3. Sound([Consume(s, d.taken) EXCEPT !.balance = @ - d.permanent])
    <2>1. d.permanent \in Int
      BY <1>2
    <2> QED BY <1>2, <2>1, SpendSound
  <1>4. Sound(ledger)'
    BY <1>3 DEF Sound, Agrees, Active, Ledger, Grant, Loan
  <1>5. charge' \in [Requests -> ChargeRow]
    BY <1>2 DEF LedgerInv, ChargeRow
  <1>6. UNCHANGED <<day, hold, income>>
    BY DEF Charge
  <1> QED BY <1>4, <1>5, <1>6 DEF LedgerInv, Now, HoldsOK

LEMMA ReserveKeeps ==
    ASSUME LedgerInv, NEW j \in Jobs, Reserve(j)
    PROVE  LedgerInv'
  <1> PICK s \in AutoExchanged(ledger) : \E d \in Split(s, UsableCredit(s), HoldAmount[j]) :
         /\ ledger' = Freeze(SetAside(s, d.taken), d.permanent)
         /\ hold' = [hold EXCEPT ![j].status = "reserved", ![j].taken = d.taken,
                                 ![j].permanent = d.permanent]
    BY DEF Reserve
  <1> PICK d \in Split(s, UsableCredit(s), HoldAmount[j]) :
         /\ ledger' = Freeze(SetAside(s, d.taken), d.permanent)
         /\ hold' = [hold EXCEPT ![j].status = "reserved", ![j].taken = d.taken,
                                 ![j].permanent = d.permanent]
    OBVIOUS
  <1>1. Sound(s) /\ HoldAmount[j] \in Nat
    BY AutoExchangedSound, LedgerAssumption DEF LedgerInv, LedgerAssumption, Positive
  <1>2. Sound(SetAside(s, d.taken)) /\ d.taken \in Credit /\ d.permanent \in Nat
    BY <1>1, SpendableSound
  <1>3. Sound(Freeze(SetAside(s, d.taken), d.permanent))
    <2>1. d.permanent \in Int
      BY <1>2
    <2> QED BY <1>2, <2>1, FreezeSound
  <1>4. Sound(ledger)'
    BY <1>3 DEF Sound, Agrees, Active, Ledger, Grant, Loan
  <1>5. hold[j].status = "none"
    BY DEF Reserve
  <1>6. HoldsOK'
    <2> DEFINE row == [hold[j] EXCEPT !.status = "reserved", !.taken = d.taken,
                                      !.permanent = d.permanent]
    <2>1. hold[j] \in HoldRow /\ hold[j].captured = 0 /\ hold' = [hold EXCEPT ![j] = row]
      BY <1>5 DEF LedgerInv, HoldsOK
    <2>2. row \in HoldRow /\ row.captured = 0
      BY <1>2, <2>1 DEF HoldRow
    <2> HIDE DEF row
    <2>3. hold' \in [Jobs -> HoldRow]
      BY <2>1, <2>2 DEF LedgerInv, HoldsOK
    <2>4. ASSUME NEW k \in Jobs, hold'[k].status # "captured" PROVE hold'[k].captured = 0
      BY <2>1, <2>2, <2>4 DEF LedgerInv, HoldsOK
    <2> QED BY <2>3, <2>4 DEF HoldsOK
  <1>7. UNCHANGED <<day, charge, income>>
    BY DEF Reserve
  <1> QED BY <1>4, <1>6, <1>7 DEF LedgerInv, Now

LEMMA SettleHoldKeeps ==
    ASSUME LedgerInv, NEW j \in Jobs, NEW status \in {"captured", "released"}, NEW n \in Nat,
           status = "released" => n = 0,
           SettleHold(j, status, n)
    PROVE  LedgerInv'
  <1> DEFINE Back(d) == Restored(ledger, j, d.taken)
             Grants1(d) == [g \in Grants |-> Moved(ledger.grant[g], Back(d)[g])]
             Consumed1(d) == [g \in Grants |-> ledger.consumed[g] + d.taken[g]]
             Expired(d) == [g \in Grants |-> hold[j].taken[g] - d.taken[g] - Back(d)[g]]
  <1> PICK d \in Split(ledger, hold[j].taken, n) :
         /\ ledger' = [ledger EXCEPT
              !.grant = Grants1(d), !.consumed = Consumed1(d),
              !.balance = @ + (hold[j].permanent - d.permanent),
              !.frozen = @ - hold[j].permanent]
         /\ hold' = [hold EXCEPT ![j] =
              [@ EXCEPT !.status = status, !.captured = n, !.permanentCaptured = d.permanent,
                        !.expired = Expired(d)]]
    BY DEF SettleHold
  <1>1. /\ d.taken \in Credit /\ d.permanent \in Nat
        /\ \A g \in Grants : d.taken[g] <= hold[j].taken[g]
    BY SplitType
  <1>2. /\ hold[j] \in HoldRow /\ hold[j].taken \in Credit /\ hold[j].permanent \in Nat
        /\ Sound(ledger) /\ ledger \in Ledger
    BY DEF LedgerInv, HoldsOK, HoldRow, Sound
  <1>3. \A g \in Grants : Back(d)[g] \in Nat /\ Back(d)[g] <= hold[j].taken[g] - d.taken[g]
    BY <1>1, <1>2 DEF Restored, Credit
  <1>4. Expired(d) \in Credit
    <2> SUFFICES ASSUME NEW g \in Grants
                 PROVE  hold[j].taken[g] - d.taken[g] - Back(d)[g] \in Nat
      BY DEF Credit
    <2>1. hold[j].taken[g] \in Nat /\ d.taken[g] \in Nat
      BY <1>1, <1>2 DEF Credit
    <2> HIDE DEF Back
    <2> QED BY <1>3, <2>1
  <1>5. Grants1(d) \in [Grants -> Grant]
    <2> SUFFICES ASSUME NEW g \in Grants
                 PROVE  Moved(ledger.grant[g], Back(d)[g]) \in Grant
      OBVIOUS
    <2> HIDE DEF Back
    <2>1. /\ ledger.grant[g] \in Grant /\ Back(d)[g] \in Int
          /\ ledger.grant[g].remaining + Back(d)[g] >= 0
      BY <1>2, <1>3, RowTypes
    <2> QED BY <2>1, MovedType
  <1>6. Consumed1(d) \in Credit
    BY <1>1, <1>2, AccountTypes, CreditSums
  <1> HIDE DEF Back, Grants1, Consumed1, Expired
  <1>7. Sound(ledger)'
    <2> DEFINE t == [ledger EXCEPT !.grant = Grants1(d), !.consumed = Consumed1(d)]
               m == ledger.balance + (hold[j].permanent - d.permanent)
               f == ledger.frozen - hold[j].permanent
    <2>1. Sound(t)
      BY <1>2, <1>5, <1>6, CreditSound
    <2>2. m \in Int /\ f \in Int /\ ledger.banked \in Int /\ ledger.exchange \in Nat
      BY <1>1, <1>2, AccountTypes
    <2>3. ledger' = [t EXCEPT !.balance = m, !.frozen = f, !.banked = ledger.banked,
                              !.exchange = ledger.exchange]
      BY <1>2 DEF Ledger
    <2> HIDE DEF t, m, f
    <2>4. Sound([t EXCEPT !.balance = m, !.frozen = f, !.banked = ledger.banked,
                          !.exchange = ledger.exchange])
      BY <2>1, <2>2, BalanceSound
    <2>5. Sound(ledger')
      BY ONLY <2>3, <2>4
    <2> QED BY <2>5 DEF Sound, Agrees, Active, Ledger, Grant, Loan
  <1>8. HoldsOK'
    <2> DEFINE e == Expired(d)
               row == [hold[j] EXCEPT !.status = status, !.captured = n,
                                      !.permanentCaptured = d.permanent, !.expired = e]
    <2> HIDE DEF e
    <2>1. e \in Credit /\ hold' = [hold EXCEPT ![j] = row]
      BY <1>2, <1>4 DEF e, LedgerInv, HoldsOK
    <2>2. row \in HoldRow /\ row.status = status /\ row.captured = n
      BY <1>1, <1>2, <2>1 DEF HoldRow
    <2> HIDE DEF row
    <2>3. hold' \in [Jobs -> HoldRow]
      BY <2>1, <2>2 DEF LedgerInv, HoldsOK
    <2>4. ASSUME NEW k \in Jobs, hold'[k].status # "captured" PROVE hold'[k].captured = 0
      BY <2>1, <2>2, <2>4 DEF LedgerInv, HoldsOK
    <2> QED BY <2>3, <2>4 DEF HoldsOK
  <1>9. UNCHANGED <<day, charge, income>>
    BY DEF SettleHold
  <1> QED BY <1>7, <1>8, <1>9 DEF LedgerInv, Now

\* The transactions that change only the rows of the user and its grants.
LEMMA RowsKeep ==
    ASSUME LedgerInv, NEW s, Sound(s), ledger' = s, OnlyLedger
    PROVE  LedgerInv'
  <1>1. Sound(ledger)'
    BY DEF Sound, Agrees, Active, Ledger, Grant, Loan
  <1> QED BY <1>1 DEF LedgerInv, Now, HoldsOK, OnlyLedger

LEMMA SettingType == ASSUME NEW amount \in ExchangeAmounts \cup {0} PROVE amount \in Nat
  <1>1. ExchangeAmounts \subseteq Positive
    BY LedgerAssumption DEF LedgerAssumption
  <1> QED BY <1>1 DEF Positive

LEMMA AmountType == ASSUME NEW n \in Amounts PROVE n \in Nat /\ n > 0
  BY LedgerAssumption DEF LedgerAssumption, Positive

LEMMA AdvanceKeeps ==
    ASSUME LedgerInv, NEW n \in Amounts, Advance(n)
    PROVE  LedgerInv'
  <1> PICK g \in FreshGrants(ledger) :
         ledger' = [CreateGrant(ledger, g, n, day, Tomorrow) EXCEPT
                      !.loan[g] = [status |-> "active", owed |-> n,
                                   swept |-> FALSE, unused |-> 0],
                      !.debt = @ + n,
                      !.due = Tomorrow + GraceDays]
    BY DEF Advance
  <1> DEFINE s == CreateGrant(ledger, g, n, day, Tomorrow)
             loan == [status |-> "active", owed |-> n, swept |-> FALSE, unused |-> 0]
             loans == [ledger.loan EXCEPT ![g] = loan]
             due == Tomorrow + GraceDays
             t == [s EXCEPT !.loan = loans, !.debt = n, !.due = due]
  <1>1. /\ g \in Grants /\ n \in Nat /\ n > 0 /\ ledger.debt = 0
        /\ \A h \in Grants : ~Active(ledger, h)
    BY AmountType DEF FreshGrants, Advance, Active
  <1>2. Sound(s) /\ due \in Nat /\ due # NoDue /\ Sound(ledger)
    <2>1. day \in Nat /\ Tomorrow \in Nat /\ Tomorrow > 0 /\ Sound(ledger)
      BY DEF LedgerInv, Now, Tomorrow
    <2>2. due \in Nat /\ due # NoDue
      BY <2>1, Ratios DEF NoDue
    <2> QED BY <1>1, <2>1, <2>2, CreateGrantSound
  <1>3. s.loan = ledger.loan /\ s.debt = 0 /\ s \in Ledger /\ ledger \in Ledger
    BY <1>1, <1>2 DEF CreateGrant, Sound, Ledger
  <1>4. loan \in Loan /\ loan.status = "active" /\ loan.owed = n
    BY <1>1 DEF Loan
  <1> HIDE DEF loan
  <1>5. loans \in [Grants -> Loan] /\ loans[g] = loan
    BY <1>1, <1>3, <1>4, AccountTypes
  <1>6. \A h \in Grants : h # g => loans[h] = ledger.loan[h]
    BY <1>3, AccountTypes
  <1> HIDE DEF s, due
  <1>7. [s EXCEPT !.loan[g] = loan, !.debt = @ + n, !.due = due] = t
    <2>1. s.debt + n = n /\ [s.loan EXCEPT ![g] = loan] = loans
      BY <1>1, <1>3
    <2> HIDE DEF loans
    <2>2. [s EXCEPT !.loan[g] = loan, !.debt = @ + n, !.due = due]
            = [s EXCEPT !.loan = [s.loan EXCEPT ![g] = loan], !.debt = s.debt + n, !.due = due]
      BY <1>3 DEF Ledger
    <2> QED BY ONLY <2>1, <2>2
  <1> HIDE DEF loans, t
  <1>8. t \in Ledger /\ t.loan = loans /\ t.debt = n /\ t.due = due
    BY <1>1, <1>2, <1>3, <1>5 DEF Ledger, t
  <1>9. \A h \in Grants : h # g => ~Active(t, h) /\ ~(t.loan[h].owed > 0)
    BY <1>1, <1>2, <1>6, <1>8 DEF Sound, Agrees, Active
  <1>10. Active(t, g) /\ t.loan[g].owed = n
    BY <1>4, <1>5, <1>8 DEF Active
  <1>11. Sound(t)
    BY <1>1, <1>2, <1>8, <1>9, <1>10 DEF Sound, Agrees
  <1>12. ledger' = t
    BY <1>7 DEF s, loan, due
  <1> QED BY <1>11, <1>12, RowsKeep DEF Advance

LEMMA ExchangeCreditKeeps ==
    ASSUME LedgerInv, NEW n \in Amounts, ExchangeCredit(n)
    PROVE  LedgerInv'
  <1> PICK g \in FreshGrants(Reconciled(ledger)) : ledger' = Exchange(Reconciled(ledger), g, n)
    BY DEF ExchangeCredit
  <1>1. Sound(Reconciled(ledger)) /\ Now /\ n \in Nat /\ g \in Grants
    BY ReconciledSound, AmountType DEF LedgerInv, FreshGrants
  <1>2. Sound(Exchange(Reconciled(ledger), g, n))
    BY <1>1, ExchangeSound
  <1> QED BY <1>2, RowsKeep DEF ExchangeCredit

LEMMA UsefulType ==
    ASSUME NEW n \in Nat, NEW debt \in Nat, NEW ratio \in Nat, ratio > 0
    PROVE  UsefulCredit(n, debt, ratio) \in Nat
  <1>1. (debt + ratio - 1) \div ratio \in Nat
    OBVIOUS
  <1> QED BY <1>1, LeastType DEF UsefulCredit

LEMMA RepayNothingKeeps ==
    ASSUME LedgerInv, RepayNothing
    PROVE  LedgerInv'
  <1>1. Sound(Reconciled(ledger))
    BY ReconciledSound DEF LedgerInv
  <1> QED BY <1>1, RowsKeep DEF RepayNothing

LEMMA RepayPermanentKeeps ==
    ASSUME LedgerInv, NEW n \in Amounts, RepayPermanent(n)
    PROVE  LedgerInv'
  <1> DEFINE r == Reconciled(ledger)
             use == UsefulCredit(n, r.debt, PermanentRatio)
             s == [r EXCEPT !.balance = @ - use, !.banked = @ - use]
  <1>1. Sound(r) /\ r.debt \in Nat
    BY ReconciledSound, AccountTypes DEF LedgerInv, Sound
  <1>2. ledger' = Repaid(s, use, PermanentRatio) /\ OnlyLedger
    BY DEF RepayPermanent
  <1> HIDE DEF r
  <1>3. use \in Nat
    BY <1>1, UsefulType, Ratios, AmountType
  <1> HIDE DEF use
  <1>4. Sound(s)
    <2>1. use \in Int
      BY <1>3
    <2> QED BY <1>1, <2>1, BankSound
  <1> HIDE DEF s
  <1>5. Sound(Repaid(s, use, PermanentRatio))
    BY <1>3, <1>4, RepaidSound, Ratios
  <1> QED BY <1>2, <1>5, RowsKeep

LEMMA RepayTemporaryKeeps ==
    ASSUME LedgerInv, NEW n \in Amounts, RepayTemporary(n)
    PROVE  LedgerInv'
  <1> DEFINE r == Reconciled(ledger)
             use == UsefulCredit(n, r.debt, TemporaryRatio)
  <1> PICK d \in Split(r, UsableCredit(r), use) :
         /\ d.permanent < use
         /\ ledger' = Repaid(Consume(r, d.taken), use - d.permanent, TemporaryRatio)
    BY DEF RepayTemporary
  <1>1. Sound(r) /\ r.debt \in Nat
    BY ReconciledSound, AccountTypes DEF LedgerInv, Sound
  <1> HIDE DEF r
  <1>2. use \in Nat
    BY <1>1, UsefulType, Ratios, AmountType
  <1> HIDE DEF use
  <1>3. Sound(Consume(r, d.taken)) /\ use - d.permanent \in Nat
    <2>1. Sound(Consume(r, d.taken)) /\ d.permanent \in Nat
      BY <1>1, <1>2, SpendableSound
    <2> QED BY <1>2, <2>1
  <1>4. Sound(Repaid(Consume(r, d.taken), use - d.permanent, TemporaryRatio))
    BY <1>3, RepaidSound, Ratios
  <1> QED BY <1>4, RowsKeep DEF RepayTemporary

LEMMA SetExchangeKeeps ==
    ASSUME LedgerInv, NEW amount \in ExchangeAmounts \cup {0}, SetExchange(amount)
    PROVE  LedgerInv'
  <1> DEFINE delta == Deposit(amount) - Deposit(ledger.exchange)
             s == Freeze(ledger, delta)
  <1>1. amount \in Nat
    BY SettingType
  <1>2. delta \in Int /\ Sound(ledger)
    BY <1>1, AccountTypes DEF Deposit, LedgerInv, Sound
  <1>3. ledger' = [s EXCEPT !.exchange = amount] /\ OnlyLedger
    BY DEF SetExchange
  <1> HIDE DEF delta
  <1>4. Sound(s)
    BY <1>2, FreezeSound
  <1> HIDE DEF s
  <1>5. s \in Ledger /\ s.balance \in Int /\ s.frozen \in Int /\ s.banked \in Int
    BY <1>4, AccountTypes DEF Sound
  <1>6. [s EXCEPT !.exchange = amount]
          = [s EXCEPT !.balance = s.balance, !.frozen = s.frozen, !.banked = s.banked,
                      !.exchange = amount]
    BY <1>5 DEF Ledger
  <1>7. Sound([s EXCEPT !.balance = s.balance, !.frozen = s.frozen, !.banked = s.banked,
                        !.exchange = amount])
    BY <1>1, <1>4, <1>5, BalanceSound
  <1>8. Sound([s EXCEPT !.exchange = amount])
    BY ONLY <1>6, <1>7
  <1> QED BY <1>3, <1>8, RowsKeep

LEMMA IssueKeeps ==
    ASSUME LedgerInv, NEW n \in Amounts, NEW from \in Nat, NEW until \in Nat,
           IssueGrant(n, from, until)
    PROVE  LedgerInv'
  <1> PICK g \in FreshGrants(ledger) : ledger' = CreateGrant(ledger, g, n, from, until)
    BY DEF IssueGrant
  <1>1. Sound(CreateGrant(ledger, g, n, from, until))
    BY AmountType, CreateGrantSound DEF LedgerInv, FreshGrants
  <1> QED BY <1>1, RowsKeep DEF IssueGrant

LEMMA PayInKeeps ==
    ASSUME LedgerInv, NEW n \in Amounts, PayIn(n)
    PROVE  LedgerInv'
  <1> DEFINE m == -n
  <1>1. Sound([ledger EXCEPT !.balance = @ - m])
    <2>1. m \in Int
      BY AmountType
    <2> HIDE DEF m
    <2> QED BY <2>1, SpendSound DEF LedgerInv
  <1>2. ledger' = [ledger EXCEPT !.balance = @ - m]
    BY AmountType, AccountTypes DEF PayIn, LedgerInv, Sound, Ledger
  <1>3. Sound(ledger)'
    BY <1>1, <1>2 DEF Sound, Agrees, Active, Ledger, Grant, Loan
  <1>4. income' \in Nat /\ UNCHANGED <<day, charge, hold>>
    BY AmountType DEF PayIn, LedgerInv
  <1> QED BY <1>3, <1>4 DEF LedgerInv, Now, HoldsOK

---------------------------------------------------------------------------
(* The ledger: what follows of rows, debt and holds. *)

LEMMA LedgerInitInv == LedgerInit => LedgerInv
  <1> SUFFICES ASSUME LedgerInit PROVE LedgerInv
    OBVIOUS
  <1>1. ledger \in Ledger
    BY NothingType DEF LedgerInit, Ledger, Grant, Loan, NoDue
  <1>2. Agrees(ledger)
    BY DEF LedgerInit, Agrees, Active, NoDue
  <1>3. charge \in [Requests -> ChargeRow]
    BY NothingType DEF LedgerInit, NoCharge, ChargeRow, Nothing
  <1>4. HoldsOK
    BY NothingType DEF LedgerInit, HoldsOK, HoldRow, NoHold
  <1> QED BY <1>1, <1>2, <1>3, <1>4 DEF LedgerInit, LedgerInv, Now, Sound

LEMMA CaptureKeeps ==
    ASSUME LedgerInv, NEW j \in Jobs, Capture(j)
    PROVE  LedgerInv'
  <1> PICK n \in 0..HoldAmount[j] : SettleHold(j, "captured", n)
    BY DEF Capture
  <1>1. n \in Nat
    BY LedgerAssumption DEF LedgerAssumption, Positive
  <1> QED BY <1>1, SettleHoldKeeps

LEMMA ReleaseKeeps ==
    ASSUME LedgerInv, NEW j \in Jobs, Release(j)
    PROVE  LedgerInv'
  BY SettleHoldKeeps DEF Release

LEMMA LedgerNextInv == LedgerInv /\ [LedgerNext]_ledgerVars => LedgerInv'
  <1> SUFFICES ASSUME LedgerInv, [LedgerNext]_ledgerVars PROVE LedgerInv'
    OBVIOUS
  <1>1. CASE UNCHANGED ledgerVars
    BY <1>1 DEF ledgerVars, LedgerInv, Now, HoldsOK, Sound, Agrees, Active, Ledger, Grant, Loan
  <1>2. CASE Bill
    BY <1>2, ChargeKeeps, ReserveKeeps, CaptureKeeps, ReleaseKeeps DEF Bill
  <1>3. CASE Repay
    BY <1>3, RepayNothingKeeps, RepayPermanentKeeps, RepayTemporaryKeeps DEF Repay
  <1>4. CASE \E n \in Amounts : Advance(n) \/ ExchangeCredit(n) \/ PayIn(n)
    BY <1>4, AdvanceKeeps, ExchangeCreditKeeps, PayInKeeps
  <1>5. CASE \E amount \in ExchangeAmounts \cup {0} : SetExchange(amount)
    BY <1>5, SetExchangeKeeps
  <1>6. CASE SettleDue
    <2>1. Sound(Reconciled(ledger))
      BY ReconciledSound DEF LedgerInv
    <2> QED BY <1>6, <2>1, RowsKeep DEF SettleDue
  <1>7. CASE AutoExchangeIfNeeded
    <2> PICK s \in AutoExchanged(ledger) : ledger' = s
      BY <1>7 DEF AutoExchangeIfNeeded
    <2>1. Sound(s)
      BY AutoExchangedSound DEF LedgerInv
    <2> QED BY <1>7, <2>1, RowsKeep DEF AutoExchangeIfNeeded
  <1>8. CASE Issue
    <2> PICK n \in Amounts, from \in {day, Tomorrow}, until \in {Tomorrow, Tomorrow + 1} :
          IssueGrant(n, from, until)
      BY <1>8 DEF Issue
    <2>1. from \in Nat /\ until \in Nat
      BY DEF LedgerInv, Now, Tomorrow
    <2> QED BY <2>1, IssueKeeps
  <1>9. CASE NextDay
    BY <1>9 DEF NextDay, LedgerInv, Now, HoldsOK, Sound, Agrees, Active, Ledger, Grant, Loan
  <1> QED BY <1>1, <1>2, <1>3, <1>4, <1>5, <1>6, <1>7, <1>8, <1>9 DEF LedgerNext

LEMMA LedgerInvariant == LedgerSpec => []LedgerInv
  BY LedgerInitInv, LedgerNextInv, PTL DEF LedgerSpec

(* Whatever the ratios, the days of grace and the amounts: neither a grant  *)
(* nor a debt, a charge or a hold of the user ever goes below zero          *)
(* (updateTemporaryCreditGrant, settleUnusedAdvanceLocked, RepayAtomic).    *)
THEOREM LedgerTypes == LedgerSpec => []LedgerTypeOK
  <1>1. LedgerInv => LedgerTypeOK
    BY DEF LedgerInv, Now, Sound, HoldsOK, ChargeRow, HoldRow, LedgerTypeOK
  <1> QED BY <1>1, LedgerInvariant, PTL

(* The debt of the user and the loan rows agree after every transaction of *)
(* the bank, whichever of repayment, unused credit and forced settlement   *)
(* reduced them (RepayAtomic, settleUnusedAdvanceLocked,                   *)
(* settleBankDebtLocked).                                                  *)
THEOREM DebtAgrees == LedgerSpec => []DebtIsOwed
  <1>1. LedgerInv => DebtIsOwed
    BY DEF LedgerInv, Sound, Agrees, Active, DebtIsOwed
  <1> QED BY <1>1, LedgerInvariant, PTL

LEMMA HoldsInitPromise == LedgerInit => Promise!HoldPromiseInit
  BY DEF LedgerInit, NoHold, Promise!HoldPromiseInit

LEMMA ReservePromised ==
    ASSUME LedgerInv, NEW j \in Jobs, Reserve(j)
    PROVE  Promise!Hold(j)
  <1>1. /\ hold[j].status = "none" /\ hold \in [Jobs -> HoldRow]
        /\ \E t \in Credit, p \in Nat :
             hold' = [hold EXCEPT ![j].status = "reserved", ![j].taken = t, ![j].permanent = p]
    <2> PICK s \in AutoExchanged(ledger) : \E d \in Split(s, UsableCredit(s), HoldAmount[j]) :
          hold' = [hold EXCEPT ![j].status = "reserved", ![j].taken = d.taken,
                               ![j].permanent = d.permanent]
      BY DEF Reserve
    <2> PICK d \in Split(s, UsableCredit(s), HoldAmount[j]) :
          hold' = [hold EXCEPT ![j].status = "reserved", ![j].taken = d.taken,
                               ![j].permanent = d.permanent]
      OBVIOUS
    <2>1. HoldAmount[j] \in Nat
      BY LedgerAssumption DEF LedgerAssumption, Positive
    <2>2. d.taken \in Credit /\ d.permanent \in Nat
      BY <2>1, SplitType
    <2> QED BY <2>2 DEF Reserve, LedgerInv, HoldsOK
  <1>2. \A k \in Jobs : /\ hold'[k].status = IF k = j THEN "reserved" ELSE hold[k].status
                        /\ hold'[k].captured = hold[k].captured
    BY <1>1 DEF HoldRow
  <1> QED BY <1>1, <1>2 DEF Promise!Hold

LEMMA SettlePromised ==
    ASSUME LedgerInv, NEW j \in Jobs, NEW status, NEW n, SettleHold(j, status, n)
    PROVE  /\ hold[j].status = "reserved" /\ hold[j].captured = 0
           /\ \A k \in Jobs : /\ hold'[k].status = IF k = j THEN status ELSE hold[k].status
                              /\ hold'[k].captured = IF k = j THEN n ELSE hold[k].captured
  <1>1. hold \in [Jobs -> HoldRow] /\ hold[j].status = "reserved" /\ hold[j].captured = 0
    BY DEF SettleHold, LedgerInv, HoldsOK
  <1>2. \E p, e : hold' = [hold EXCEPT ![j] =
          [@ EXCEPT !.status = status, !.captured = n, !.permanentCaptured = p, !.expired = e]]
    BY DEF SettleHold
  <1> PICK p, e : hold' = [hold EXCEPT ![j] =
          [@ EXCEPT !.status = status, !.captured = n, !.permanentCaptured = p, !.expired = e]]
    BY <1>2
  <1> QED BY <1>1 DEF HoldRow

LEMMA CapturePromised ==
    ASSUME LedgerInv, NEW j \in Jobs, Capture(j)
    PROVE  Promise!ChargeHold(j)
  <1> PICK n \in 0..HoldAmount[j] : SettleHold(j, "captured", n)
    BY DEF Capture
  <1>1. /\ hold[j].status = "reserved"
        /\ \A k \in Jobs : /\ hold'[k].status = IF k = j THEN "captured" ELSE hold[k].status
                           /\ hold'[k].captured = IF k = j THEN n ELSE hold[k].captured
    BY SettlePromised
  <1> QED BY <1>1 DEF Promise!ChargeHold

LEMMA ReleasePromised ==
    ASSUME LedgerInv, NEW j \in Jobs, Release(j)
    PROVE  Promise!GiveUp(j)
  <1>1. /\ hold[j].status = "reserved" /\ hold[j].captured = 0
        /\ \A k \in Jobs : /\ hold'[k].status = IF k = j THEN "released" ELSE hold[k].status
                           /\ hold'[k].captured = IF k = j THEN 0 ELSE hold[k].captured
    BY SettlePromised DEF Release
  <1> QED BY <1>1 DEF Promise!GiveUp

LEMMA HoldsNextPromise ==
    LedgerInv /\ [LedgerNext]_ledgerVars
      => [Promise!HoldPromiseNext]_(Promise!holdPromiseVars)
  <1> SUFFICES ASSUME LedgerInv, [LedgerNext]_ledgerVars
               PROVE  [Promise!HoldPromiseNext]_(Promise!holdPromiseVars)
    OBVIOUS
  <1>1. CASE UNCHANGED hold
    BY <1>1 DEF Promise!holdPromiseVars
  <1>2. CASE \E j \in Jobs : Reserve(j) \/ Capture(j) \/ Release(j)
    BY <1>2, ReservePromised, CapturePromised, ReleasePromised DEF Promise!HoldPromiseNext
  <1>3. UNCHANGED hold \/ \E j \in Jobs : Reserve(j) \/ Capture(j) \/ Release(j)
    BY DEF LedgerNext, ledgerVars, Bill, Charge, Repay, RepayNothing, RepayPermanent,
           RepayTemporary, Advance, ExchangeCredit, PayIn, SetExchange, SettleDue,
           AutoExchangeIfNeeded, Issue, IssueGrant, NextDay, OnlyLedger
  <1> QED BY <1>1, <1>2, <1>3

(* Credit is held once for a job and then charged, once and for no more    *)
(* than was held, or given up, for any number of jobs and any hold amounts *)
(* (reserveBatchImageCreditHold, settleBatchImageCreditHold).              *)
THEOREM HoldsPromised == LedgerSpec => KeepsHoldPromise
  <1>1. LedgerInit => Promise!HoldPromiseInit
    BY HoldsInitPromise
  <1>2. LedgerInv /\ [LedgerNext]_ledgerVars
          => [Promise!HoldPromiseNext]_(Promise!holdPromiseVars)
    BY HoldsNextPromise
  <1> QED BY <1>1, <1>2, LedgerInvariant, PTL
          DEF LedgerSpec, KeepsHoldPromise, Promise!HoldPromiseSpec

---------------------------------------------------------------------------
(* The books: what a change of the rows does to the sums the invariants     *)
(* are about, and to the grants.                                           *)

\* What the bank did not book, what is frozen beside the deposit, and what
\* is neither left of a grant nor used up: the jobs have it.
Unbooked(s)  == s.balance + s.frozen - s.banked
Reserved(s)  == s.frozen - Deposit(s.exchange)
WithJobs(s, g) ==
    s.grant[g].amount - s.grant[g].remaining - s.consumed[g] - s.loan[g].unused

InWindow(row) == row.available <= day /\ day < row.expires

\* A grant that exists keeps its amount, its window and its loan; its credit
\* moves within the window, or the bank takes the rest of an advance.
KeepsGrant(s, t, g) ==
    /\ t.grant[g].amount = s.grant[g].amount
    /\ t.grant[g].available = s.grant[g].available
    /\ t.grant[g].expires = s.grant[g].expires
    /\ t.loan[g].status = "none" <=> s.loan[g].status = "none"
    /\ t.grant[g].remaining # s.grant[g].remaining =>
          \/ InWindow(s.grant[g])
          \/ s.loan[g].status # "none" /\ t.grant[g].remaining = 0

Changes(s, t, b, f, c) ==
    /\ Unbooked(t) = Unbooked(s) + b
    /\ Reserved(t) = Reserved(s) + f
    /\ \A g \in Grants : /\ WithJobs(t, g) = WithJobs(s, g) + c[g]
                         /\ s.grant[g].amount > 0 => KeepsGrant(s, t, g)

\* Unused credit is on record once it was settled; no credit is used twice.
Tidy(s) ==
    \A g \in Grants : /\ ~s.loan[g].swept => s.loan[g].unused = 0
                      /\ WithJobs(s, g) >= 0

Sorted(s) == Sound(s) /\ Tidy(s)

\* What stays within the bank.
Settles(s, t) == Changes(s, t, 0, 0, Nothing) /\ Tidy(t)

LEMMA BookTypes ==
    ASSUME NEW s \in Ledger
    PROVE  /\ Unbooked(s) \in Int /\ Reserved(s) \in Int
           /\ \A g \in Grants : /\ WithJobs(s, g) \in Int
                                /\ s.grant[g].amount \in Nat /\ s.grant[g].remaining \in Nat
                                /\ s.grant[g].available \in Nat /\ s.grant[g].expires \in Nat
                                /\ s.consumed[g] \in Nat /\ s.loan[g].unused \in Nat
  <1>1. \A g \in Grants : /\ s.grant[g].amount \in Nat /\ s.grant[g].remaining \in Nat
                          /\ s.grant[g].available \in Nat /\ s.grant[g].expires \in Nat
                          /\ s.consumed[g] \in Nat /\ s.loan[g].unused \in Nat
    BY DEF Ledger, Grant, Loan, Credit
  <1>2. s.balance \in Int /\ s.frozen \in Int /\ s.banked \in Int /\ s.exchange \in Nat
    BY AccountTypes
  <1> QED BY <1>1, <1>2 DEF Unbooked, Reserved, WithJobs, Deposit

\* One change after another.
LEMMA ChangesAfter ==
    ASSUME NEW s \in Ledger, NEW r \in Ledger, NEW t \in Ledger, NEW b \in Int, NEW f \in Int,
           NEW c \in [Grants -> Int], Changes(s, r, 0, 0, Nothing), Changes(r, t, b, f, c)
    PROVE  Changes(s, t, b, f, c)
  <1>1. Unbooked(t) = Unbooked(s) + b /\ Reserved(t) = Reserved(s) + f
    BY BookTypes DEF Changes
  <1>2. ASSUME NEW g \in Grants PROVE WithJobs(t, g) = WithJobs(s, g) + c[g]
    <2>1. WithJobs(r, g) = WithJobs(s, g) /\ WithJobs(s, g) \in Int
      BY BookTypes DEF Changes, Nothing
    <2> QED BY <2>1 DEF Changes
  <1>3. ASSUME NEW g \in Grants, s.grant[g].amount > 0 PROVE KeepsGrant(s, t, g)
    <2>1. KeepsGrant(s, r, g)
      BY <1>3 DEF Changes
    <2>2. KeepsGrant(r, t, g)
      BY <1>3, <2>1 DEF Changes, KeepsGrant
    <2> QED BY <2>1, <2>2 DEF KeepsGrant, InWindow
  <1> QED BY <1>1, <1>2, <1>3 DEF Changes

LEMMA SettlesAfter ==
    ASSUME NEW s \in Ledger, NEW r \in Ledger, NEW t \in Ledger, Settles(s, r), Settles(r, t)
    PROVE  Settles(s, t)
  <1>1. Nothing \in [Grants -> Int]
    BY DEF Nothing
  <1> QED BY <1>1, ChangesAfter DEF Settles

\* As long as grants and loans stay, and what is booked of the balance.
LEMMA SameRowsSettle ==
    ASSUME NEW s, Sorted(s), NEW t \in Ledger,
           Unbooked(t) = Unbooked(s), Reserved(t) = Reserved(s),
           t.grant = s.grant, t.consumed = s.consumed,
           \A g \in Grants : /\ t.loan[g].swept = s.loan[g].swept
                             /\ t.loan[g].unused = s.loan[g].unused
                             /\ t.loan[g].status = "none" <=> s.loan[g].status = "none"
    PROVE  Settles(s, t)
  <1>1. \A g \in Grants : WithJobs(t, g) = WithJobs(s, g)
    BY DEF WithJobs
  <1>2. \A g \in Grants : WithJobs(s, g) \in Int
    BY BookTypes DEF Sorted, Sound
  <1>3. Unbooked(s) \in Int /\ Reserved(s) \in Int
    BY BookTypes DEF Sorted, Sound
  <1>4. \A g \in Grants : KeepsGrant(s, t, g)
    BY DEF KeepsGrant
  <1>5. Changes(s, t, 0, 0, Nothing)
    BY <1>1, <1>2, <1>3, <1>4 DEF Changes, Nothing
  <1>6. Tidy(t)
    BY <1>1 DEF Tidy, Sorted
  <1> QED BY <1>5, <1>6 DEF Settles

LEMMA CreateGrantSettles ==
    ASSUME Now, NEW s, Sorted(s), NEW g \in FreshGrants(s), NEW n \in Nat, NEW from \in Nat, NEW until \in Nat
    PROVE  Settles(s, CreateGrant(s, g, n, from, until))
  <1> DEFINE t == CreateGrant(s, g, n, from, until)
  <1>1. /\ s \in Ledger /\ g \in Grants /\ s.grant[g].amount = 0
    BY DEF Sorted, Sound, FreshGrants
  <1>2. t \in Ledger
    BY <1>1, CreateGrantSound DEF Sorted, Sound
  <1>3. /\ t.balance = s.balance /\ t.frozen = s.frozen /\ t.banked = s.banked
        /\ t.exchange = s.exchange /\ t.consumed = s.consumed /\ t.loan = s.loan
        /\ t.grant = [s.grant EXCEPT ![g] = [amount |-> n, remaining |-> n,
                                             available |-> from, expires |-> until]]
    BY <1>1 DEF CreateGrant, Ledger
  <1> HIDE DEF t
  <1>4. /\ t.grant[g].amount = n /\ t.grant[g].remaining = n
        /\ \A h \in Grants : h # g => t.grant[h] = s.grant[h]
    BY <1>1, <1>3, AccountTypes
  <1>5. \A h \in Grants : /\ WithJobs(s, h) \in Int /\ WithJobs(s, h) >= 0
                          /\ s.grant[h].remaining \in Nat
                          /\ s.consumed[h] \in Nat /\ s.loan[h].unused \in Nat
    BY <1>1, BookTypes DEF Sorted, Tidy
  <1>6. s.consumed[g] = 0 /\ s.loan[g].unused = 0 /\ s.grant[g].remaining = 0
    BY <1>1, <1>5 DEF WithJobs
  <1>7. WithJobs(t, g) = WithJobs(s, g)
    BY <1>1, <1>3, <1>4, <1>6 DEF WithJobs
  <1>8. \A h \in Grants : WithJobs(t, h) = WithJobs(s, h)
    BY <1>3, <1>4, <1>7 DEF WithJobs
  <1>9. Unbooked(s) \in Int /\ Reserved(s) \in Int
    BY <1>1, BookTypes
  <1>10. Unbooked(t) = Unbooked(s) /\ Reserved(t) = Reserved(s)
    BY <1>3 DEF Unbooked, Reserved
  <1>11. \A h \in Grants : s.grant[h].amount > 0 => KeepsGrant(s, t, h)
    BY <1>1, <1>3, <1>4 DEF KeepsGrant
  <1>12. Changes(s, t, 0, 0, Nothing)
    BY <1>5, <1>8, <1>9, <1>10, <1>11 DEF Changes, Nothing
  <1>13. Tidy(t)
    BY <1>3, <1>8 DEF Tidy, Sorted
  <1> QED BY <1>12, <1>13 DEF Settles, t

\* Balance and frozen balance move against each other, or the bank books it.
LEMMA BankSettles ==
    ASSUME NEW s, Sorted(s), NEW n \in Int
    PROVE  Settles(s, [s EXCEPT !.balance = @ - n, !.banked = @ - n])
  <1> DEFINE t == [s EXCEPT !.balance = @ - n, !.banked = @ - n]
  <1>1. s \in Ledger /\ t \in Ledger
    BY BankSound DEF Sorted, Sound
  <1>2. /\ t.balance = s.balance - n /\ t.banked = s.banked - n
        /\ t.frozen = s.frozen /\ t.exchange = s.exchange
        /\ t.grant = s.grant /\ t.consumed = s.consumed /\ t.loan = s.loan
    BY <1>1 DEF Ledger
  <1> HIDE DEF t
  <1>3. Unbooked(t) = Unbooked(s) /\ Reserved(t) = Reserved(s)
    BY <1>1, <1>2, AccountTypes DEF Unbooked, Reserved
  <1>4. Settles(s, t)
    BY <1>1, <1>2, <1>3, SameRowsSettle
  <1> QED BY <1>4 DEF t

---------------------------------------------------------------------------
(* The books: debt. *)

LEMMA ReduceDebtRest ==
    ASSUME NEW s \in Ledger, NEW n
    PROVE  LET t == ReduceDebt(s, n) IN
           /\ t.balance = s.balance /\ t.frozen = s.frozen /\ t.banked = s.banked
           /\ t.exchange = s.exchange /\ t.grant = s.grant /\ t.consumed = s.consumed
           /\ t.loan = s.loan
  BY DEF ReduceDebt, Ledger

LEMMA ReduceLoanRest ==
    ASSUME NEW loan \in Loan, NEW n
    PROVE  LET t == ReduceLoan(loan, n) IN
           /\ t.swept = loan.swept /\ t.unused = loan.unused
           /\ loan.status # "none" => t.status # "none"
  BY DEF ReduceLoan, Loan

LEMMA SettleUnusedSettles ==
    ASSUME NEW s, Sorted(s)
    PROVE  Settles(s, SettleUnused(s))
  <1> DEFINE owing == {g \in Lapsed(s) : s.loan[g].owed > 0}
             reduced == IF owing = {} THEN s
                        ELSE ReduceDebt(s, UnusedReduction(s, CHOOSE g \in owing : TRUE))
             t == SettleUnused(s)
             Loan1(g) == [ReduceLoan(s.loan[g], UnusedReduction(s, g)) EXCEPT
                            !.swept = TRUE, !.unused = s.grant[g].remaining]
  <1>1. s \in Ledger /\ t \in Ledger
    BY SettleUnusedSound DEF Sorted, Sound
  <1>2. /\ reduced.balance = s.balance /\ reduced.frozen = s.frozen
        /\ reduced.banked = s.banked /\ reduced.exchange = s.exchange
        /\ reduced.grant = s.grant /\ reduced.consumed = s.consumed /\ reduced.loan = s.loan
    BY <1>1, ReduceDebtRest
  <1>3. reduced = s \/ \E n : reduced = ReduceDebt(s, n)
    OBVIOUS
  <1>4. t = [reduced EXCEPT
               !.grant = [g \in Grants |-> IF g \in Lapsed(s)
                                           THEN [reduced.grant[g] EXCEPT !.remaining = 0]
                                           ELSE reduced.grant[g]],
               !.loan = [g \in Grants |-> IF g \in Lapsed(s) THEN
                                [ReduceLoan(reduced.loan[g], UnusedReduction(s, g)) EXCEPT
                                   !.swept = TRUE, !.unused = s.grant[g].remaining]
                              ELSE reduced.loan[g]]]
    BY <1>1, <1>3 DEF SettleUnused, ReduceDebt, Ledger
  <1>5. /\ t.balance = s.balance /\ t.frozen = s.frozen /\ t.banked = s.banked
        /\ t.exchange = s.exchange /\ t.consumed = s.consumed
        /\ \A g \in Grants : g \in Lapsed(s) =>
              /\ t.grant[g] = [s.grant[g] EXCEPT !.remaining = 0]
              /\ t.loan[g] = Loan1(g)
        /\ \A g \in Grants : g \notin Lapsed(s) =>
              t.grant[g] = s.grant[g] /\ t.loan[g] = s.loan[g]
    <2> DEFINE c == CHOOSE g \in owing : TRUE
    <2>1. reduced \in Ledger
      <3>1. CASE owing = {}
        BY <1>1, <3>1
      <3>2. CASE owing # {}
        <4>1. c \in Grants
          BY <3>2 DEF Lapsed
        <4> HIDE DEF c
        <4>2. ReduceDebt(s, UnusedReduction(s, c)) \in Ledger
          BY <1>1, <4>1, ReductionType, ReduceDebtType
        <4> QED BY <3>2, <4>2 DEF c
      <3> QED BY <3>1, <3>2
    <2> HIDE DEF reduced, t
    <2> QED BY <1>2, <1>4, <2>1 DEF Ledger
  <1>6. ASSUME NEW g \in Grants, g \in Lapsed(s)
        PROVE  /\ t.grant[g].amount = s.grant[g].amount /\ t.grant[g].remaining = 0
               /\ t.grant[g].available = s.grant[g].available
               /\ t.grant[g].expires = s.grant[g].expires
               /\ t.loan[g].swept /\ t.loan[g].unused = s.grant[g].remaining
               /\ t.loan[g].status # "none" /\ s.loan[g].status # "none"
               /\ s.loan[g].unused = 0
    <2>1. /\ s.grant[g] \in Grant /\ s.loan[g] \in Loan
          /\ s.loan[g].status \in {"active", "repaid"} /\ ~s.loan[g].swept
      BY <1>1, <1>6, RowTypes DEF Lapsed
    <2>2. /\ ReduceLoan(s.loan[g], UnusedReduction(s, g)).status # "none"
          /\ Loan1(g).swept /\ Loan1(g).unused = s.grant[g].remaining
          /\ Loan1(g).status = ReduceLoan(s.loan[g], UnusedReduction(s, g)).status
      BY <2>1 DEF ReduceLoan, Loan
    <2>3. s.loan[g].unused = 0
      BY <2>1 DEF Sorted, Tidy
    <2>4. t.grant[g] = [s.grant[g] EXCEPT !.remaining = 0] /\ t.loan[g] = Loan1(g)
      BY <1>5, <1>6
    <2> HIDE DEF t, Loan1
    <2> QED BY <2>1, <2>2, <2>3, <2>4 DEF Grant
  <1> HIDE DEF t
  <1>7. \A g \in Grants : /\ WithJobs(s, g) \in Int
                          /\ s.grant[g].amount \in Nat /\ s.grant[g].remaining \in Nat
                          /\ s.consumed[g] \in Nat /\ s.loan[g].unused \in Nat
    BY <1>1, BookTypes
  <1>8. ASSUME NEW g \in Grants
        PROVE  WithJobs(t, g) = WithJobs(s, g) /\ KeepsGrant(s, t, g)
    <2>1. CASE g \in Lapsed(s)
      <3>1. KeepsGrant(s, t, g)
        BY <1>6, <2>1 DEF KeepsGrant
      <3>2. /\ t.grant[g].amount = s.grant[g].amount /\ t.grant[g].remaining = 0
            /\ t.loan[g].unused = s.grant[g].remaining /\ s.loan[g].unused = 0
            /\ t.consumed = s.consumed
        BY <1>5, <1>6, <2>1
      <3>3. WithJobs(t, g) = WithJobs(s, g)
        BY <1>7, <3>2 DEF WithJobs
      <3> QED BY <3>1, <3>3
    <2>2. CASE g \notin Lapsed(s)
      BY <1>5, <2>2 DEF WithJobs, KeepsGrant
    <2> QED BY <2>1, <2>2
  <1>9. Unbooked(s) \in Int /\ Reserved(s) \in Int
    BY <1>1, BookTypes
  <1>10. Unbooked(t) = Unbooked(s) /\ Reserved(t) = Reserved(s)
    BY <1>5 DEF Unbooked, Reserved
  <1>11. Changes(s, t, 0, 0, Nothing)
    BY <1>7, <1>8, <1>9, <1>10 DEF Changes, Nothing
  <1>12. Tidy(t)
    <2> SUFFICES ASSUME NEW g \in Grants
                 PROVE  (~t.loan[g].swept => t.loan[g].unused = 0) /\ WithJobs(t, g) >= 0
      BY DEF Tidy
    <2>1. ~t.loan[g].swept => t.loan[g].unused = 0
      BY <1>5, <1>6 DEF Sorted, Tidy
    <2> QED BY <1>8, <2>1 DEF Sorted, Tidy
  <1> QED BY <1>11, <1>12 DEF Settles, t

LEMMA SettleDebtSettles ==
    ASSUME NEW s, Sorted(s)
    PROVE  Settles(s, SettleDebt(s))
  <1> DEFINE t == SettleDebt(s)
             m == s.debt * ConversionRatio
  <1>1. s \in Ledger /\ t \in Ledger
    BY SettleDebtSound DEF Sorted, Sound
  <1>2. CASE ~Due(s)
    <2>1. t = s
      BY <1>2 DEF SettleDebt
    <2> HIDE DEF t
    <2>2. Settles(s, t)
      BY <1>1, <2>1, SameRowsSettle
    <2> QED BY <2>2 DEF t
  <1>3. CASE Due(s)
    <2>1. /\ t.balance = s.balance - m /\ t.banked = s.banked - m
          /\ t.frozen = s.frozen /\ t.exchange = s.exchange
          /\ t.grant = s.grant /\ t.consumed = s.consumed
          /\ \A g \in Grants : t.loan[g] = IF s.loan[g].status = "active"
                                 THEN [s.loan[g] EXCEPT !.status = "settled", !.owed = 0]
                                 ELSE s.loan[g]
      BY <1>1, <1>3 DEF SettleDebt, Ledger
    <2>2. m \in Int
      BY <1>1, AccountTypes, Ratios, Product
    <2> HIDE DEF t, m
    <2>3. \A g \in Grants : /\ t.loan[g].swept = s.loan[g].swept
                            /\ t.loan[g].unused = s.loan[g].unused
                            /\ t.loan[g].status = "none" <=> s.loan[g].status = "none"
      <3> SUFFICES ASSUME NEW g \in Grants
                   PROVE  /\ t.loan[g].swept = s.loan[g].swept
                          /\ t.loan[g].unused = s.loan[g].unused
                          /\ t.loan[g].status = "none" <=> s.loan[g].status = "none"
        OBVIOUS
      <3>1. s.loan[g] \in Loan
        BY <1>1, RowTypes
      <3>2. t.loan[g] = IF s.loan[g].status = "active"
                        THEN [s.loan[g] EXCEPT !.status = "settled", !.owed = 0]
                        ELSE s.loan[g]
        BY <2>1
      <3> QED BY ONLY <3>1, <3>2 DEF Loan
    <2>4. Unbooked(t) = Unbooked(s) /\ Reserved(t) = Reserved(s)
      <3>1. /\ t.balance = s.balance - m /\ t.banked = s.banked - m
            /\ t.frozen = s.frozen /\ t.exchange = s.exchange
        BY <2>1
      <3>2. s.balance \in Int /\ s.frozen \in Int /\ s.banked \in Int
        BY <1>1, AccountTypes
      <3> QED BY <2>2, <3>1, <3>2 DEF Unbooked, Reserved
    <2>5. Settles(s, t)
      BY <1>1, <2>1, <2>3, <2>4, SameRowsSettle
    <2> QED BY <2>5 DEF t
  <1> QED BY <1>2, <1>3

LEMMA ReconciledSettles ==
    ASSUME NEW s, Sorted(s)
    PROVE  Sorted(Reconciled(s)) /\ Settles(s, Reconciled(s))
  <1> DEFINE r == SettleUnused(s)
             t == SettleDebt(r)
  <1>1. Sorted(r) /\ Settles(s, r)
    BY SettleUnusedSound, SettleUnusedSettles DEF Sorted, Settles
  <1> HIDE DEF r
  <1>2. Sorted(t) /\ Settles(r, t)
    BY <1>1, SettleDebtSound, SettleDebtSettles DEF Sorted, Settles
  <1> HIDE DEF t
  <1>3. Settles(s, t)
    BY <1>1, <1>2, SettlesAfter DEF Sorted, Sound
  <1> QED BY <1>2, <1>3 DEF Reconciled, r, t

LEMMA RepaidSettles ==
    ASSUME NEW s, Sorted(s), NEW n \in Nat, NEW ratio \in Nat
    PROVE  Settles(s, Repaid(s, n, ratio))
  <1> DEFINE reduction == Least(n * ratio, s.debt)
             r == ReduceDebt(s, reduction)
             t == Repaid(s, n, ratio)
  <1>1. s \in Ledger /\ t \in Ledger
    BY RepaidSound DEF Sorted, Sound
  <1>2. /\ r.balance = s.balance /\ r.frozen = s.frozen
        /\ r.banked = s.banked /\ r.exchange = s.exchange
        /\ r.grant = s.grant /\ r.consumed = s.consumed /\ r.loan = s.loan
    BY <1>1, ReduceDebtRest
  <1>3. r \in Ledger
    BY <1>1, AccountTypes, Product, LeastType, ReduceDebtType
  <1>4. t = [r EXCEPT !.loan = [g \in Grants |-> IF r.loan[g].status = "active"
                THEN ReduceLoan(r.loan[g], Least(reduction, r.loan[g].owed))
                ELSE r.loan[g]]]
    BY <1>3 DEF Repaid, Ledger
  <1> HIDE DEF r, t
  <1>5. /\ t.balance = s.balance /\ t.frozen = s.frozen
        /\ t.banked = s.banked /\ t.exchange = s.exchange
        /\ t.grant = s.grant /\ t.consumed = s.consumed
        /\ \A g \in Grants : t.loan[g] = IF s.loan[g].status = "active"
             THEN ReduceLoan(s.loan[g], Least(reduction, s.loan[g].owed)) ELSE s.loan[g]
    BY <1>2, <1>3, <1>4 DEF Ledger
  <1> HIDE DEF reduction
  <1>6. \A g \in Grants : /\ t.loan[g].swept = s.loan[g].swept
                          /\ t.loan[g].unused = s.loan[g].unused
                          /\ t.loan[g].status = "none" <=> s.loan[g].status = "none"
    <2> SUFFICES ASSUME NEW g \in Grants
                 PROVE  /\ t.loan[g].swept = s.loan[g].swept
                        /\ t.loan[g].unused = s.loan[g].unused
                        /\ t.loan[g].status = "none" <=> s.loan[g].status = "none"
      OBVIOUS
    <2>1. s.loan[g] \in Loan
      BY <1>1, RowTypes
    <2> QED BY <1>5, <2>1, ReduceLoanRest
  <1>7. Unbooked(t) = Unbooked(s) /\ Reserved(t) = Reserved(s)
    BY <1>5 DEF Unbooked, Reserved
  <1>8. Settles(s, t)
    BY <1>1, <1>5, <1>6, <1>7, SameRowsSettle
  <1> QED BY <1>8 DEF t

---------------------------------------------------------------------------
(* The books: credit. *)

LEMMA ExchangeSettles ==
    ASSUME Now, NEW s, Sorted(s), NEW g \in FreshGrants(s), NEW n \in Nat
    PROVE  Settles(s, Exchange(s, g, n))
  <1> DEFINE r == [s EXCEPT !.balance = @ - n, !.banked = @ - n]
             m == n * ExchangeRate
             t == CreateGrant(r, g, m, day, Tomorrow)
  <1>1. Sorted(r) /\ Settles(s, r) /\ r.grant = s.grant
    <2>1. n \in Int /\ s \in Ledger
      BY DEF Sorted, Sound
    <2>2. r.grant = s.grant
      BY <2>1 DEF Ledger
    <2>3. Sound(r) /\ Settles(s, r)
      BY <2>1, BankSound, BankSettles DEF Sorted
    <2> QED BY <2>2, <2>3 DEF Sorted, Settles
  <1>2. m \in Nat /\ day \in Nat /\ Tomorrow \in Nat
    BY Ratios, Product DEF Now, Tomorrow
  <1>3. g \in FreshGrants(r) /\ g \in Grants
    BY <1>1 DEF FreshGrants
  <1> HIDE DEF r, m
  <1>4. Settles(r, t) /\ t \in Ledger
    BY <1>1, <1>2, <1>3, CreateGrantSettles, CreateGrantSound DEF Sorted, Sound
  <1> HIDE DEF t
  <1>5. Settles(s, t)
    BY <1>1, <1>4, SettlesAfter DEF Sorted, Sound
  <1> QED BY <1>5 DEF Exchange, r, m, t

LEMMA AutoExchangedSettles ==
    ASSUME Now, NEW s, Sorted(s), NEW t \in AutoExchanged(s)
    PROVE  Sorted(t) /\ Settles(s, t)
  <1> DEFINE r == Reconciled(s)
  <1>1. Sorted(r) /\ Settles(s, r) /\ r.exchange \in Nat
    BY ReconciledSettles, AccountTypes DEF Sorted, Sound
  <1>2. \/ t = s
        \/ t = r
        \/ \E g \in FreshGrants(r), k \in Rounds(r) : t = Exchange(r, g, k * r.exchange)
    BY DEF AutoExchanged
  <1>3. Settles(s, t)
    <2> HIDE DEF r
    <2>1. CASE t = s
      BY <2>1, SameRowsSettle DEF Sorted, Sound
    <2>2. CASE \E g \in FreshGrants(r), k \in Rounds(r) : t = Exchange(r, g, k * r.exchange)
      <3> PICK g \in FreshGrants(r), k \in Rounds(r) : t = Exchange(r, g, k * r.exchange)
        BY <2>2
      <3>1. k \in Nat /\ g \in Grants
        BY <1>1, AccountTypes DEF Rounds, FreshGrants, Sorted, Sound
      <3>2. k * r.exchange \in Nat
        BY <1>1, <3>1, Product
      <3>3. Settles(r, t) /\ t \in Ledger
        BY <1>1, <3>1, <3>2, ExchangeSettles, ExchangeSound DEF Sorted, Sound
      <3> QED BY <1>1, <3>3, SettlesAfter DEF Sorted, Sound
    <2> QED BY <1>1, <1>2, <2>1, <2>2
  <1>4. Sound(t)
    BY AutoExchangedSound DEF Sorted
  <1> QED BY <1>3, <1>4 DEF Sorted, Settles

\* What a split takes of the credit that is usable.
Takes(s, amounts) ==
    /\ amounts \in Credit
    /\ \A g \in Grants : amounts[g] <= UsableCredit(s)[g]

LEMMA SetAsideChanges ==
    ASSUME NEW s, Sorted(s), NEW amounts, Takes(s, amounts)
    PROVE  /\ Changes(s, SetAside(s, amounts), 0, 0, amounts)
           /\ Tidy(SetAside(s, amounts))
           /\ \A g \in Grants : amounts[g] > 0 => InWindow(s.grant[g]) /\ s.grant[g].amount > 0
  <1> DEFINE t == SetAside(s, amounts)
  <1>1. s \in Ledger /\ amounts \in Credit
    BY DEF Sorted, Sound, Takes
  <1>2. /\ t.balance = s.balance /\ t.frozen = s.frozen /\ t.banked = s.banked
        /\ t.exchange = s.exchange /\ t.consumed = s.consumed /\ t.loan = s.loan
        /\ \A g \in Grants : t.grant[g] = Moved(s.grant[g], -amounts[g])
    BY <1>1 DEF SetAside, Ledger
  <1> HIDE DEF t
  <1>3. \A g \in Grants : /\ WithJobs(s, g) \in Int /\ WithJobs(s, g) >= 0 /\ amounts[g] \in Nat
                          /\ s.grant[g].amount \in Nat /\ s.grant[g].remaining \in Nat
                          /\ s.consumed[g] \in Nat /\ s.loan[g].unused \in Nat
    BY <1>1, BookTypes DEF Credit, Sorted, Tidy
  <1>4. ASSUME NEW g \in Grants
        PROVE  /\ t.grant[g].amount = s.grant[g].amount
               /\ t.grant[g].remaining = s.grant[g].remaining - amounts[g]
               /\ t.grant[g].available = s.grant[g].available
               /\ t.grant[g].expires = s.grant[g].expires
    <2>1. s.grant[g] \in Grant /\ t.grant[g] = Moved(s.grant[g], -amounts[g])
      BY <1>1, <1>2, RowTypes
    <2>2. /\ t.grant[g].amount = s.grant[g].amount
          /\ t.grant[g].remaining = s.grant[g].remaining + (-amounts[g])
          /\ t.grant[g].available = s.grant[g].available
          /\ t.grant[g].expires = s.grant[g].expires
      BY <2>1 DEF Moved, Grant
    <2> QED BY <1>3, <2>2
  <1>5. ASSUME NEW g \in Grants, amounts[g] > 0
        PROVE  InWindow(s.grant[g]) /\ s.grant[g].amount > 0
    <2>1. amounts[g] <= Usable(s, g)
      BY <1>5 DEF Takes, UsableCredit
    <2>2. InWindow(s.grant[g]) /\ amounts[g] <= s.grant[g].remaining
      BY <1>3, <1>5, <2>1 DEF Usable, InWindow
    <2> QED BY <1>3, <1>5, <2>2 DEF WithJobs
  <1>6. ASSUME NEW g \in Grants
        PROVE  WithJobs(t, g) = WithJobs(s, g) + amounts[g] /\ KeepsGrant(s, t, g)
    <2>1. WithJobs(t, g) = WithJobs(s, g) + amounts[g]
      BY <1>2, <1>3, <1>4 DEF WithJobs
    <2>2. t.grant[g].remaining # s.grant[g].remaining => amounts[g] > 0
      BY <1>3, <1>4
    <2> QED BY <1>2, <1>4, <1>5, <2>1, <2>2 DEF KeepsGrant
  <1>7. Unbooked(s) \in Int /\ Reserved(s) \in Int
    BY <1>1, BookTypes
  <1>8. Unbooked(t) = Unbooked(s) /\ Reserved(t) = Reserved(s)
    BY <1>2 DEF Unbooked, Reserved
  <1>9. Changes(s, t, 0, 0, amounts)
    BY <1>6, <1>7, <1>8 DEF Changes
  <1>10. Tidy(t)
    <2> SUFFICES ASSUME NEW g \in Grants
                 PROVE  (~t.loan[g].swept => t.loan[g].unused = 0) /\ WithJobs(t, g) >= 0
      BY DEF Tidy
    <2>1. ~t.loan[g].swept => t.loan[g].unused = 0
      BY <1>2 DEF Sorted, Tidy
    <2>2. WithJobs(t, g) >= 0
      BY <1>3, <1>6
    <2> QED BY <2>1, <2>2
  <1> QED BY <1>5, <1>9, <1>10 DEF t

LEMMA ConsumeSettles ==
    ASSUME NEW s, Sorted(s), NEW amounts, Takes(s, amounts)
    PROVE  Settles(s, Consume(s, amounts)) /\ Sound(Consume(s, amounts))
  <1> DEFINE r == SetAside(s, amounts)
             t == Consume(s, amounts)
  <1>1. s \in Ledger /\ amounts \in Credit /\ s.consumed \in Credit
    BY AccountTypes DEF Sorted, Sound, Takes
  <1>2. \A g \in Grants : amounts[g] <= s.grant[g].remaining
    <2> SUFFICES ASSUME NEW g \in Grants PROVE amounts[g] <= s.grant[g].remaining
      OBVIOUS
    <2>1. /\ UsableCredit(s)[g] \in Nat /\ UsableCredit(s)[g] <= s.grant[g].remaining
          /\ amounts[g] \in Nat /\ s.grant[g].remaining \in Nat
      BY <1>1, UsableType, RowTypes DEF Credit
    <2> QED BY <2>1 DEF Takes
  <1>3. r \in Ledger /\ r.consumed = s.consumed /\ Sound(t) /\ t \in Ledger
    BY <1>1, <1>2, SetAsideSound, ConsumeSound DEF Sorted, Sound
  <1>4. Changes(s, r, 0, 0, amounts) /\ Tidy(r)
    BY SetAsideChanges
  <1>5. t = [r EXCEPT !.consumed = [g \in Grants |-> s.consumed[g] + amounts[g]]]
    BY DEF Consume
  <1> HIDE DEF r, t
  <1>6. /\ t.balance = r.balance /\ t.frozen = r.frozen /\ t.banked = r.banked
        /\ t.exchange = r.exchange /\ t.grant = r.grant /\ t.loan = r.loan
        /\ \A g \in Grants : t.consumed[g] = r.consumed[g] + amounts[g]
    BY <1>3, <1>5 DEF Ledger
  <1>7. ASSUME NEW g \in Grants
        PROVE  WithJobs(t, g) = WithJobs(s, g)
    <2>1. /\ r.grant[g].amount \in Nat /\ r.grant[g].remaining \in Nat
          /\ r.consumed[g] \in Nat /\ r.loan[g].unused \in Nat
          /\ WithJobs(s, g) \in Int /\ amounts[g] \in Nat
      BY <1>1, <1>3, BookTypes DEF Credit
    <2>2. WithJobs(r, g) = WithJobs(s, g) + amounts[g]
      BY <1>4 DEF Changes
    <2>3. WithJobs(t, g) = WithJobs(r, g) - amounts[g]
      BY <1>6, <2>1 DEF WithJobs
    <2> QED BY <2>1, <2>2, <2>3
  <1>8. ASSUME NEW g \in Grants, s.grant[g].amount > 0 PROVE KeepsGrant(s, t, g)
    <2>1. KeepsGrant(s, r, g)
      BY <1>4, <1>8 DEF Changes
    <2> QED BY <1>6, <2>1 DEF KeepsGrant
  <1>9. Unbooked(t) = Unbooked(r) /\ Reserved(t) = Reserved(r)
    BY <1>6 DEF Unbooked, Reserved
  <1>10. \A g \in Grants : WithJobs(s, g) \in Int
    BY <1>1, BookTypes
  <1>11. Changes(s, t, 0, 0, Nothing)
    BY <1>4, <1>7, <1>8, <1>9, <1>10 DEF Changes, Nothing
  <1>12. Tidy(t)
    BY <1>4, <1>6, <1>7 DEF Tidy, Sorted
  <1> QED BY <1>3, <1>11, <1>12 DEF Settles, t

\* The balance alone changes.
LEMMA SpendChanges ==
    ASSUME NEW s, Sorted(s), NEW n \in Int
    PROVE  LET t == [s EXCEPT !.balance = @ - n] IN Changes(s, t, -n, 0, Nothing) /\ Tidy(t)
  <1> DEFINE t == [s EXCEPT !.balance = @ - n]
  <1>1. s \in Ledger
    BY DEF Sorted, Sound
  <1>2. /\ t.balance = s.balance - n /\ t.banked = s.banked
        /\ t.frozen = s.frozen /\ t.exchange = s.exchange
        /\ t.grant = s.grant /\ t.consumed = s.consumed /\ t.loan = s.loan
    BY <1>1 DEF Ledger
  <1> HIDE DEF t
  <1>3. s.balance \in Int /\ s.frozen \in Int /\ s.banked \in Int /\ Reserved(s) \in Int
    BY <1>1, AccountTypes, BookTypes
  <1>4. Unbooked(t) = Unbooked(s) + (-n) /\ Reserved(t) = Reserved(s)
    BY <1>2, <1>3 DEF Unbooked, Reserved
  <1>5. \A g \in Grants : /\ WithJobs(t, g) = WithJobs(s, g) /\ WithJobs(s, g) \in Int
                          /\ KeepsGrant(s, t, g)
    BY <1>1, <1>2, BookTypes DEF WithJobs, KeepsGrant
  <1>6. Changes(s, t, -n, 0, Nothing)
    BY <1>3, <1>4, <1>5 DEF Changes, Nothing
  <1>7. Tidy(t)
    BY <1>2, <1>5 DEF Tidy, Sorted
  <1> QED BY <1>6, <1>7 DEF t

LEMMA FreezeChanges ==
    ASSUME NEW s, Sorted(s), NEW n \in Int
    PROVE  Changes(s, Freeze(s, n), 0, n, Nothing) /\ Tidy(Freeze(s, n))
  <1> DEFINE t == Freeze(s, n)
  <1>1. s \in Ledger
    BY DEF Sorted, Sound
  <1>2. /\ t.balance = s.balance - n /\ t.banked = s.banked
        /\ t.frozen = s.frozen + n /\ t.exchange = s.exchange
        /\ t.grant = s.grant /\ t.consumed = s.consumed /\ t.loan = s.loan
    BY <1>1 DEF Freeze, Ledger
  <1> HIDE DEF t
  <1>3. /\ s.balance \in Int /\ s.frozen \in Int /\ s.banked \in Int
        /\ s.exchange \in Nat /\ Deposit(s.exchange) \in Int
    BY <1>1, AccountTypes DEF Deposit
  <1>4. Unbooked(t) = Unbooked(s) + 0 /\ Reserved(t) = Reserved(s) + n
    BY <1>2, <1>3 DEF Unbooked, Reserved
  <1>5. \A g \in Grants : /\ WithJobs(t, g) = WithJobs(s, g) /\ WithJobs(s, g) \in Int
                          /\ KeepsGrant(s, t, g)
    BY <1>1, <1>2, BookTypes DEF WithJobs, KeepsGrant
  <1>6. Changes(s, t, 0, n, Nothing)
    BY <1>4, <1>5 DEF Changes, Nothing
  <1>7. Tidy(t)
    BY <1>2, <1>5 DEF Tidy, Sorted
  <1> QED BY <1>6, <1>7 DEF t

---------------------------------------------------------------------------
(* The books: the invariant, for every transaction that keeps within the    *)
(* rows of the user.                                                       *)

FrozenSum == SumFunctionOnSet([j \in Jobs |-> hold[j].permanent],
                              {j \in Jobs : hold[j].status = "reserved"})
KeptSum(g)  == SumFunction([j \in Jobs |-> Kept(j, g)])
ChargedSum  == SumFunction([r \in Requests |-> charge[r].permanent])
CapturedSum == SumFunction([j \in Jobs |-> hold[j].permanentCaptured])

Totals ==
    /\ Reserved(ledger) = FrozenSum
    /\ \A g \in Grants : WithJobs(ledger, g) = KeptSum(g)
    /\ Unbooked(ledger) = income - ChargedSum - CapturedSum

\* What is not billed, held or settled yet took nothing.
Blank ==
    /\ \A r \in Requests : ~charge[r].billed => charge[r].permanent = 0
    /\ \A j \in Jobs : hold[j].status = "none" =>
          hold[j].permanent = 0 /\ hold[j].expired = Nothing
    /\ \A j \in Jobs : hold[j].status \in {"none", "reserved"} => hold[j].permanentCaptured = 0

\* What is held was usable once, and the window of its grant has begun.
HeldInWindow ==
    \A j \in Jobs, g \in Grants :
        hold[j].status = "reserved" /\ hold[j].taken[g] > 0 =>
            ledger.grant[g].amount > 0 /\ ledger.grant[g].available <= day

Swept == \A g \in Grants : ~ledger.loan[g].swept => ledger.loan[g].unused = 0

\* What a transaction does to the grants that exist.
GrantsKept == \A g \in Grants : ledger.grant[g].amount > 0 => KeepsGrant(ledger, ledger', g)

BooksInv == LedgerInv /\ Totals /\ Swept /\ Blank /\ HeldInWindow

\* What the sums add up is counted.
LEMMA SumTypes ==
    ASSUME LedgerInv
    PROVE  /\ FrozenSum \in Nat /\ ChargedSum \in Nat /\ CapturedSum \in Nat
           /\ \A g \in Grants : KeptSum(g) \in Nat
  <1>1. /\ \A j \in Jobs : /\ hold[j].permanent \in Nat /\ hold[j].permanentCaptured \in Nat
                           /\ \A g \in Grants : Kept(j, g) \in Nat
        /\ \A r \in Requests : charge[r].permanent \in Nat
    BY DEF LedgerInv, HoldsOK, HoldRow, ChargeRow, Credit, Kept
  <1>2. IsFiniteSet(Jobs) /\ IsFiniteSet(Requests)
    BY LedgerAssumption DEF LedgerAssumption
  <1>3. FrozenSum \in Nat
    <2>1. IsFiniteSet({j \in Jobs : hold[j].status = "reserved"})
      BY <1>2, FS_Subset
    <2> QED BY <1>1, <2>1, SumType DEF FrozenSum, Counts
  <1>4. ChargedSum \in Nat
    BY <1>1, <1>2, SumType DEF ChargedSum, SumFunction, Counts
  <1>5. CapturedSum \in Nat
    BY <1>1, <1>2, SumType DEF CapturedSum, SumFunction, Counts
  <1>6. ASSUME NEW g \in Grants PROVE KeptSum(g) \in Nat
    BY <1>1, <1>2, SumType DEF KeptSum, SumFunction, Counts
  <1> QED BY <1>3, <1>4, <1>5, <1>6

LEMMA TotalsSay ==
    ASSUME LedgerInv
    PROVE  Totals <=> FrozenIsHeld /\ CreditAddsUp /\ BalanceIsBooked
  <1>1. ledger \in Ledger /\ income \in Int
    BY DEF LedgerInv, Sound
  <1>2. Reserved(ledger) = FrozenSum <=> FrozenIsHeld
    <2>1. FrozenIsHeld <=> ledger.frozen = Deposit(ledger.exchange) + FrozenSum
      BY DEF FrozenIsHeld, FrozenSum
    <2>2. ledger.frozen \in Int /\ Deposit(ledger.exchange) \in Int /\ FrozenSum \in Int
      BY <1>1, AccountTypes, SumTypes DEF Deposit
    <2> QED BY <2>1, <2>2 DEF Reserved
  <1>3. (\A g \in Grants : WithJobs(ledger, g) = KeptSum(g)) <=> CreditAddsUp
    <2>1. ASSUME NEW g \in Grants
          PROVE  WithJobs(ledger, g) = KeptSum(g) <=>
                   ledger.grant[g].amount =
                     ledger.grant[g].remaining + ledger.consumed[g] + ledger.loan[g].unused
                       + KeptSum(g)
      <3>1. /\ ledger.grant[g].amount \in Nat /\ ledger.grant[g].remaining \in Nat
            /\ ledger.consumed[g] \in Nat /\ ledger.loan[g].unused \in Nat /\ KeptSum(g) \in Nat
        BY <1>1, BookTypes, SumTypes
      <3> QED BY <3>1 DEF WithJobs
    <2> QED BY <2>1, Zenon DEF CreditAddsUp, KeptSum
  <1>4. Unbooked(ledger) = income - ChargedSum - CapturedSum <=> BalanceIsBooked
    <2>1. BalanceIsBooked <=>
            ledger.balance + ledger.frozen = income + ledger.banked - ChargedSum - CapturedSum
      BY DEF BalanceIsBooked, ChargedSum, CapturedSum
    <2>2. /\ ledger.balance \in Int /\ ledger.frozen \in Int /\ ledger.banked \in Int
          /\ ChargedSum \in Int /\ CapturedSum \in Int
      BY <1>1, AccountTypes, SumTypes
    <2> QED BY <1>1, <2>1, <2>2 DEF Unbooked
  <1> QED BY <1>2, <1>3, <1>4 DEF Totals

LEMMA BooksSorted == ASSUME BooksInv PROVE Sorted(ledger) /\ Now
  <1>1. \A g \in Grants : WithJobs(ledger, g) >= 0
    BY SumTypes DEF BooksInv, Totals
  <1> QED BY <1>1 DEF BooksInv, LedgerInv, Swept, Sorted, Tidy

\* The sums follow a change of the rows.
LEMMA TotalsFollow ==
    ASSUME BooksInv, NEW s \in Ledger, ledger' = s, NEW b \in Int, NEW f \in Int,
           NEW c \in [Grants -> Int], Changes(ledger, s, b, f, c),
           FrozenSum' = FrozenSum + f,
           \A g \in Grants : KeptSum(g)' = KeptSum(g) + c[g],
           income' - ChargedSum' - CapturedSum' = income - ChargedSum - CapturedSum + b
    PROVE  Totals'
  <1>1. Reserved(s) = FrozenSum'
    BY DEF BooksInv, Totals, Changes
  <1>2. \A g \in Grants : WithJobs(s, g) = KeptSum(g)'
    BY DEF BooksInv, Totals, Changes
  <1>3. Unbooked(s) = income' - ChargedSum' - CapturedSum'
    BY DEF BooksInv, Totals, Changes
  <1> QED BY <1>1, <1>2, <1>3, Zenon DEF Totals, Reserved, WithJobs, Unbooked

\* Whatever is held stays within its window.
LEMMA HeldStays ==
    ASSUME BooksInv, day' \in Nat, day' >= day, NEW s \in Ledger, ledger' = s,
           NEW b, NEW f, NEW c, Changes(ledger, s, b, f, c),
           NEW j \in Jobs, NEW g \in Grants, hold[j].status = "reserved", hold[j].taken[g] > 0
    PROVE  ledger'.grant[g].amount > 0 /\ ledger'.grant[g].available <= day'
  <1>1. ledger.grant[g].amount > 0 /\ ledger.grant[g].available <= day
    BY DEF BooksInv, HeldInWindow
  <1>2. s.grant[g].amount > 0 /\ s.grant[g].available = ledger.grant[g].available
    BY <1>1 DEF Changes, KeepsGrant
  <1>3. day \in Nat /\ ledger.grant[g].available \in Nat
    BY BookTypes DEF BooksInv, LedgerInv, Now, Sound
  <1> QED BY <1>1, <1>2, <1>3

\* Transactions of the bank, and whatever else leaves charges and holds.
LEMMA RowsBooks ==
    ASSUME BooksInv, LedgerInv', NEW s \in Ledger, ledger' = s, Settles(ledger, s), OnlyLedger
    PROVE  BooksInv' /\ GrantsKept
  <1>1. Totals'
    <2>1. Changes(ledger, s, 0, 0, Nothing) /\ Nothing \in [Grants -> Int]
      BY DEF Settles, Nothing
    <2>2. UNCHANGED <<charge, hold, income>>
      BY DEF OnlyLedger
    <2>3. FrozenSum' = FrozenSum /\ ChargedSum' = ChargedSum /\ CapturedSum' = CapturedSum
          /\ \A g \in Grants : KeptSum(g)' = KeptSum(g)
      BY <2>2 DEF FrozenSum, ChargedSum, CapturedSum, KeptSum, Kept
    <2>4. /\ FrozenSum \in Int /\ ChargedSum \in Int /\ CapturedSum \in Int /\ income \in Int
          /\ \A g \in Grants : KeptSum(g) \in Int
      BY SumTypes DEF BooksInv, LedgerInv
    <2>5. /\ FrozenSum' = FrozenSum + 0 /\ \A g \in Grants : KeptSum(g)' = KeptSum(g) + Nothing[g]
          /\ income' - ChargedSum' - CapturedSum' = income - ChargedSum - CapturedSum + 0
      BY <2>2, <2>3, <2>4 DEF Nothing
    <2> QED BY <2>1, <2>5, TotalsFollow
  <1>2. Swept'
    BY DEF Settles, Tidy, Swept
  <1>3. Blank'
    BY DEF BooksInv, Blank, OnlyLedger, Nothing
  <1>4. HeldInWindow'
    <2> SUFFICES ASSUME NEW j \in Jobs, NEW g \in Grants,
                        hold'[j].status = "reserved", hold'[j].taken[g] > 0
                 PROVE  ledger'.grant[g].amount > 0 /\ ledger'.grant[g].available <= day'
      BY DEF HeldInWindow
    <2>1. hold' = hold /\ day' = day /\ day \in Nat
      BY DEF OnlyLedger, BooksInv, LedgerInv, Now
    <2> QED BY <2>1, HeldStays DEF Settles
  <1>5. GrantsKept
    BY DEF Settles, Changes, GrantsKept
  <1> QED BY <1>1, <1>2, <1>3, <1>4, <1>5 DEF BooksInv

---------------------------------------------------------------------------
(* The books: the transactions of the bank. *)

LEMMA AdvanceBooks ==
    ASSUME BooksInv, LedgerInv', NEW n \in Amounts, Advance(n)
    PROVE  BooksInv' /\ GrantsKept
  <1> PICK g \in FreshGrants(ledger) :
         ledger' = [CreateGrant(ledger, g, n, day, Tomorrow) EXCEPT
                      !.loan[g] = [status |-> "active", owed |-> n,
                                   swept |-> FALSE, unused |-> 0],
                      !.debt = @ + n,
                      !.due = Tomorrow + GraceDays]
    BY DEF Advance
  <1> DEFINE s == CreateGrant(ledger, g, n, day, Tomorrow)
  <1>1. Sorted(ledger) /\ Now /\ n \in Nat /\ g \in Grants /\ ledger.grant[g].amount = 0
    BY BooksSorted, AmountType DEF FreshGrants
  <1>2. day \in Nat /\ Tomorrow \in Nat
    BY <1>1 DEF Now, Tomorrow
  <1>3. Settles(ledger, s)
    BY <1>1, <1>2, CreateGrantSettles
  <1>4. ledger \in Ledger /\ s \in Ledger /\ ledger' \in Ledger
    BY <1>1, <1>2, CreateGrantSound DEF Sorted, Sound, LedgerInv
  <1>5. s.grant = [ledger.grant EXCEPT ![g] = [amount |-> n, remaining |-> n,
                                               available |-> day, expires |-> Tomorrow]]
        /\ s.loan = ledger.loan /\ s.consumed = ledger.consumed
    BY <1>4 DEF CreateGrant, Ledger
  <1> DEFINE t == ledger'
  <1> HIDE DEF s
  <1>6. /\ t.balance = s.balance /\ t.frozen = s.frozen /\ t.banked = s.banked
        /\ t.exchange = s.exchange /\ t.grant = s.grant /\ t.consumed = s.consumed
        /\ t.loan = [s.loan EXCEPT ![g] = [status |-> "active", owed |-> n,
                                           swept |-> FALSE, unused |-> 0]]
    BY <1>4 DEF Ledger, s
  <1> HIDE DEF t
  <1>7. /\ t.loan[g].unused = 0
        /\ \A h \in Grants : h # g => t.loan[h] = s.loan[h]
    BY <1>1, <1>4, <1>6, AccountTypes
  <1>8. s.loan[g].unused = 0
    <2>1. /\ WithJobs(ledger, g) >= 0 /\ ledger.grant[g].remaining \in Nat
          /\ ledger.consumed[g] \in Nat /\ ledger.loan[g].unused \in Nat
      BY <1>1, <1>4, BookTypes DEF Sorted, Tidy
    <2> QED BY <1>1, <1>5, <2>1 DEF WithJobs
  <1>9. \A h \in Grants : WithJobs(t, h) = WithJobs(s, h)
    BY <1>6, <1>7, <1>8 DEF WithJobs
  <1>10. Unbooked(t) = Unbooked(s) /\ Reserved(t) = Reserved(s)
    BY <1>6 DEF Unbooked, Reserved
  <1>11. ASSUME NEW h \in Grants, ledger.grant[h].amount > 0 PROVE KeepsGrant(ledger, t, h)
    <2>1. KeepsGrant(ledger, s, h)
      BY <1>3, <1>11 DEF Settles, Changes
    <2>2. t.loan[h] = s.loan[h] /\ t.grant[h] = s.grant[h]
      BY <1>1, <1>6, <1>7, <1>11
    <2> QED BY <2>1, <2>2 DEF KeepsGrant
  <1>12. Changes(ledger, t, 0, 0, Nothing)
    BY <1>3, <1>9, <1>10, <1>11 DEF Settles, Changes
  <1>13. Tidy(t)
    BY <1>3, <1>7, <1>9 DEF Settles, Tidy
  <1>14. Settles(ledger, t)
    BY <1>12, <1>13 DEF Settles
  <1> QED BY <1>4, <1>14, RowsBooks DEF t, Advance

LEMMA SettledBooks ==
    ASSUME BooksInv, LedgerInv', ledger' = Reconciled(ledger), OnlyLedger
    PROVE  BooksInv' /\ GrantsKept
  <1>1. Settles(ledger, Reconciled(ledger)) /\ Reconciled(ledger) \in Ledger
    BY BooksSorted, ReconciledSettles DEF Sorted, Sound
  <1> QED BY <1>1, RowsBooks

LEMMA AutoExchangedBooks ==
    ASSUME BooksInv, LedgerInv', NEW s \in AutoExchanged(ledger), ledger' = s, OnlyLedger
    PROVE  BooksInv' /\ GrantsKept
  <1>1. Settles(ledger, s) /\ s \in Ledger
    BY BooksSorted, AutoExchangedSettles DEF Sorted, Sound
  <1> QED BY <1>1, RowsBooks

LEMMA ExchangeCreditBooks ==
    ASSUME BooksInv, LedgerInv', NEW n \in Amounts, ExchangeCredit(n)
    PROVE  BooksInv' /\ GrantsKept
  <1> DEFINE r == Reconciled(ledger)
  <1> PICK g \in FreshGrants(r) : ledger' = Exchange(r, g, n)
    BY DEF ExchangeCredit
  <1> DEFINE t == Exchange(r, g, n)
  <1>1. Sorted(r) /\ Settles(ledger, r) /\ Now /\ n \in Nat
    BY BooksSorted, ReconciledSettles, AmountType
  <1>2. ledger \in Ledger /\ r \in Ledger /\ t \in Ledger
    BY <1>1, BooksSorted DEF LedgerInv, Sorted, Sound
  <1> HIDE DEF r
  <1>3. Settles(r, t)
    BY <1>1, ExchangeSettles
  <1> HIDE DEF t
  <1>4. Settles(ledger, t)
    BY <1>1, <1>2, <1>3, SettlesAfter
  <1> QED BY <1>2, <1>4, RowsBooks DEF t, ExchangeCredit

LEMMA RepayPermanentBooks ==
    ASSUME BooksInv, LedgerInv', NEW n \in Amounts, RepayPermanent(n)
    PROVE  BooksInv' /\ GrantsKept
  <1> DEFINE r == Reconciled(ledger)
             use == UsefulCredit(n, r.debt, PermanentRatio)
             s == [r EXCEPT !.balance = @ - use, !.banked = @ - use]
             t == Repaid(s, use, PermanentRatio)
  <1>1. Sorted(r) /\ Settles(ledger, r) /\ r.debt \in Nat /\ ledger \in Ledger
    BY BooksSorted, ReconciledSettles, AccountTypes DEF Sorted, Sound
  <1>2. ledger' = t /\ OnlyLedger
    BY DEF RepayPermanent
  <1> HIDE DEF r
  <1>3. use \in Nat
    BY <1>1, UsefulType, Ratios, AmountType
  <1> HIDE DEF use
  <1>4. Sound(s) /\ Settles(r, s)
    <2>1. use \in Int
      BY <1>3
    <2> QED BY <1>1, <2>1, BankSound, BankSettles DEF Sorted
  <1> HIDE DEF s
  <1>5. Sorted(s)
    BY <1>4 DEF Sorted, Settles
  <1>6. Settles(s, t) /\ t \in Ledger
    BY <1>2, <1>3, <1>5, RepaidSettles, RepaidSound, Ratios DEF Sorted, Sound
  <1> HIDE DEF t
  <1>7. Settles(ledger, s)
    BY <1>1, <1>4, <1>5, SettlesAfter DEF Sorted, Sound
  <1>8. Settles(ledger, t)
    BY <1>1, <1>5, <1>6, <1>7, SettlesAfter DEF Sorted, Sound
  <1> QED BY <1>2, <1>6, <1>8, RowsBooks

\* What a split of usable credit takes.
LEMMA SplitTakes ==
    ASSUME NEW s, NEW n \in Nat, NEW d \in Split(s, UsableCredit(s), n)
    PROVE  Takes(s, d.taken) /\ d.permanent \in Nat
  BY SplitType DEF Takes

LEMMA RepayTemporaryBooks ==
    ASSUME BooksInv, LedgerInv', NEW n \in Amounts, RepayTemporary(n)
    PROVE  BooksInv' /\ GrantsKept
  <1> DEFINE r == Reconciled(ledger)
             use == UsefulCredit(n, r.debt, TemporaryRatio)
  <1> PICK d \in Split(r, UsableCredit(r), use) :
         /\ d.permanent < use
         /\ ledger' = Repaid(Consume(r, d.taken), use - d.permanent, TemporaryRatio)
    BY DEF RepayTemporary
  <1> DEFINE s == Consume(r, d.taken)
             t == Repaid(s, use - d.permanent, TemporaryRatio)
  <1>1. Sorted(r) /\ Settles(ledger, r) /\ r.debt \in Nat /\ ledger \in Ledger
    BY BooksSorted, ReconciledSettles, AccountTypes DEF Sorted, Sound
  <1> HIDE DEF r
  <1>2. use \in Nat
    BY <1>1, UsefulType, Ratios, AmountType
  <1> HIDE DEF use
  <1>3. Takes(r, d.taken) /\ use - d.permanent \in Nat
    <2>1. Takes(r, d.taken) /\ d.permanent \in Nat
      BY <1>2, SplitTakes
    <2> QED BY <1>2, <2>1
  <1>4. Settles(r, s) /\ Sorted(s)
    BY <1>1, <1>3, ConsumeSettles DEF Sorted, Settles
  <1> HIDE DEF s
  <1>5. Settles(s, t) /\ t \in Ledger
    BY <1>3, <1>4, RepaidSettles, RepaidSound, Ratios DEF Sorted, Sound
  <1>6. ledger' = t
    BY DEF s
  <1> HIDE DEF t
  <1>7. Settles(ledger, s)
    BY <1>1, <1>4, SettlesAfter DEF Sorted, Sound
  <1>8. Settles(ledger, t)
    BY <1>1, <1>4, <1>5, <1>7, SettlesAfter DEF Sorted, Sound
  <1> QED BY <1>5, <1>6, <1>8, RowsBooks DEF RepayTemporary

\* What moves under the frozen balance is the deposit.
LEMMA SetExchangeBooks ==
    ASSUME BooksInv, LedgerInv', NEW amount \in ExchangeAmounts \cup {0}, SetExchange(amount)
    PROVE  BooksInv' /\ GrantsKept
  <1> DEFINE delta == Deposit(amount) - Deposit(ledger.exchange)
             t == ledger'
  <1>1. amount \in Nat /\ Sorted(ledger)
    BY SettingType, BooksSorted
  <1>2. delta \in Int /\ delta = Deposit(amount) - Deposit(ledger.exchange)
        /\ Deposit(amount) \in Int /\ Deposit(ledger.exchange) \in Int
        /\ ledger \in Ledger /\ t \in Ledger
    BY <1>1, AccountTypes DEF Deposit, LedgerInv, Sorted, Sound
  <1>3. t = [Freeze(ledger, delta) EXCEPT !.exchange = amount] /\ OnlyLedger
    BY DEF SetExchange
  <1> HIDE DEF delta
  <1>4. /\ t.balance = ledger.balance - delta /\ t.frozen = ledger.frozen + delta
        /\ t.banked = ledger.banked /\ t.exchange = amount
        /\ t.grant = ledger.grant /\ t.consumed = ledger.consumed /\ t.loan = ledger.loan
    BY <1>2, <1>3 DEF Freeze, Ledger
  <1>5. /\ ledger.balance \in Int /\ ledger.frozen \in Int /\ ledger.banked \in Int
    BY <1>2, AccountTypes
  <1> HIDE DEF t
  <1>6. Unbooked(t) = Unbooked(ledger)
    BY <1>2, <1>4, <1>5 DEF Unbooked
  <1>7. Reserved(t) = Reserved(ledger)
    BY <1>2, <1>4, <1>5 DEF Reserved
  <1>8. Settles(ledger, t)
    BY <1>1, <1>2, <1>4, <1>6, <1>7, SameRowsSettle
  <1> QED BY <1>2, <1>3, <1>8, RowsBooks DEF t

LEMMA IssueBooks ==
    ASSUME BooksInv, LedgerInv', NEW n \in Amounts, NEW from \in Nat, NEW until \in Nat,
           IssueGrant(n, from, until)
    PROVE  BooksInv' /\ GrantsKept
  <1> PICK g \in FreshGrants(ledger) : ledger' = CreateGrant(ledger, g, n, from, until)
    BY DEF IssueGrant
  <1>1. Settles(ledger, CreateGrant(ledger, g, n, from, until))
    BY AmountType, BooksSorted, CreateGrantSettles
  <1>2. CreateGrant(ledger, g, n, from, until) \in Ledger
    BY DEF LedgerInv, Sound
  <1> QED BY <1>1, <1>2, RowsBooks DEF IssueGrant

---------------------------------------------------------------------------
(* The books: charges, holds, and balance paid in. *)

LEMMA BookRows ==
    ASSUME BooksInv
    PROVE  /\ charge \in [Requests -> ChargeRow] /\ hold \in [Jobs -> HoldRow]
           /\ IsFiniteSet(Jobs) /\ IsFiniteSet(Requests)
           /\ \A r \in Requests : charge[r].permanent \in Nat
           /\ \A j \in Jobs : /\ hold[j] \in HoldRow
                              /\ hold[j].permanent \in Nat /\ hold[j].permanentCaptured \in Nat
                              /\ hold[j].taken \in Credit /\ hold[j].expired \in Credit
           /\ \A j \in Jobs, g \in Grants : Kept(j, g) \in Nat
  <1>1. charge \in [Requests -> ChargeRow] /\ hold \in [Jobs -> HoldRow]
    BY DEF BooksInv, LedgerInv, HoldsOK
  <1>2. IsFiniteSet(Jobs) /\ IsFiniteSet(Requests)
    BY LedgerAssumption DEF LedgerAssumption
  <1>3. \A r \in Requests : charge[r].permanent \in Nat
    BY <1>1 DEF ChargeRow
  <1>4. \A j \in Jobs : /\ hold[j] \in HoldRow
                        /\ hold[j].permanent \in Nat /\ hold[j].permanentCaptured \in Nat
                        /\ hold[j].taken \in Credit /\ hold[j].expired \in Credit
    BY <1>1 DEF HoldRow
  <1>5. \A j \in Jobs, g \in Grants : Kept(j, g) \in Nat
    BY <1>4 DEF Kept, Credit
  <1> QED BY <1>1, <1>2, <1>3, <1>4, <1>5

\* A charge that took permanent balance is in the sum.
LEMMA ChargedMore ==
    ASSUME BooksInv, NEW r \in Requests, charge[r].permanent = 0, NEW row \in ChargeRow,
           charge' = [charge EXCEPT ![r] = row]
    PROVE  ChargedSum' = ChargedSum + row.permanent
  <1> DEFINE f == [q \in Requests |-> charge[q].permanent]
             h == [q \in Requests |-> charge'[q].permanent]
  <1>1. /\ Counts(f, Requests) /\ IsFiniteSet(Requests) /\ row.permanent \in Nat
        /\ f[r] = 0 /\ h[r] = row.permanent
        /\ \A q \in Requests : q # r => h[q] = f[q]
    BY BookRows DEF Counts, ChargeRow
  <1>2. ChargedSum = SumFunctionOnSet(f, Requests) /\ ChargedSum' = SumFunctionOnSet(h, Requests)
    BY DEF ChargedSum, SumFunction
  <1> HIDE DEF f, h
  <1>3. SumFunctionOnSet(h, Requests) = SumFunctionOnSet(f, Requests) - f[r] + h[r]
    BY <1>1, SumChange
  <1>4. SumFunctionOnSet(f, Requests) \in Nat
    BY <1>1, SumType
  <1> QED BY <1>1, <1>2, <1>3, <1>4

LEMMA ChargeBooks ==
    ASSUME BooksInv, LedgerInv', NEW r \in Requests, Charge(r)
    PROVE  BooksInv' /\ GrantsKept
  <1> PICK s \in AutoExchanged(ledger) : \E d \in Split(s, UsableCredit(s), Cost[r]) :
         /\ ledger' = [Consume(s, d.taken) EXCEPT !.balance = @ - d.permanent]
         /\ charge' = [charge EXCEPT ![r] = [taken |-> d.taken, permanent |-> d.permanent,
                                             billed |-> TRUE]]
    BY DEF Charge
  <1> PICK d \in Split(s, UsableCredit(s), Cost[r]) :
         /\ ledger' = [Consume(s, d.taken) EXCEPT !.balance = @ - d.permanent]
         /\ charge' = [charge EXCEPT ![r] = [taken |-> d.taken, permanent |-> d.permanent,
                                             billed |-> TRUE]]
    OBVIOUS
  <1> DEFINE u == Consume(s, d.taken)
             t == [u EXCEPT !.balance = @ - d.permanent]
             b == -d.permanent
             row == [taken |-> d.taken, permanent |-> d.permanent, billed |-> TRUE]
  <1>1. Sorted(s) /\ Settles(ledger, s) /\ ledger \in Ledger /\ s \in Ledger
    BY BooksSorted, AutoExchangedSettles DEF Sorted, Sound
  <1>2. Cost[r] \in Nat
    BY LedgerAssumption DEF LedgerAssumption, Positive
  <1>3. Takes(s, d.taken) /\ d.permanent \in Nat /\ d.taken \in Credit /\ b \in Int
    <2>1. Takes(s, d.taken) /\ d.permanent \in Nat
      BY <1>2, SplitTakes
    <2> QED BY <2>1 DEF Takes
  <1>4. Settles(s, u) /\ Sorted(u) /\ u \in Ledger
    BY <1>1, <1>3, ConsumeSettles DEF Sorted, Settles, Sound
  <1>5. ledger' = t /\ t \in Ledger
    BY DEF LedgerInv, Sound
  <1> HIDE DEF u
  <1>6. Changes(u, t, b, 0, Nothing) /\ Tidy(t)
    <2>1. d.permanent \in Int
      BY <1>3
    <2> QED BY <1>4, <2>1, SpendChanges
  <1> HIDE DEF t, b
  <1>7. Nothing \in [Grants -> Int]
    BY DEF Nothing
  <1>8. Settles(ledger, u)
    BY <1>1, <1>4, SettlesAfter
  <1>9. Changes(ledger, t, b, 0, Nothing)
    <2>1. Changes(ledger, u, 0, 0, Nothing) /\ 0 \in Int
      BY <1>8 DEF Settles
    <2> QED BY <1>1, <1>3, <1>4, <1>5, <1>6, <1>7, <2>1, ChangesAfter
  <1>10. row \in ChargeRow /\ row.permanent = d.permanent /\ charge' = [charge EXCEPT ![r] = row]
    BY <1>3 DEF ChargeRow
  <1> HIDE DEF row
  <1>11. charge[r].permanent = 0 /\ UNCHANGED <<day, hold, income>>
    BY DEF Charge, BooksInv, Blank
  <1>12. ChargedSum' = ChargedSum + d.permanent
    BY <1>10, <1>11, ChargedMore
  <1>13. Totals'
    <2>1. FrozenSum' = FrozenSum /\ CapturedSum' = CapturedSum
          /\ \A g \in Grants : KeptSum(g)' = KeptSum(g)
      BY <1>11 DEF FrozenSum, CapturedSum, KeptSum, Kept
    <2>2. /\ FrozenSum \in Int /\ ChargedSum \in Int /\ CapturedSum \in Int /\ income \in Int
          /\ \A g \in Grants : KeptSum(g) \in Int
      BY SumTypes DEF BooksInv, LedgerInv
    <2>3. /\ FrozenSum' = FrozenSum + 0 /\ \A g \in Grants : KeptSum(g)' = KeptSum(g) + Nothing[g]
      BY <2>1, <2>2 DEF Nothing
    <2>4. income' - ChargedSum' - CapturedSum' = income - ChargedSum - CapturedSum + b
      BY <1>3, <1>11, <1>12, <2>1, <2>2 DEF b
    <2> QED BY <1>3, <1>5, <1>7, <1>9, <2>3, <2>4, TotalsFollow
  <1>14. Swept'
    BY <1>5, <1>6 DEF Tidy, Swept
  <1>15. Blank'
    <2>1. \A q \in Requests : ~charge'[q].billed => charge'[q].permanent = 0
      BY BookRows, <1>11 DEF BooksInv, Blank
    <2> QED BY <1>11, <2>1 DEF BooksInv, Blank, Nothing
  <1>16. HeldInWindow'
    <2> SUFFICES ASSUME NEW j \in Jobs, NEW g \in Grants,
                        hold'[j].status = "reserved", hold'[j].taken[g] > 0
                 PROVE  ledger'.grant[g].amount > 0 /\ ledger'.grant[g].available <= day'
      BY DEF HeldInWindow
    <2>1. day' \in Nat /\ day' >= day
      BY <1>11 DEF BooksInv, LedgerInv, Now
    <2> QED BY <1>5, <1>9, <1>11, <2>1, HeldStays
  <1>17. GrantsKept
    BY <1>5, <1>9 DEF Changes, GrantsKept
  <1> QED BY <1>13, <1>14, <1>15, <1>16, <1>17 DEF BooksInv

LEMMA PayInBooks ==
    ASSUME BooksInv, LedgerInv', NEW n \in Amounts, PayIn(n)
    PROVE  BooksInv' /\ GrantsKept
  <1> DEFINE m == -n
             t == [ledger EXCEPT !.balance = @ - m]
  <1>1. n \in Nat /\ m \in Int /\ Sorted(ledger) /\ ledger \in Ledger
    BY AmountType, BooksSorted DEF Sorted, Sound
  <1>2. ledger' = t /\ t \in Ledger
    BY <1>1, AccountTypes DEF PayIn, LedgerInv, Sound, Ledger
  <1>3. income' = income + n /\ UNCHANGED <<day, charge, hold>>
    BY DEF PayIn
  <1> HIDE DEF m
  <1>4. Changes(ledger, t, -m, 0, Nothing) /\ Tidy(t)
    BY <1>1, SpendChanges
  <1> HIDE DEF t
  <1>5. -m = n
    BY <1>1 DEF m
  <1>6. Changes(ledger, t, n, 0, Nothing)
    BY <1>4, <1>5
  <1>7. Totals'
    <2>1. FrozenSum' = FrozenSum /\ CapturedSum' = CapturedSum /\ ChargedSum' = ChargedSum
          /\ \A g \in Grants : KeptSum(g)' = KeptSum(g)
      BY <1>3 DEF FrozenSum, CapturedSum, ChargedSum, KeptSum, Kept
    <2>2. /\ FrozenSum \in Int /\ ChargedSum \in Int /\ CapturedSum \in Int /\ income \in Int
          /\ \A g \in Grants : KeptSum(g) \in Int
      BY SumTypes DEF BooksInv, LedgerInv
    <2>3. /\ FrozenSum' = FrozenSum + 0 /\ \A g \in Grants : KeptSum(g)' = KeptSum(g) + Nothing[g]
          /\ Nothing \in [Grants -> Int]
      BY <2>1, <2>2 DEF Nothing
    <2>4. income' - ChargedSum' - CapturedSum' = income - ChargedSum - CapturedSum + n
      BY <1>1, <1>3, <2>1, <2>2
    <2> QED BY <1>1, <1>2, <1>6, <2>3, <2>4, TotalsFollow
  <1>8. Swept'
    BY <1>2, <1>4 DEF Tidy, Swept
  <1>9. Blank'
    BY <1>3 DEF BooksInv, Blank, Nothing
  <1>10. HeldInWindow'
    <2> SUFFICES ASSUME NEW j \in Jobs, NEW g \in Grants,
                        hold'[j].status = "reserved", hold'[j].taken[g] > 0
                 PROVE  ledger'.grant[g].amount > 0 /\ ledger'.grant[g].available <= day'
      BY DEF HeldInWindow
    <2>1. day' \in Nat /\ day' >= day
      BY <1>3 DEF BooksInv, LedgerInv, Now
    <2> QED BY <1>2, <1>3, <1>6, <2>1, HeldStays
  <1>11. GrantsKept
    BY <1>2, <1>6 DEF Changes, GrantsKept
  <1> QED BY <1>7, <1>8, <1>9, <1>10, <1>11 DEF BooksInv

\* The day changes nothing of the rows.
LEMMA NextDayBooks ==
    ASSUME BooksInv, LedgerInv', ledger' = ledger, charge' = charge, hold' = hold,
           income' = income, day' >= day
    PROVE  BooksInv' /\ GrantsKept
  <1>1. Totals'
    BY Zenon DEF BooksInv, Totals, Reserved, Unbooked, WithJobs, FrozenSum, KeptSum, Kept,
                 ChargedSum, CapturedSum
  <1>2. Swept' /\ Blank'
    BY DEF BooksInv, Swept, Blank, Nothing
  <1>3. HeldInWindow'
    <2> SUFFICES ASSUME NEW j \in Jobs, NEW g \in Grants,
                        hold'[j].status = "reserved", hold'[j].taken[g] > 0
                 PROVE  ledger'.grant[g].amount > 0 /\ ledger'.grant[g].available <= day'
      BY DEF HeldInWindow
    <2>1. ledger.grant[g].amount > 0 /\ ledger.grant[g].available <= day
      BY DEF BooksInv, HeldInWindow
    <2>2. day \in Nat /\ day' \in Nat /\ ledger.grant[g].available \in Nat
      BY BookTypes DEF BooksInv, LedgerInv, Now, Sound
    <2> QED BY <2>1, <2>2
  <1>4. GrantsKept
    BY DEF GrantsKept, KeepsGrant
  <1> QED BY <1>1, <1>2, <1>3, <1>4 DEF BooksInv

\* What the row of one hold does to the sums.
LEMMA KeptMoves ==
    ASSUME BooksInv, NEW j \in Jobs, NEW row \in HoldRow, hold' = [hold EXCEPT ![j] = row],
           NEW g \in Grants
    PROVE  KeptSum(g)' = KeptSum(g) - Kept(j, g)
                           + (IF row.status = "reserved" THEN row.taken[g] ELSE row.expired[g])
  <1> DEFINE f == [k \in Jobs |-> Kept(k, g)]
             h == [k \in Jobs |-> Kept(k, g)']
             kept == IF row.status = "reserved" THEN row.taken[g] ELSE row.expired[g]
  <1>1. kept \in Nat /\ hold'[j] = row /\ \A k \in Jobs : k # j => hold'[k] = hold[k]
    BY BookRows DEF HoldRow, Credit
  <1>2. Kept(j, g)' = kept /\ \A k \in Jobs : k # j => Kept(k, g)' = Kept(k, g)
    BY <1>1 DEF Kept
  <1> HIDE DEF kept
  <1>3. /\ Counts(f, Jobs) /\ IsFiniteSet(Jobs) /\ f[j] = Kept(j, g) /\ f[j] \in Nat
        /\ h[j] = kept /\ \A k \in Jobs : k # j => h[k] = f[k]
    BY <1>2, BookRows DEF Counts
  <1>4. KeptSum(g) = SumFunctionOnSet(f, Jobs) /\ KeptSum(g)' = SumFunctionOnSet(h, Jobs)
    BY DEF KeptSum, SumFunction
  <1> HIDE DEF f, h
  <1>5. SumFunctionOnSet(h, Jobs) = SumFunctionOnSet(f, Jobs) - f[j] + h[j]
    BY <1>1, <1>3, SumChange
  <1> QED BY <1>3, <1>4, <1>5 DEF kept

LEMMA CapturedMoves ==
    ASSUME BooksInv, NEW j \in Jobs, NEW row \in HoldRow, hold' = [hold EXCEPT ![j] = row]
    PROVE  CapturedSum' = CapturedSum - hold[j].permanentCaptured + row.permanentCaptured
  <1> DEFINE f == [k \in Jobs |-> hold[k].permanentCaptured]
             h == [k \in Jobs |-> hold'[k].permanentCaptured]
  <1>1. /\ Counts(f, Jobs) /\ IsFiniteSet(Jobs) /\ f[j] = hold[j].permanentCaptured
        /\ h[j] = row.permanentCaptured /\ h[j] \in Nat
        /\ \A k \in Jobs : k # j => h[k] = f[k]
    BY BookRows DEF Counts, HoldRow
  <1>2. CapturedSum = SumFunctionOnSet(f, Jobs) /\ CapturedSum' = SumFunctionOnSet(h, Jobs)
    BY DEF CapturedSum, SumFunction
  <1> HIDE DEF f, h
  <1>3. SumFunctionOnSet(h, Jobs) = SumFunctionOnSet(f, Jobs) - f[j] + h[j]
    BY <1>1, SumChange
  <1> QED BY <1>1, <1>2, <1>3

ReservedJobs == {j \in Jobs : hold[j].status = "reserved"}

LEMMA FrozenJoins ==
    ASSUME BooksInv, NEW j \in Jobs, hold[j].status = "none", NEW row \in HoldRow,
           row.status = "reserved", hold' = [hold EXCEPT ![j] = row]
    PROVE  FrozenSum' = FrozenSum + row.permanent
  <1> DEFINE S == ReservedJobs
             f == [k \in Jobs |-> hold[k].permanent]
             h == [k \in Jobs |-> hold'[k].permanent]
  <1>1. j \notin S /\ ReservedJobs' = S \cup {j} /\ S \subseteq Jobs /\ IsFiniteSet(S)
    BY BookRows, FS_Subset DEF ReservedJobs
  <1>2. /\ Counts(f, S) /\ Counts(h, S) /\ h[j] = row.permanent /\ h[j] \in Nat
        /\ \A k \in S : h[k] = f[k]
    BY <1>1, BookRows DEF Counts, HoldRow
  <1>3. FrozenSum = SumFunctionOnSet(f, S) /\ FrozenSum' = SumFunctionOnSet(h, S \cup {j})
    BY <1>1 DEF FrozenSum, ReservedJobs
  <1> HIDE DEF f, h, S
  <1>4. SumFunctionOnSet(h, S) = SumFunctionOnSet(f, S)
    BY <1>1, <1>2, SumSame
  <1>5. SumFunctionOnSet(h, S \cup {j}) = SumFunctionOnSet(h, S) + h[j]
    BY <1>1, <1>2, SumAdd
  <1> QED BY <1>2, <1>3, <1>4, <1>5

LEMMA FrozenLeaves ==
    ASSUME BooksInv, NEW j \in Jobs, hold[j].status = "reserved", NEW row \in HoldRow,
           row.status # "reserved", hold' = [hold EXCEPT ![j] = row]
    PROVE  FrozenSum' = FrozenSum - hold[j].permanent
  <1> DEFINE S == ReservedJobs
             f == [k \in Jobs |-> hold[k].permanent]
             h == [k \in Jobs |-> hold'[k].permanent]
  <1>1. j \in S /\ ReservedJobs' = S \ {j} /\ S \subseteq Jobs /\ IsFiniteSet(S)
    BY BookRows, FS_Subset DEF ReservedJobs
  <1>2. /\ Counts(f, S) /\ Counts(f, S \ {j}) /\ f[j] = hold[j].permanent
        /\ \A k \in S \ {j} : h[k] = f[k]
    BY <1>1, BookRows DEF Counts
  <1>3. FrozenSum = SumFunctionOnSet(f, S) /\ FrozenSum' = SumFunctionOnSet(h, S \ {j})
    BY <1>1 DEF FrozenSum, ReservedJobs
  <1> HIDE DEF f, h, S
  <1>4. SumFunctionOnSet(h, S \ {j}) = SumFunctionOnSet(f, S \ {j})
    <2>1. IsFiniteSet(S \ {j})
      BY <1>1, FS_RemoveElement
    <2> QED BY <1>2, <2>1, SumSame
  <1>5. /\ SumFunctionOnSet(f, S) = SumFunctionOnSet(f, S \ {j}) + f[j]
        /\ SumFunctionOnSet(f, S \ {j}) \in Nat /\ f[j] \in Nat
    BY <1>1, <1>2, SumRemove
  <1> QED BY <1>2, <1>3, <1>4, <1>5

LEMMA ReserveBooks ==
    ASSUME BooksInv, LedgerInv', NEW j \in Jobs, Reserve(j)
    PROVE  BooksInv' /\ GrantsKept
  <1> PICK s \in AutoExchanged(ledger) : \E d \in Split(s, UsableCredit(s), HoldAmount[j]) :
         /\ ledger' = Freeze(SetAside(s, d.taken), d.permanent)
         /\ hold' = [hold EXCEPT ![j].status = "reserved", ![j].taken = d.taken,
                                 ![j].permanent = d.permanent]
    BY DEF Reserve
  <1> PICK d \in Split(s, UsableCredit(s), HoldAmount[j]) :
         /\ ledger' = Freeze(SetAside(s, d.taken), d.permanent)
         /\ hold' = [hold EXCEPT ![j].status = "reserved", ![j].taken = d.taken,
                                 ![j].permanent = d.permanent]
    OBVIOUS
  <1> DEFINE u == SetAside(s, d.taken)
             t == Freeze(u, d.permanent)
             row == [hold[j] EXCEPT !.status = "reserved", !.taken = d.taken,
                                    !.permanent = d.permanent]
  <1>1. Sorted(s) /\ Settles(ledger, s) /\ ledger \in Ledger /\ s \in Ledger
    BY BooksSorted, AutoExchangedSettles DEF Sorted, Sound
  <1>2. HoldAmount[j] \in Nat
    BY LedgerAssumption DEF LedgerAssumption, Positive
  <1>3. /\ Takes(s, d.taken) /\ d.permanent \in Nat /\ d.permanent \in Int
        /\ d.taken \in Credit /\ d.taken \in [Grants -> Int]
    <2>1. Takes(s, d.taken) /\ d.permanent \in Nat
      BY <1>2, SplitTakes
    <2> QED BY <2>1 DEF Takes, Credit
  <1>4. Changes(s, u, 0, 0, d.taken) /\ Sorted(u) /\ u \in Ledger
    <2>1. Sound(u)
      BY <1>1, <1>2, SpendableSound DEF Sorted
    <2> QED BY <1>1, <1>3, <2>1, SetAsideChanges DEF Sorted, Sound
  <1>5. \A g \in Grants : d.taken[g] > 0 => InWindow(s.grant[g]) /\ s.grant[g].amount > 0
    BY <1>1, <1>3, SetAsideChanges
  <1>6. ledger' = t /\ t \in Ledger
    BY DEF LedgerInv, Sound
  <1> HIDE DEF u
  <1>7. Changes(u, t, 0, d.permanent, Nothing) /\ Tidy(t)
    BY <1>3, <1>4, FreezeChanges
  <1> HIDE DEF t
  <1>8. Changes(ledger, u, 0, 0, d.taken)
    <2>1. Changes(ledger, s, 0, 0, Nothing) /\ 0 \in Int
      BY <1>1 DEF Settles
    <2> QED BY <1>1, <1>3, <1>4, <2>1, ChangesAfter
  <1>9. Changes(ledger, t, 0, d.permanent, d.taken)
    <2>1. Unbooked(t) = Unbooked(ledger) + 0 /\ Reserved(t) = Reserved(ledger) + d.permanent
      <3>1. /\ Unbooked(u) = Unbooked(ledger) + 0 /\ Reserved(u) = Reserved(ledger) + 0
            /\ Unbooked(t) = Unbooked(u) + 0 /\ Reserved(t) = Reserved(u) + d.permanent
        BY <1>7, <1>8 DEF Changes
      <3>2. Unbooked(ledger) \in Int /\ Reserved(ledger) \in Int
        BY <1>1, BookTypes
      <3> QED BY <1>3, <3>1, <3>2
    <2>2. ASSUME NEW g \in Grants PROVE WithJobs(t, g) = WithJobs(ledger, g) + d.taken[g]
      <3>1. WithJobs(t, g) = WithJobs(u, g) + 0
        BY <1>7 DEF Changes, Nothing
      <3>2. WithJobs(u, g) = WithJobs(ledger, g) + d.taken[g] /\ WithJobs(u, g) \in Int
        BY <1>4, <1>8, BookTypes DEF Changes
      <3> QED BY <3>1, <3>2
    <2>3. ASSUME NEW g \in Grants, ledger.grant[g].amount > 0 PROVE KeepsGrant(ledger, t, g)
      <3>1. KeepsGrant(ledger, u, g)
        BY <1>8, <2>3 DEF Changes
      <3>2. KeepsGrant(u, t, g)
        BY <1>7, <2>3, <3>1 DEF Changes, KeepsGrant
      <3> QED BY <3>1, <3>2 DEF KeepsGrant, InWindow
    <2> QED BY <2>1, <2>2, <2>3 DEF Changes
  <1>10. hold[j].status = "none" /\ UNCHANGED <<day, charge, income>>
    BY DEF Reserve
  <1>11. /\ row \in HoldRow /\ hold' = [hold EXCEPT ![j] = row]
         /\ row.status = "reserved" /\ row.taken = d.taken /\ row.permanent = d.permanent
         /\ row.permanentCaptured = hold[j].permanentCaptured /\ row.expired = hold[j].expired
    <2>1. hold[j] \in HoldRow /\ hold \in [Jobs -> HoldRow]
      BY BookRows
    <2>2. hold' = [hold EXCEPT ![j] = row]
      BY <2>1
    <2>3. /\ row \in HoldRow
          /\ row.status = "reserved" /\ row.taken = d.taken /\ row.permanent = d.permanent
          /\ row.permanentCaptured = hold[j].permanentCaptured /\ row.expired = hold[j].expired
      BY <1>3, <2>1 DEF HoldRow
    <2> QED BY <2>2, <2>3
  <1> HIDE DEF row
  <1>12. hold[j].permanentCaptured = 0 /\ \A g \in Grants : Kept(j, g) = 0
    BY <1>10 DEF BooksInv, Blank, Kept, Nothing
  <1>13. Totals'
    <2>1. FrozenSum' = FrozenSum + d.permanent
      BY <1>10, <1>11, FrozenJoins
    <2>2. \A g \in Grants : KeptSum(g)' = KeptSum(g) + d.taken[g]
      <3> SUFFICES ASSUME NEW g \in Grants PROVE KeptSum(g)' = KeptSum(g) + d.taken[g]
        OBVIOUS
      <3>1. KeptSum(g)' = KeptSum(g) - Kept(j, g) + d.taken[g]
        <4>1. KeptSum(g)' = KeptSum(g) - Kept(j, g)
                  + (IF row.status = "reserved" THEN row.taken[g] ELSE row.expired[g])
          BY <1>11, KeptMoves, Zenon
        <4> QED BY <1>11, <4>1
      <3>2. KeptSum(g) \in Nat /\ d.taken[g] \in Nat
        BY <1>3, SumTypes DEF BooksInv, Credit
      <3> QED BY <1>12, <3>1, <3>2
    <2>3. ChargedSum' = ChargedSum
      BY <1>10 DEF ChargedSum
    <2>4. ChargedSum \in Int /\ CapturedSum \in Int /\ income \in Int
      BY SumTypes DEF BooksInv, LedgerInv
    <2>5. CapturedSum' = CapturedSum
      <3>1. CapturedSum' = CapturedSum - hold[j].permanentCaptured + row.permanentCaptured
        BY <1>11, CapturedMoves
      <3>2. row.permanentCaptured = 0
        BY <1>11, <1>12
      <3> QED BY <1>12, <2>4, <3>1, <3>2
    <2>6. income' - ChargedSum' - CapturedSum' = income - ChargedSum - CapturedSum + 0
      BY <1>10, <2>3, <2>4, <2>5
    <2> QED BY <1>3, <1>6, <1>9, <2>1, <2>2, <2>6, TotalsFollow
  <1>14. Swept'
    BY <1>6, <1>7 DEF Tidy, Swept
  <1>15. \A k \in Jobs : k # j => hold'[k] = hold[k]
    BY <1>11, BookRows
  <1>16. hold'[j] = row
    BY <1>11, BookRows
  <1>17. Blank'
    <2>1. ASSUME NEW k \in Jobs, hold'[k].status = "none"
          PROVE  hold'[k].permanent = 0 /\ hold'[k].expired = Nothing
      <3>1. k # j
        BY <1>11, <1>16, <2>1
      <3>2. hold'[k] = hold[k]
        BY <1>15, <3>1
      <3> QED BY <2>1, <3>2 DEF BooksInv, Blank
    <2>2. \A k \in Jobs : hold'[k].status \in {"none", "reserved"} =>
             hold'[k].permanentCaptured = 0
      BY <1>11, <1>12, <1>15, <1>16 DEF BooksInv, Blank
    <2>3. \A r \in Requests : ~charge'[r].billed => charge'[r].permanent = 0
      BY <1>10 DEF BooksInv, Blank
    <2> QED BY <2>1, <2>2, <2>3 DEF Blank, Nothing
  <1>18. HeldInWindow'
    <2> SUFFICES ASSUME NEW k \in Jobs, NEW g \in Grants,
                        hold'[k].status = "reserved", hold'[k].taken[g] > 0
                 PROVE  ledger'.grant[g].amount > 0 /\ ledger'.grant[g].available <= day'
      BY DEF HeldInWindow
    <2>1. day \in Nat /\ day' = day
      BY <1>10 DEF BooksInv, LedgerInv, Now
    <2>2. CASE k # j
      <3>1. day' \in Nat /\ day' >= day
        BY <2>1
      <3> QED BY <1>6, <1>9, <1>15, <2>2, <3>1, HeldStays
    <2>3. CASE k = j
      <3>1. InWindow(s.grant[g]) /\ s.grant[g].amount > 0
        <4>1. hold'[k].taken = d.taken
          BY <1>11, <1>16, <2>3
        <4> QED BY <1>5, <4>1
      <3>2. KeepsGrant(s, u, g)
        BY <1>4, <3>1 DEF Changes
      <3>3. KeepsGrant(u, t, g)
        BY <1>7, <3>1, <3>2 DEF Changes, KeepsGrant
      <3> QED BY <1>6, <2>1, <3>1, <3>2, <3>3 DEF KeepsGrant, InWindow
    <2> QED BY <2>2, <2>3
  <1>19. GrantsKept
    BY <1>6, <1>9 DEF Changes, GrantsKept
  <1> QED BY <1>13, <1>14, <1>17, <1>18, <1>19 DEF BooksInv

\* What a settled hold returns lies within the window of its grant.
LEMMA SettleHoldBooks ==
    ASSUME BooksInv, LedgerInv', NEW j \in Jobs, NEW status \in {"captured", "released"},
           NEW n \in Nat, SettleHold(j, status, n)
    PROVE  BooksInv' /\ GrantsKept
  <1> DEFINE Back(d) == Restored(ledger, j, d.taken)
             Expired(d) == [g \in Grants |-> hold[j].taken[g] - d.taken[g] - Back(d)[g]]
  <1> PICK d \in Split(ledger, hold[j].taken, n) :
         /\ ledger' = [ledger EXCEPT
              !.grant = [g \in Grants |-> Moved(ledger.grant[g], Back(d)[g])],
              !.consumed = [g \in Grants |-> ledger.consumed[g] + d.taken[g]],
              !.balance = @ + (hold[j].permanent - d.permanent),
              !.frozen = @ - hold[j].permanent]
         /\ hold' = [hold EXCEPT ![j] =
              [@ EXCEPT !.status = status, !.captured = n, !.permanentCaptured = d.permanent,
                        !.expired = Expired(d)]]
    BY DEF SettleHold
  <1> DEFINE t == ledger'
             row == hold'[j]
             p == hold[j].permanent
             c == [g \in Grants |-> -(d.taken[g] + Back(d)[g])]
  <1>1. /\ d.taken \in Credit /\ d.permanent \in Nat
        /\ \A g \in Grants : d.taken[g] <= hold[j].taken[g]
    BY SplitType
  <1>2. /\ hold[j] \in HoldRow /\ hold[j].taken \in Credit /\ p \in Nat
        /\ hold \in [Jobs -> HoldRow] /\ hold[j].status = "reserved"
    BY BookRows DEF SettleHold
  <1>3. \A g \in Grants : /\ d.taken[g] \in Nat /\ hold[j].taken[g] \in Nat
                          /\ d.taken[g] <= hold[j].taken[g]
    BY <1>1, <1>2 DEF Credit
  <1>4. ASSUME NEW g \in Grants
        PROVE  /\ Back(d)[g] \in Nat /\ Back(d)[g] <= hold[j].taken[g] - d.taken[g]
               /\ Back(d)[g] > 0 => day < ledger.grant[g].expires
    <2>1. day \in Nat /\ ledger.grant[g].expires \in Nat
      BY BookTypes DEF BooksInv, LedgerInv, Now, Sound
    <2> QED BY <1>3, <2>1 DEF Restored
  <1> HIDE DEF Back
  <1>5. /\ ledger \in Ledger /\ t \in Ledger /\ Now /\ Sorted(ledger)
    BY BooksSorted DEF BooksInv, LedgerInv, Sound
  <1>6. /\ t.banked = ledger.banked /\ t.exchange = ledger.exchange /\ t.loan = ledger.loan
        /\ t.balance = ledger.balance + (p - d.permanent) /\ t.frozen = ledger.frozen - p
        /\ \A g \in Grants : /\ t.grant[g] = Moved(ledger.grant[g], Back(d)[g])
                             /\ t.consumed[g] = ledger.consumed[g] + d.taken[g]
    BY <1>5 DEF Ledger
  <1>7. hold' = [hold EXCEPT ![j] = row]
    BY <1>2
  <1>8. /\ row.status = status /\ row.permanent = p /\ row.taken = hold[j].taken
        /\ row.permanentCaptured = d.permanent /\ row.expired = Expired(d)
    BY <1>2 DEF HoldRow
  <1>9. row \in HoldRow
    BY DEF LedgerInv, HoldsOK
  <1> HIDE DEF t, row, p
  <1>10. Unbooked(t) = Unbooked(ledger) + (-d.permanent) /\ Reserved(t) = Reserved(ledger) + (-p)
    <2>1. /\ ledger.balance \in Int /\ ledger.frozen \in Int /\ ledger.banked \in Int
          /\ ledger.exchange \in Nat /\ Deposit(ledger.exchange) \in Int
      BY <1>5, AccountTypes DEF Deposit
    <2> QED BY <1>1, <1>2, <1>6, <2>1 DEF Unbooked, Reserved
  <1>11. ASSUME NEW g \in Grants
         PROVE  /\ t.grant[g].amount = ledger.grant[g].amount
                /\ t.grant[g].remaining = ledger.grant[g].remaining + Back(d)[g]
                /\ t.grant[g].available = ledger.grant[g].available
                /\ t.grant[g].expires = ledger.grant[g].expires
    BY <1>5, <1>6, RowTypes DEF Moved, Grant
  <1>12. ASSUME NEW g \in Grants PROVE WithJobs(t, g) = WithJobs(ledger, g) + c[g]
    <2>1. /\ ledger.grant[g].amount \in Nat /\ ledger.grant[g].remaining \in Nat
          /\ ledger.consumed[g] \in Nat /\ ledger.loan[g].unused \in Nat
      BY <1>5, BookTypes
    <2> QED BY <1>3, <1>4, <1>6, <1>11, <2>1 DEF WithJobs
  <1>13. ASSUME NEW g \in Grants, ledger.grant[g].amount > 0 PROVE KeepsGrant(ledger, t, g)
    <2>1. t.grant[g].remaining # ledger.grant[g].remaining => Back(d)[g] > 0
      BY <1>4, <1>5, <1>11, BookTypes
    <2>2. Back(d)[g] > 0 => hold[j].taken[g] > 0
      BY <1>3, <1>4
    <2>3. hold[j].taken[g] > 0 => ledger.grant[g].available <= day
      BY <1>2 DEF BooksInv, HeldInWindow
    <2>4. Back(d)[g] > 0 => InWindow(ledger.grant[g])
      BY <1>4, <2>2, <2>3 DEF InWindow
    <2> QED BY <1>6, <1>11, <2>1, <2>4 DEF KeepsGrant
  <1>14. Changes(ledger, t, -d.permanent, -p, c)
    BY <1>10, <1>12, <1>13 DEF Changes
  <1>15. c \in [Grants -> Int] /\ -d.permanent \in Int /\ -p \in Int
    BY <1>1, <1>2, <1>3, <1>4
  <1>16. UNCHANGED <<day, charge, income>>
    BY DEF SettleHold
  <1>17. row.status # "reserved" /\ row.status # "none" /\ hold[j].permanentCaptured = 0
    BY <1>2, <1>8 DEF BooksInv, Blank
  <1>18. ledger' = t
    BY DEF t
  <1>19. Totals'
    <2>1. FrozenSum' = FrozenSum + (-p)
      <3>1. FrozenSum' = FrozenSum - p
        BY <1>2, <1>7, <1>9, <1>17, FrozenLeaves DEF p
      <3>2. FrozenSum \in Int
        BY SumTypes DEF BooksInv
      <3> QED BY <1>2, <3>1, <3>2
    <2>2. \A g \in Grants : KeptSum(g)' = KeptSum(g) + c[g]
      <3> SUFFICES ASSUME NEW g \in Grants PROVE KeptSum(g)' = KeptSum(g) + c[g]
        OBVIOUS
      <3>1. KeptSum(g)' = KeptSum(g) - Kept(j, g)
              + (IF row.status = "reserved" THEN row.taken[g] ELSE row.expired[g])
        BY <1>7, <1>9, KeptMoves, Zenon
      <3>2. Kept(j, g) = hold[j].taken[g] /\ row.expired[g] = hold[j].taken[g] - d.taken[g] - Back(d)[g]
        BY <1>2, <1>8 DEF Kept
      <3>3. KeptSum(g) \in Nat
        BY SumTypes DEF BooksInv
      <3>4. KeptSum(g)' = KeptSum(g) - hold[j].taken[g]
                            + (hold[j].taken[g] - d.taken[g] - Back(d)[g])
        BY <1>17, <3>1, <3>2
      <3> QED BY <1>3, <1>4, <3>3, <3>4
    <2>3. ChargedSum' = ChargedSum
      BY <1>16 DEF ChargedSum
    <2>4. ChargedSum \in Int /\ CapturedSum \in Int /\ income \in Int
      BY SumTypes DEF BooksInv, LedgerInv
    <2>5. CapturedSum' = CapturedSum + d.permanent
      <3>1. CapturedSum' = CapturedSum - hold[j].permanentCaptured + row.permanentCaptured
        BY <1>7, <1>9, CapturedMoves
      <3> QED BY <1>1, <1>8, <1>17, <2>4, <3>1
    <2>6. income' - ChargedSum' - CapturedSum' = income - ChargedSum - CapturedSum + (-d.permanent)
      BY <1>1, <1>16, <2>3, <2>4, <2>5
    <2> HIDE DEF c
    <2> QED BY <1>5, <1>14, <1>15, <1>18, <2>1, <2>2, <2>6, TotalsFollow
  <1>20. Swept'
    BY <1>6, <1>18 DEF BooksInv, Swept
  <1>21. hold'[j] = row /\ \A k \in Jobs : k # j => hold'[k] = hold[k]
    BY <1>2, <1>7 DEF row
  <1>22. Blank'
    <2>1. ASSUME NEW k \in Jobs
          PROVE  /\ hold'[k].status = "none" =>
                      hold'[k].permanent = 0 /\ hold'[k].expired = Nothing
                 /\ hold'[k].status \in {"none", "reserved"} => hold'[k].permanentCaptured = 0
      <3>1. CASE k = j
        BY <1>17, <1>21, <3>1
      <3>2. CASE k # j
        <4>1. hold'[k] = hold[k]
          BY <1>21, <3>2
        <4> QED BY <4>1 DEF BooksInv, Blank
      <3> QED BY <3>1, <3>2
    <2>2. \A r \in Requests : ~charge'[r].billed => charge'[r].permanent = 0
      BY <1>16 DEF BooksInv, Blank
    <2> QED BY <2>1, <2>2 DEF Blank, Nothing
  <1>23. HeldInWindow'
    <2> SUFFICES ASSUME NEW k \in Jobs, NEW g \in Grants,
                        hold'[k].status = "reserved", hold'[k].taken[g] > 0
                 PROVE  ledger'.grant[g].amount > 0 /\ ledger'.grant[g].available <= day'
      BY DEF HeldInWindow
    <2>1. day' \in Nat /\ day' >= day
      BY <1>16 DEF BooksInv, LedgerInv, Now
    <2>2. k # j
      BY <1>17, <1>21
    <2>3. hold'[k] = hold[k]
      BY <1>21, <2>2
    <2> QED BY <1>5, <1>14, <1>18, <2>1, <2>3, HeldStays
  <1>24. GrantsKept
    BY <1>13, <1>18 DEF GrantsKept
  <1> QED BY <1>19, <1>20, <1>22, <1>23, <1>24 DEF BooksInv

LEMMA CaptureBooks ==
    ASSUME BooksInv, LedgerInv', NEW j \in Jobs, Capture(j)
    PROVE  BooksInv' /\ GrantsKept
  <1> PICK n \in 0..HoldAmount[j] : SettleHold(j, "captured", n)
    BY DEF Capture
  <1>1. n \in Nat
    BY LedgerAssumption DEF LedgerAssumption, Positive
  <1> QED BY <1>1, SettleHoldBooks

LEMMA ReleaseBooks ==
    ASSUME BooksInv, LedgerInv', NEW j \in Jobs, Release(j)
    PROVE  BooksInv' /\ GrantsKept
  BY SettleHoldBooks DEF Release

LEMMA BooksNext == BooksInv /\ [LedgerNext]_ledgerVars => BooksInv' /\ GrantsKept
  <1> SUFFICES ASSUME BooksInv, [LedgerNext]_ledgerVars PROVE BooksInv' /\ GrantsKept
    OBVIOUS
  <1>1. LedgerInv'
    BY LedgerNextInv DEF BooksInv
  <1>2. day \in Nat
    BY DEF BooksInv, LedgerInv, Now
  <1>3. CASE UNCHANGED ledgerVars
    BY <1>1, <1>2, <1>3, NextDayBooks DEF ledgerVars
  <1>4. CASE Bill
    BY <1>1, <1>4, ChargeBooks, ReserveBooks, CaptureBooks, ReleaseBooks DEF Bill
  <1>5. CASE Repay
    <2>1. CASE RepayNothing
      BY <1>1, <2>1, SettledBooks DEF RepayNothing
    <2> QED BY <1>1, <1>5, <2>1, RepayPermanentBooks, RepayTemporaryBooks DEF Repay
  <1>6. CASE \E n \in Amounts : Advance(n) \/ ExchangeCredit(n) \/ PayIn(n)
    BY <1>1, <1>6, AdvanceBooks, ExchangeCreditBooks, PayInBooks
  <1>7. CASE \E amount \in ExchangeAmounts \cup {0} : SetExchange(amount)
    BY <1>1, <1>7, SetExchangeBooks
  <1>8. CASE SettleDue
    BY <1>1, <1>8, SettledBooks DEF SettleDue
  <1>9. CASE AutoExchangeIfNeeded
    BY <1>1, <1>9, AutoExchangedBooks DEF AutoExchangeIfNeeded
  <1>10. CASE Issue
    <2> PICK n \in Amounts, from \in {day, Tomorrow}, until \in {Tomorrow, Tomorrow + 1} :
          IssueGrant(n, from, until)
      BY <1>10 DEF Issue
    <2>1. from \in Nat /\ until \in Nat
      BY <1>2 DEF Tomorrow
    <2> QED BY <1>1, <2>1, IssueBooks
  <1>11. CASE NextDay
    BY <1>1, <1>2, <1>11, NextDayBooks DEF NextDay
  <1> QED BY <1>3, <1>4, <1>5, <1>6, <1>7, <1>8, <1>9, <1>10, <1>11 DEF LedgerNext

LEMMA BooksInit == LedgerInit => BooksInv
  <1> SUFFICES ASSUME LedgerInit PROVE BooksInv
    OBVIOUS
  <1>1. LedgerInv
    BY LedgerInitInv
  <1>2. IsFiniteSet(Jobs) /\ IsFiniteSet(Requests)
    BY LedgerAssumption DEF LedgerAssumption
  <1>3. FrozenSum = 0
    <2>1. {j \in Jobs : hold[j].status = "reserved"} = {}
      BY DEF LedgerInit, NoHold
    <2> QED BY <2>1, SumOfNone DEF FrozenSum
  <1>4. ASSUME NEW g \in Grants PROVE KeptSum(g) = 0
    <2>1. \A j \in Jobs : Kept(j, g) = 0
      BY DEF LedgerInit, NoHold, Kept, Nothing
    <2> QED BY <1>2, <2>1, SumOfZeros DEF KeptSum, SumFunction
  <1>5. ChargedSum = 0
    <2>1. \A r \in Requests : charge[r].permanent = 0
      BY DEF LedgerInit, NoCharge
    <2> QED BY <1>2, <2>1, SumOfZeros DEF ChargedSum, SumFunction
  <1>6. CapturedSum = 0
    <2>1. \A j \in Jobs : hold[j].permanentCaptured = 0
      BY DEF LedgerInit, NoHold
    <2> QED BY <1>2, <2>1, SumOfZeros DEF CapturedSum, SumFunction
  <1>7. /\ ledger.balance = 0 /\ ledger.frozen = 0 /\ ledger.exchange = 0 /\ ledger.banked = 0
        /\ income = 0
        /\ \A g \in Grants : /\ ledger.grant[g].amount = 0 /\ ledger.grant[g].remaining = 0
                             /\ ledger.consumed[g] = 0 /\ ledger.loan[g].unused = 0
    BY DEF LedgerInit, Nothing
  <1>8. Totals
    BY <1>3, <1>4, <1>5, <1>6, <1>7 DEF Totals, Reserved, Unbooked, WithJobs, Deposit
  <1>9. Swept
    BY <1>7 DEF Swept
  <1>10. Blank
    BY DEF LedgerInit, NoHold, NoCharge, Blank
  <1>11. HeldInWindow
    BY DEF LedgerInit, NoHold, HeldInWindow
  <1> QED BY <1>1, <1>8, <1>9, <1>10, <1>11 DEF BooksInv

\* The books are in order after every transaction.
LEMMA BooksInvariant == LedgerSpec => []BooksInv
  <1>1. BooksInv /\ [LedgerNext]_ledgerVars => BooksInv'
    BY BooksNext
  <1> QED BY <1>1, BooksInit, PTL DEF LedgerSpec

(* For any jobs and settings of the automatic exchange, the frozen balance *)
(* is what the holds that are not settled and the deposit put there:       *)
(* settleBatchImageCreditHold and UpdateAutoExchangePreferenceAtomic never *)
(* release what the other froze.                                           *)
THEOREM LedgerFrozen == LedgerSpec => []FrozenIsHeld
  <1>1. BooksInv => FrozenIsHeld
    BY TotalsSay DEF BooksInv
  <1> QED BY <1>1, BooksInvariant, PTL

(* Every unit of credit granted is left, was consumed, is held for a job,  *)
(* expired in a hold or was taken back as unused: neither the settlement   *)
(* of a hold nor settleUnusedAdvanceLocked gives credit back twice.        *)
THEOREM LedgerCredit == LedgerSpec => []CreditAddsUp
  <1>1. BooksInv => CreditAddsUp
    BY TotalsSay DEF BooksInv
  <1> QED BY <1>1, BooksInvariant, PTL

(* The balance is what was paid in and what bank_ledger booked, less the   *)
(* permanent part of the charges of usageBillingRepository.Apply and of    *)
(* the captures of settleBatchImageCreditHold.                             *)
THEOREM LedgerBooked == LedgerSpec => []BalanceIsBooked
  <1>1. BooksInv => BalanceIsBooked
    BY TotalsSay DEF BooksInv
  <1> QED BY <1>1, BooksInvariant, PTL

(* No transaction moves the credit of a grant before it begins or after it *)
(* ends (updateTemporaryCreditGrant and the release of a hold), but for    *)
(* settleUnusedAdvanceLocked, which takes all that is left of an advance.  *)
THEOREM LedgerInWindow == LedgerSpec => MovesInWindow
  <1>1. BooksInv /\ [LedgerNext]_ledgerVars =>
          [\A g \in Grants :
             LET row == ledger.grant[g] IN
             /\ row.amount > 0
             /\ row.remaining # ledger'.grant[g].remaining
             => \/ row.available <= day /\ day < row.expires
                \/ ledger.loan[g].status # "none" /\ ledger'.grant[g].remaining = 0]_ledgerVars
    BY BooksNext DEF GrantsKept, KeepsGrant, InWindow
  <1> QED BY <1>1, BooksInvariant, PTL DEF LedgerSpec, MovesInWindow

---------------------------------------------------------------------------
(* What the books imply for a single row. *)

\* A hold that is not settled and the deposit find their balance frozen.
FrozenCovers ==
    /\ ledger.frozen >= Deposit(ledger.exchange)
    /\ \A j \in Jobs : hold[j].status = "reserved" =>
          ledger.frozen >= Deposit(ledger.exchange) + hold[j].permanent

\* A grant has room for what a hold may still give back.
RestoreFits ==
    \A g \in Grants :
        /\ ledger.grant[g].remaining <= ledger.grant[g].amount
        /\ \A j \in Jobs : hold[j].status = "reserved" =>
              ledger.grant[g].remaining + hold[j].taken[g] <= ledger.grant[g].amount

(* The guards on the frozen balance never fail: neither the settlement of  *)
(* a hold (frozen_balance >= its permanent part) nor a change of the       *)
(* automatic exchange (frozen >= oldDeposit) is ever refused for it.       *)
THEOREM LedgerFrozenCovers == LedgerSpec => []FrozenCovers
  <1>1. BooksInv => FrozenCovers
    <2> SUFFICES ASSUME BooksInv PROVE FrozenCovers
      OBVIOUS
    <2> DEFINE held == {j \in Jobs : hold[j].status = "reserved"}
               permanent == [j \in Jobs |-> hold[j].permanent]
    <2>1. LedgerInv /\ Reserved(ledger) = FrozenSum
      BY DEF BooksInv, Totals
    <2>2. /\ ledger.frozen \in Int /\ Deposit(ledger.exchange) \in Int /\ FrozenSum \in Nat
      BY <2>1, AccountTypes, SumTypes DEF LedgerInv, Sound, Deposit
    <2>3. ledger.frozen = Deposit(ledger.exchange) + FrozenSum
      BY <2>1, <2>2 DEF Reserved
    <2>4. IsFiniteSet(held) /\ Counts(permanent, held)
      <3>1. \A j \in Jobs : hold[j].permanent \in Nat
        BY <2>1 DEF LedgerInv, HoldsOK, HoldRow
      <3> QED BY <3>1, FS_Subset, LedgerAssumption DEF LedgerAssumption, Counts
    <2>5. ASSUME NEW j \in Jobs, hold[j].status = "reserved"
          PROVE  FrozenSum >= hold[j].permanent
      <3>1. j \in held /\ permanent[j] = hold[j].permanent
        BY <2>5
      <3>2. /\ FrozenSum = SumFunctionOnSet(permanent, held \ {j}) + permanent[j]
            /\ SumFunctionOnSet(permanent, held \ {j}) \in Nat /\ permanent[j] \in Nat
        <4> HIDE DEF held, permanent
        <4>1. FrozenSum = SumFunctionOnSet(permanent, held)
          BY DEF FrozenSum, held, permanent
        <4> QED BY <2>4, <3>1, <4>1, SumRemove
      <3> QED BY <3>1, <3>2
    <2>6. \A j \in Jobs : hold[j].permanent \in Nat
      BY <2>1 DEF LedgerInv, HoldsOK, HoldRow
    <2> QED BY <2>2, <2>3, <2>5, <2>6 DEF FrozenCovers
  <1> QED BY <1>1, BooksInvariant, PTL

(* No grant ever exceeds its amount, and the release of a hold never makes *)
(* it: the CHECK on remaining_amount (migration 175), which would end that *)
(* transaction and leave the hold, never fails.                            *)
THEOREM LedgerRestoreFits == LedgerSpec => []RestoreFits
  <1>1. BooksInv => RestoreFits
    <2> SUFFICES ASSUME BooksInv, NEW g \in Grants
                 PROVE  /\ ledger.grant[g].remaining <= ledger.grant[g].amount
                        /\ \A j \in Jobs : hold[j].status = "reserved" =>
                              ledger.grant[g].remaining + hold[j].taken[g]
                                <= ledger.grant[g].amount
      BY DEF RestoreFits
    <2> DEFINE kept == [j \in Jobs |-> Kept(j, g)]
    <2>1. LedgerInv /\ ledger \in Ledger /\ WithJobs(ledger, g) = KeptSum(g)
      BY DEF BooksInv, Totals, LedgerInv, Sound
    <2>2. /\ ledger.grant[g].amount \in Nat /\ ledger.grant[g].remaining \in Nat
          /\ ledger.consumed[g] \in Nat /\ ledger.loan[g].unused \in Nat /\ KeptSum(g) \in Nat
      BY <2>1, BookTypes, SumTypes
    <2>3. ledger.grant[g].remaining + KeptSum(g) <= ledger.grant[g].amount
      BY <2>1, <2>2 DEF WithJobs
    <2>4. IsFiniteSet(Jobs) /\ Counts(kept, Jobs)
      <3>1. \A j \in Jobs : Kept(j, g) \in Nat
        BY <2>1 DEF LedgerInv, HoldsOK, HoldRow, Credit, Kept
      <3> QED BY <3>1, LedgerAssumption DEF LedgerAssumption, Counts
    <2>5. ASSUME NEW j \in Jobs, hold[j].status = "reserved"
          PROVE  hold[j].taken[g] \in Nat /\ KeptSum(g) >= hold[j].taken[g]
      <3>1. kept[j] = hold[j].taken[g]
        BY <2>5 DEF Kept
      <3>2. /\ KeptSum(g) = SumFunctionOnSet(kept, Jobs \ {j}) + kept[j]
            /\ SumFunctionOnSet(kept, Jobs \ {j}) \in Nat /\ kept[j] \in Nat
        <4>1. KeptSum(g) = SumFunctionOnSet(kept, Jobs)
          BY DEF KeptSum, SumFunction
        <4> HIDE DEF kept
        <4> QED BY <2>4, <4>1, SumRemove
      <3> QED BY <3>1, <3>2
    <2> QED BY <2>2, <2>3, <2>5
  <1> QED BY <1>1, BooksInvariant, PTL

---------------------------------------------------------------------------
(* The permanent balance comes last. *)

\* All the credit that can be used, taken.
LEMMA UsedUp ==
    ASSUME Now, NEW s \in Ledger, NEW t, t.grant = SetAside(s, UsableCredit(s)).grant,
           NEW g \in Grants
    PROVE  Usable(t, g) = 0
  <1>1. t.grant[g] = Moved(s.grant[g], -Usable(s, g))
    BY DEF SetAside, UsableCredit, Ledger
  <1>2. s.grant[g] \in Grant /\ s.grant[g].remaining \in Nat
    BY RowTypes
  <1>3. /\ t.grant[g].available = s.grant[g].available
        /\ t.grant[g].expires = s.grant[g].expires
        /\ t.grant[g].remaining = s.grant[g].remaining + (-Usable(s, g))
    BY <1>1, <1>2 DEF Moved, Grant
  <1> QED BY <1>2, <1>3 DEF Usable

LEMMA ChargePermanentLast ==
    ASSUME BooksInv, NEW q \in Requests, Charge(q),
           \/ \E r \in Requests : charge'[r].permanent # charge[r].permanent
           \/ \E j \in Jobs : hold'[j].permanent # hold[j].permanent
    PROVE  \A g \in Grants : Usable(ledger', g) = 0
  <1> PICK s \in AutoExchanged(ledger) : \E d \in Split(s, UsableCredit(s), Cost[q]) :
         /\ ledger' = [Consume(s, d.taken) EXCEPT !.balance = @ - d.permanent]
         /\ charge' = [charge EXCEPT ![q] = [taken |-> d.taken, permanent |-> d.permanent,
                                             billed |-> TRUE]]
    BY DEF Charge
  <1> PICK d \in Split(s, UsableCredit(s), Cost[q]) :
         /\ ledger' = [Consume(s, d.taken) EXCEPT !.balance = @ - d.permanent]
         /\ charge' = [charge EXCEPT ![q] = [taken |-> d.taken, permanent |-> d.permanent,
                                             billed |-> TRUE]]
    OBVIOUS
  <1>1. s \in Ledger /\ Now /\ Sound(s)
    BY BooksSorted, AutoExchangedSettles DEF Sorted, Sound
  <1>2. hold' = hold /\ charge[q].permanent = 0 /\ charge \in [Requests -> ChargeRow]
    BY BookRows DEF Charge, BooksInv, Blank
  <1>3. d.permanent # 0
    <2> PICK r \in Requests : charge'[r].permanent # charge[r].permanent
      BY <1>2
    <2>1. r = q
      BY <1>2
    <2> QED BY <1>2, <2>1
  <1>4. d.permanent > 0 => d.taken = UsableCredit(s)
    BY DEF Split
  <1>5. Cost[q] \in Nat /\ d.permanent \in Nat
    <2>1. Cost[q] \in Nat
      BY LedgerAssumption DEF LedgerAssumption, Positive
    <2> QED BY <2>1, SplitTakes
  <1>6. ledger'.grant = SetAside(s, d.taken).grant
    <2>1. \E c : Consume(s, d.taken) = [SetAside(s, d.taken) EXCEPT !.consumed = c]
      BY DEF Consume
    <2>2. SetAside(s, d.taken) \in Ledger
      BY <1>1, <1>5, SpendableSound DEF Sound
    <2> PICK c : Consume(s, d.taken) = [SetAside(s, d.taken) EXCEPT !.consumed = c]
      BY <2>1
    <2> DEFINE u == Consume(s, d.taken)
    <2>3. u \in Ledger
      BY <1>1, <1>5, SpendableSound DEF Sound
    <2>4. u.grant = SetAside(s, d.taken).grant
      BY <2>2 DEF Ledger
    <2>5. ledger' = [u EXCEPT !.balance = @ - d.permanent]
      OBVIOUS
    <2> HIDE DEF u
    <2>6. ledger'.grant = u.grant
      BY <2>3, <2>5 DEF Ledger
    <2> QED BY <2>4, <2>6
  <1>7. ledger'.grant = SetAside(s, UsableCredit(s)).grant
    BY <1>3, <1>4, <1>5, <1>6
  <1>8. s \in Ledger /\ Now
    BY <1>1
  <1> QED BY ONLY <1>7, <1>8, UsedUp

LEMMA ReservePermanentLast ==
    ASSUME BooksInv, NEW k \in Jobs, Reserve(k),
           \/ \E r \in Requests : charge'[r].permanent # charge[r].permanent
           \/ \E j \in Jobs : hold'[j].permanent # hold[j].permanent
    PROVE  \A g \in Grants : Usable(ledger', g) = 0
  <1> PICK s \in AutoExchanged(ledger) : \E d \in Split(s, UsableCredit(s), HoldAmount[k]) :
         /\ ledger' = Freeze(SetAside(s, d.taken), d.permanent)
         /\ hold' = [hold EXCEPT ![k].status = "reserved", ![k].taken = d.taken,
                                 ![k].permanent = d.permanent]
    BY DEF Reserve
  <1> PICK d \in Split(s, UsableCredit(s), HoldAmount[k]) :
         /\ ledger' = Freeze(SetAside(s, d.taken), d.permanent)
         /\ hold' = [hold EXCEPT ![k].status = "reserved", ![k].taken = d.taken,
                                 ![k].permanent = d.permanent]
    OBVIOUS
  <1>1. s \in Ledger /\ Now
    BY BooksSorted, AutoExchangedSettles DEF Sorted, Sound
  <1>2. /\ charge' = charge /\ hold[k].permanent = 0 /\ hold \in [Jobs -> HoldRow]
        /\ hold[k] \in HoldRow
    BY BookRows DEF Reserve, BooksInv, Blank
  <1>3. d.permanent # 0
    <2> PICK j \in Jobs : hold'[j].permanent # hold[j].permanent
      BY <1>2
    <2>1. hold' = [hold EXCEPT ![k] = [hold[k] EXCEPT !.status = "reserved", !.taken = d.taken,
                                                      !.permanent = d.permanent]]
      BY <1>2
    <2>2. j = k
      BY <1>2, <2>1
    <2>3. hold'[k].permanent = d.permanent
      BY <1>2, <2>1 DEF HoldRow
    <2> QED BY <1>2, <2>2, <2>3
  <1>4. d.permanent > 0 => d.taken = UsableCredit(s)
    BY DEF Split
  <1>5. d.permanent \in Nat
    <2>1. HoldAmount[k] \in Nat
      BY LedgerAssumption DEF LedgerAssumption, Positive
    <2> QED BY <2>1, SplitTakes
  <1>6. ledger'.grant = SetAside(s, d.taken).grant
    BY <1>1 DEF Freeze, SetAside, Ledger
  <1>7. ledger'.grant = SetAside(s, UsableCredit(s)).grant
    BY <1>3, <1>4, <1>5, <1>6
  <1>8. s \in Ledger /\ Now
    BY <1>1
  <1> QED BY ONLY <1>7, <1>8, UsedUp

\* A settled hold keeps what it took of the balance on record.
LEMMA SettleKeepsPermanent ==
    ASSUME BooksInv, NEW k \in Jobs, NEW status, NEW n, SettleHold(k, status, n)
    PROVE  charge' = charge /\ \A j \in Jobs : hold'[j].permanent = hold[j].permanent
  <1>1. charge' = charge /\ hold \in [Jobs -> HoldRow]
    BY BookRows DEF SettleHold
  <1>2. \E p, e : hold' = [hold EXCEPT ![k] =
          [@ EXCEPT !.status = status, !.captured = n, !.permanentCaptured = p, !.expired = e]]
    BY DEF SettleHold
  <1> PICK p, e : hold' = [hold EXCEPT ![k] =
          [@ EXCEPT !.status = status, !.captured = n, !.permanentCaptured = p, !.expired = e]]
    BY <1>2
  <1> QED BY <1>1 DEF HoldRow

(* usageBillingRepository.Apply and reserveBatchImageCreditHold touch the  *)
(* balance only when they leave no temporary credit that can be used, and  *)
(* none of what the automatic exchange before them bought.                 *)
THEOREM LedgerPermanentLast == LedgerSpec => PermanentLast
  <1>1. BooksInv /\ [LedgerNext]_ledgerVars =>
          [(\/ \E r \in Requests : charge'[r].permanent # charge[r].permanent
            \/ \E j \in Jobs : hold'[j].permanent # hold[j].permanent)
             => \A g \in Grants : Usable(ledger', g) = 0]_ledgerVars
    <2> SUFFICES ASSUME BooksInv, [LedgerNext]_ledgerVars,
                        \/ \E r \in Requests : charge'[r].permanent # charge[r].permanent
                        \/ \E j \in Jobs : hold'[j].permanent # hold[j].permanent
                 PROVE  \A g \in Grants : Usable(ledger', g) = 0
      OBVIOUS
    <2>1. \/ UNCHANGED <<charge, hold>>
          \/ \E r \in Requests : Charge(r)
          \/ \E j \in Jobs : Reserve(j) \/ Capture(j) \/ Release(j)
      BY DEF LedgerNext, ledgerVars, Bill, Repay, RepayNothing, RepayPermanent,
             RepayTemporary, Advance, ExchangeCredit, PayIn, SetExchange, SettleDue,
             AutoExchangeIfNeeded, Issue, IssueGrant, NextDay, OnlyLedger
    <2>2. CASE UNCHANGED <<charge, hold>>
      BY <2>2
    <2>3. CASE \E j \in Jobs : Capture(j) \/ Release(j)
      BY <2>3, SettleKeepsPermanent DEF Capture, Release
    <2> QED BY <2>1, <2>2, <2>3, ChargePermanentLast, ReservePermanentLast
  <1> QED BY <1>1, BooksInvariant, PTL DEF LedgerSpec, PermanentLast

--------------------------------------------------------------------------------
(* The order of locks (LedgerLocks).  Every transaction but a settlement    *)
(* starts with a lock on the user, and only charges share it: apart from   *)
(* settlements and charges, one transaction at a time has any lock.        *)

LocksTypes ==
    /\ kind \in [Transactions -> DOMAIN Plan]
    /\ taken \in [Transactions -> Nat]
    /\ outcome \in [Transactions -> {"none", "running", "committed", "failed"}]
    /\ \A t \in Transactions : taken[t] <= Len(Plan[kind[t]])

\* t and u may both have locks.
BothMayHold(t, u) ==
    \/ kind[t] = "settle" \/ kind[u] = "settle"
    \/ kind[t] = "charge" /\ kind[u] = "charge"

OneHolder ==
    \A t, u \in Transactions :
        (t # u /\ outcome[t] = "running" /\ outcome[u] = "running") =>
            taken[t] = 0 \/ taken[u] = 0 \/ BothMayHold(t, u)

HolderInv == LocksTypes /\ OneHolder

(* Plan: a charge shares the user first, the bank and a reservation lock   *)
(* it alone.                                                               *)
LEMMA FirstLock ==
    ASSUME NEW k \in DOMAIN Plan
    PROVE  /\ Len(Plan[k]) \in Nat \ {0}
           /\ k = "charge" => Plan[k][1] = <<"user", "keyShare">>
           /\ k \notin {"charge", "settle"} => Plan[k][1] = <<"user", "update">>
<1>1. CASE k = "charge"
  <2>1. Plan[k] = << <<"user", "keyShare">>, <<"user", "update">>, <<"grants", "update">> >>
    BY <1>1 DEF Plan
  <2> QED BY <1>1, <2>1
<1>2. CASE k = "bank"
  <2>1. Plan[k] = << <<"user", "update">>, <<"grants", "update">> >>
    BY <1>2 DEF Plan
  <2> QED BY <1>2, <2>1
<1>3. CASE k = "reserve"
  <2>1. Plan[k] = << <<"user", "update">>, <<"grants", "update">>, <<"user", "update">> >>
    BY <1>3 DEF Plan
  <2> QED BY <1>3, <2>1
<1>4. CASE k = "settle"
  <2>1. Plan[k] = << <<"grants", "update">>, <<"user", "noKeyUpdate">> >>
    BY <1>4 DEF Plan
  <2> QED BY <1>4, <2>1
<1> QED BY <1>1, <1>2, <1>3, <1>4 DEF Plan

(* Two first locks on the user conflict, unless both belong to charges. *)
LEMMA FirstLocksConflict ==
    ASSUME NEW k \in DOMAIN Plan, NEW l \in DOMAIN Plan, k # "settle", l # "settle",
           k # "charge" \/ l # "charge"
    PROVE  Conflicts(Plan[k][1], Plan[l][1])
<1>1. Plan[k][1] \in {<<"user", "keyShare">>, <<"user", "update">>}
  BY FirstLock
<1>2. Plan[l][1] \in {<<"user", "keyShare">>, <<"user", "update">>}
  BY FirstLock
<1>3. Plan[k][1] = <<"user", "update">> \/ Plan[l][1] = <<"user", "update">>
  BY FirstLock
<1> QED BY <1>1, <1>2, <1>3 DEF Conflicts

(* Whoever blocks another transaction holds a lock. *)
LEMMA BlockersHold ==
    ASSUME LocksTypes, NEW t \in Transactions, NEW u \in Blockers(t)
    PROVE  u \in Transactions /\ u # t /\ outcome[u] = "running" /\ taken[u] > 0
BY DEF Blockers, Held, LocksTypes

(* A circle has two holders of locks: one is a settlement, or both charge. *)
LEMMA CircleHasHolders ==
    ASSUME HolderInv PROVE CirclesOutOfOrder
<1> SUFFICES ASSUME NEW group \in SUBSET Transactions, CircularWait(group)
             PROVE  OutOfOrder(group)
  BY DEF CirclesOutOfOrder
<1>1. PICK t \in group : t \in Transactions
  BY DEF CircularWait
<1>2. PICK u \in group : u \in Blockers(t)
  BY <1>1 DEF CircularWait
<1>3. PICK v \in group : v \in Blockers(u)
  BY <1>2 DEF CircularWait
<1>4. u \in Transactions /\ outcome[u] = "running" /\ taken[u] > 0
  BY <1>1, <1>2, BlockersHold DEF HolderInv
<1>5. v \in Transactions /\ v # u /\ outcome[v] = "running" /\ taken[v] > 0
  BY <1>3, <1>4, BlockersHold DEF HolderInv
<1>6. BothMayHold(u, v)
  BY <1>4, <1>5 DEF HolderInv, OneHolder, LocksTypes
<1> QED BY <1>2, <1>3, <1>5, <1>6 DEF BothMayHold, OutOfOrder

(* A transaction takes its first lock only while no other one has any, but *)
(* for settlements and, if it is a charge, charges.                        *)
LEMMA TakeKeepsHolder ==
    ASSUME HolderInv, NEW t \in Transactions, Take(t)
    PROVE  HolderInv'
<1>1. /\ kind' = kind /\ outcome' = outcome
      /\ taken' = [taken EXCEPT ![t] = taken[t] + 1]
      /\ outcome[t] = "running"
      /\ taken[t] # Len(Plan[kind[t]])
      /\ Blockers(t) = {}
  BY DEF Take, Complete
<1>2. \A u \in Transactions : kind[u] \in DOMAIN Plan /\ Len(Plan[kind[u]]) \in Nat
  BY FirstLock DEF HolderInv, LocksTypes
<1>3. LocksTypes'
  BY <1>1, <1>2 DEF HolderInv, LocksTypes
<1>4. ASSUME NEW u \in Transactions, u # t, outcome[u] = "running"
      PROVE  taken[u] = 0 \/ BothMayHold(t, u)
  <2> SUFFICES ASSUME taken[u] # 0, ~BothMayHold(t, u) PROVE FALSE
    OBVIOUS
  <2>1. taken[t] = 0
    BY <1>1, <1>4 DEF HolderInv, OneHolder
  <2>2. Wanted(t) = Plan[kind[t]][1]
    BY <2>1 DEF Wanted
  <2>3. 1 \in 1..taken[u]
    BY DEF HolderInv, LocksTypes
  <2>4. Plan[kind[u]][1] \in Held(u)
    BY <2>3 DEF Held
  <2>5. Conflicts(Plan[kind[u]][1], Wanted(t))
    BY <1>2, <2>2, FirstLocksConflict DEF BothMayHold
  <2>6. u \in Blockers(t)
    BY <1>1, <1>4, <2>4, <2>5 DEF Blockers, Complete
  <2> QED BY <2>6, <1>1
<1>5. OneHolder'
  BY <1>1, <1>4 DEF OneHolder, HolderInv, LocksTypes, BothMayHold
<1> QED BY <1>3, <1>5 DEF HolderInv

(* A transaction begins without a lock; one that ends gives up all of them. *)
LEMMA BeginKeepsHolder ==
    ASSUME HolderInv, NEW t \in Transactions, outcome[t] = "none" => taken[t] = 0,
           Begin(t)
    PROVE  HolderInv'
BY DEF HolderInv, LocksTypes, OneHolder, BothMayHold, Begin

LEMMA EndKeepsHolder ==
    ASSUME HolderInv, NEW t \in Transactions, Commit(t) \/ Fail(t)
    PROVE  HolderInv'
<1>1. PICK end \in {"committed", "failed"} :
        kind' = kind /\ taken' = taken /\ outcome' = [outcome EXCEPT ![t] = end]
  BY DEF Commit, Fail
<1>2. \A u \in Transactions : outcome'[u] = "running" => outcome[u] = "running"
  BY <1>1 DEF HolderInv, LocksTypes
<1>3. LocksTypes'
  BY <1>1 DEF HolderInv, LocksTypes
<1>4. OneHolder'
  BY <1>1, <1>2 DEF HolderInv, OneHolder, BothMayHold
<1> QED BY <1>3, <1>4 DEF HolderInv

\* A transaction that has not begun has no lock.
NoneBeforeBegin == \A t \in Transactions : outcome[t] = "none" => taken[t] = 0

(* The inductive invariant of the lock order. *)
LEMMA HolderInvariant == LocksSpec => [](HolderInv /\ NoneBeforeBegin)
<1>1. LocksInit => HolderInv /\ NoneBeforeBegin
  <2> SUFFICES ASSUME LocksInit PROVE HolderInv /\ NoneBeforeBegin
    OBVIOUS
  <2>1. \A t \in Transactions : Len(Plan[kind[t]]) \in Nat
    BY FirstLock DEF LocksInit
  <2> QED BY <2>1 DEF LocksInit, HolderInv, LocksTypes, OneHolder, NoneBeforeBegin
<1>2. HolderInv /\ NoneBeforeBegin /\ [LocksNext]_lockOrderVars
        => HolderInv' /\ NoneBeforeBegin'
  <2> SUFFICES ASSUME HolderInv, NoneBeforeBegin, [LocksNext]_lockOrderVars
               PROVE  HolderInv' /\ NoneBeforeBegin'
    OBVIOUS
  <2>1. CASE UNCHANGED lockOrderVars
    BY <2>1 DEF lockOrderVars, HolderInv, LocksTypes, OneHolder, BothMayHold, NoneBeforeBegin
  <2>2. ASSUME NEW t \in Transactions, Begin(t) PROVE HolderInv' /\ NoneBeforeBegin'
    <3>1. HolderInv'
      BY <2>2, BeginKeepsHolder DEF NoneBeforeBegin
    <3>2. NoneBeforeBegin'
      BY <2>2 DEF Begin, NoneBeforeBegin, HolderInv, LocksTypes
    <3> QED BY <3>1, <3>2
  <2>3. ASSUME NEW t \in Transactions, Take(t) PROVE HolderInv' /\ NoneBeforeBegin'
    <3>1. HolderInv'
      BY <2>3, TakeKeepsHolder
    <3>2. NoneBeforeBegin'
      BY <2>3 DEF Take, NoneBeforeBegin, HolderInv, LocksTypes
    <3> QED BY <3>1, <3>2
  <2>4. ASSUME NEW t \in Transactions, Commit(t) \/ Fail(t)
        PROVE  HolderInv' /\ NoneBeforeBegin'
    <3>1. HolderInv'
      BY <2>4, EndKeepsHolder
    <3>2. NoneBeforeBegin'
      BY <2>4 DEF Commit, Fail, NoneBeforeBegin, HolderInv, LocksTypes
    <3> QED BY <3>1, <3>2
  <2> QED BY <2>1, <2>2, <2>3, <2>4 DEF LocksNext
<1> QED BY <1>1, <1>2, PTL DEF LocksSpec

(* bank_service.go, usage_billing_repo.go, usage_billing_batch_image_hold_ *)
(* repo.go: however many transactions of a user run, those that wait for   *)
(* each other in a circle include a settlement or two charges.             *)
THEOREM LockCircles == LocksSpec => []CirclesOutOfOrder
<1>1. HolderInv => CirclesOutOfOrder
  BY CircleHasHolders
<1> QED BY <1>1, HolderInvariant, PTL

(* The database ends a transaction of the bank, a reservation or a charge  *)
(* that nobody retries only where such others are about.                   *)
THEOREM LockFailures == LocksSpec => []FailuresOutOfOrder
<1>1. LocksInit => FailuresOutOfOrder
  BY DEF LocksInit, FailuresOutOfOrder
<1>2. FailuresOutOfOrder /\ HolderInv /\ [LocksNext]_lockOrderVars => FailuresOutOfOrder'
  <2> SUFFICES ASSUME FailuresOutOfOrder, HolderInv, [LocksNext]_lockOrderVars
               PROVE  FailuresOutOfOrder'
    OBVIOUS
  <2>1. kind' = kind
    BY DEF LocksNext, Begin, Take, Commit, Fail, lockOrderVars
  <2>2. CASE \E t \in Transactions : Fail(t)
    <3>1. PICK group \in SUBSET Transactions : CircularWait(group)
      BY <2>2 DEF Fail
    <3>2. OutOfOrder(group)
      BY <3>1, CircleHasHolders DEF CirclesOutOfOrder
    <3>3. OutOfOrder(Transactions)'
      BY <2>1, <3>2 DEF OutOfOrder
    <3> QED BY <3>3 DEF FailuresOutOfOrder
  <2>3. CASE ~\E t \in Transactions : Fail(t)
    <3>1. outcome \in [Transactions -> {"none", "running", "committed", "failed"}]
      BY DEF HolderInv, LocksTypes
    <3>2. \A t \in Transactions : outcome'[t] = "failed" => outcome[t] = "failed"
      BY <2>3, <3>1 DEF LocksNext, Begin, Take, Commit, lockOrderVars
    <3> QED BY <2>1, <3>2 DEF FailuresOutOfOrder, OutOfOrder
  <2> QED BY <2>2, <2>3
<1>3. HolderInv /\ NoneBeforeBegin => HolderInv
  OBVIOUS
<1> QED BY <1>1, <1>2, <1>3, HolderInvariant, PTL DEF LocksSpec

================================================================================
