------------------------------ MODULE LiveCall ------------------------------
(***************************************************************************)
(* One live (voice) call of openai_live.go: its creation, the observers    *)
(* and client proxies that take turns in controlling it, and the end that  *)
(* gives its concurrency lease back and writes its usage log.  They share  *)
(* the record of the call in Redis, which gateway_cache.go changes by      *)
(* scripts, and its lease (concurrency_cache.go), here only its state.     *)
(*                                                                         *)
(* A step is one script, one read, one dial, or the end of a connection.   *)
(* Left out: frames that are forwarded, the choice of an account and the   *)
(* checks of identity and attestation; a refused choice or check is a call *)
(* that is not created, or a dial that fails.                              *)
(***************************************************************************)
EXTENDS Integers, FiniteSets

CONSTANTS
    Creator,     \* the handler that creates the call
    Proxies,     \* sideband requests of its client
    Nobody,      \* controls the call while it is pending
    RetryLimit,  \* liveObserverStoreRetryLimit
    FaultKinds,  \* which of "store", "answer", "death" may happen
    MaxFaults    \* bound on their number

ASSUME LiveAssumption ==
    /\ Creator \notin Proxies /\ Nobody \notin Proxies \cup {Creator}
    /\ RetryLimit \in Nat \ {0}
    /\ MaxFaults \in Nat

\* Every handler may start one observer when it ends.
Handlers == Proxies \cup {Creator}

VARIABLES
    call,      \* the record: its controller and, of a proxy, the owner
    lease,     \* the lease of the call on account, user and key
    expired,   \* time is past expires_at
    creator,   \* where CreateLiveCall is
    proxy,     \* where ProxyLiveSideband is, and how its connection ended
    observer,  \* where observeLiveCall is, and its storeErrStreak
    logged,    \* usage logs written
    faults,
    trouble    \* faults after which nobody may be left to end the call

liveVars == <<call, lease, expired, creator, proxy, observer, logged, faults, trouble>>

Open == {"pending", "observer", "proxy"}

\* finalizeLiveCall and finalizeLiveCallAfterExpiry, in proxies and observers.
Ending == {"finalize", "unlease", "log"}

ProxyAt    == {"idle", "claim", "dial", "run", "release", "after", "end"} \cup Ending
ObserverAt == {"none", "claim", "check", "dial", "run", "wait", "expiry", "end"} \cup Ending

LiveInit ==
    /\ call     = [controller |-> "none", owner |-> Nobody]
    /\ lease    = "none"
    /\ expired  = FALSE
    /\ creator  = "lease"
    /\ proxy    = [p \in Proxies |-> [at |-> "idle", left |-> "undialed"]]
    /\ observer = [h \in Handlers |-> [at |-> "none", errors |-> 0]]
    /\ logged   = 0
    /\ faults   = 0
    /\ trouble  = {}

NoFault == UNCHANGED <<faults, trouble>>

Counted(kind) == kind \in FaultKinds /\ faults < MaxFaults /\ faults' = faults + 1

Fault(kind) == Counted(kind) /\ UNCHANGED trouble

Troubles(kind) == Counted(kind) /\ trouble' = trouble \cup {kind}

Controller(c, owner) == call' = [controller |-> c, owner |-> owner]

Spawn(h) == observer' = [observer EXCEPT ![h].at = "claim"]

(* Creation. *)

OthersOfCreator == UNCHANGED <<expired, proxy, logged>>

\* AcquireLiveLease, while the request holds its ordinary slots.
AcquireLease ==
    /\ creator = "lease"
    /\ \/ lease' = "held" /\ creator' = "upstream"
       \/ creator' = "refused" /\ UNCHANGED lease
    /\ UNCHANGED <<call, observer>> /\ NoFault /\ OthersOfCreator

\* Only its answer is lost: nobody gives the lease back, and it lapses.
LoseLease ==
    /\ creator = "lease"
    /\ creator' = "refused" /\ lease' = "held" /\ Fault("answer")
    /\ UNCHANGED <<call, observer>> /\ OthersOfCreator

\* createUpstreamLiveCall; after a failure another account may be tried.
CreateUpstream ==
    /\ creator = "upstream"
    /\ \/ creator' = "save" /\ UNCHANGED lease
       \/ creator' \in {"lease", "refused"} /\ lease' = "released"
    /\ UNCHANGED <<call, observer>> /\ NoFault /\ OthersOfCreator

\* SaveLiveCall, and an observer for the new call.  When it fails the lease goes back;
\* when only its answer is lost, the record stays pending with no one to observe it.
SaveCall ==
    /\ creator = "save"
    /\ \/ /\ creator' = "created" /\ Spawn(Creator) /\ Controller("pending", Nobody)
          /\ UNCHANGED lease /\ NoFault
       \/ /\ creator' = "refused" /\ lease' = "released" /\ UNCHANGED observer
          /\ \/ UNCHANGED call /\ Fault("store")
             \/ Controller("pending", Nobody) /\ Troubles("answer")
    /\ OthersOfCreator

CreatorStep == AcquireLease \/ LoseLease \/ CreateUpstream \/ SaveCall

(* The scripts of the record. *)

\* claimLiveControllerScript for an observer and for a proxy, whose owner is fresh.
ObserverMayClaim == call.controller = "pending"
ProxyMayClaim == call.controller \in {"pending", "observer"}

\* releaseLiveControllerScript.
ReleaseController(p) ==
    IF call.controller = "proxy" /\ call.owner = p THEN Controller("pending", Nobody)
                                                   ELSE UNCHANGED call

\* Mutant: the script does not ask whether the call is closed.
MayCloseAgain == call.controller # "none"

\* markLiveCallClosedScript: the first to close the call accounts for it.
MayClose == call.controller \in Open

(* The end of a call: finalizeLiveCall, and where its thread goes next. *)

\* Mutant: an error of the script is taken for the first closing.
MarkedOrFailed(next) ==
    \/ MayClose /\ next = "unlease" /\ Controller("closed", Nobody) /\ NoFault
    \/ ~MayClose /\ next = "end" /\ UNCHANGED call /\ NoFault
    \/ next = "unlease" /\ UNCHANGED call /\ Troubles("store")

\* MarkLiveCallClosed; an error is the end, whether or not the script ran.
Marked(next) ==
    \/ MayClose /\ next = "unlease" /\ Controller("closed", Nobody) /\ NoFault
    \/ MayClose /\ next = "end" /\ Controller("closed", Nobody) /\ Troubles("answer")
    \/ ~MayClose /\ next = "end" /\ UNCHANGED call /\ NoFault
    \/ next = "end" /\ UNCHANGED call /\ Troubles("store")

\* releaseLiveLease, whose error is ignored: the lease lapses then.
ReleaseLease ==
    \/ lease' = (IF lease = "lapsed" THEN lease ELSE "released") /\ NoFault
    \/ UNCHANGED lease /\ Fault("store")

\* writeUsageLogBestEffort, which falls back to a second way.
WriteLog ==
    \/ logged' = logged + 1 /\ NoFault
    \/ UNCHANGED logged /\ Troubles("store")

EndStep(at, next) ==
    \/ at = "finalize" /\ Marked(next) /\ UNCHANGED <<lease, logged>>
    \/ at = "unlease" /\ next = "log" /\ ReleaseLease /\ UNCHANGED <<call, logged>>
    \/ at = "log" /\ next = "end" /\ WriteLog /\ UNCHANGED <<call, lease>>

\* refreshLiveLease: a lease that lapsed is not written again.
RefreshLease == lease = "aging" /\ lease' = "held" /\ NoFault
RefreshFails == /\ UNCHANGED lease
                /\ \/ lease \in {"lapsed", "released"} /\ NoFault
                   \/ Fault("store")

(* ProxyLiveSideband. *)

ProxyGoes(p, at) == proxy' = [proxy EXCEPT ![p].at = at]
OthersOfProxy == UNCHANGED <<expired, creator>>

\* GetLiveCallForIdentity, for a client that knows the call.
StartProxy(p) ==
    /\ proxy[p].at = "idle" /\ creator = "created"
    /\ call.controller \in Open
    /\ ProxyGoes(p, "claim")
    /\ UNCHANGED <<call, lease, observer, logged>> /\ NoFault /\ OthersOfProxy

ClaimProxy(p) ==
    /\ proxy[p].at = "claim"
    /\ \/ /\ ProxyMayClaim
          /\ Controller("proxy", p)
          /\ \/ ProxyGoes(p, "dial") /\ NoFault
             \/ ProxyGoes(p, "end") /\ Troubles("answer")
       \/ ~ProxyMayClaim /\ UNCHANGED call /\ ProxyGoes(p, "end") /\ NoFault
       \/ UNCHANGED call /\ ProxyGoes(p, "end") /\ Fault("store")
    /\ UNCHANGED <<lease, observer, logged>> /\ OthersOfProxy

\* dialLiveSideband.
DialProxy(p) ==
    /\ proxy[p].at = "dial"
    /\ ProxyGoes(p, "run") \/ ProxyGoes(p, "release")
    /\ UNCHANGED <<call, lease, observer, logged>> /\ NoFault /\ OthersOfProxy

\* The connection ends because the session did (liveSessionEnded), or for another reason.
Disconnect(p, left) == proxy' = [proxy EXCEPT ![p] = [at |-> "release", left |-> left]]

\* runLiveController: the client leaves, the upstream breaks off or closes the session,
\* the time is over, or the lease is refreshed or found lost.
RunProxy(p) ==
    /\ proxy[p].at = "run"
    /\ \/ RefreshLease /\ UNCHANGED proxy
       \/ RefreshFails /\ Disconnect(p, "over")
       \/ \E left \in {"over", "broken"} : Disconnect(p, left) /\ UNCHANGED lease /\ NoFault
    /\ UNCHANGED <<call, observer, logged>> /\ OthersOfProxy

\* ReleaseLiveController, whose error is ignored.
ReleaseProxy(p) ==
    /\ proxy[p].at = "release"
    /\ ProxyGoes(p, "after")
    /\ \/ ReleaseController(p) /\ NoFault
       \/ UNCHANGED call /\ Troubles("store")
    /\ UNCHANGED <<lease, observer, logged>> /\ OthersOfProxy

\* A failed dial leaves the call to an observer, whatever the time.
AfterProxy(p) ==
    /\ proxy[p].at = "after"
    /\ \/ /\ proxy[p].left = "over" \/ (proxy[p].left = "broken" /\ expired)
          /\ ProxyGoes(p, "finalize") /\ UNCHANGED observer
       \/ /\ proxy[p].left = "undialed" \/ (proxy[p].left = "broken" /\ ~expired)
          /\ ProxyGoes(p, "end") /\ Spawn(p)
    /\ UNCHANGED <<call, lease, logged>> /\ NoFault /\ OthersOfProxy

EndProxy(p) ==
    /\ \E next \in Ending \cup {"end"} : EndStep(proxy[p].at, next) /\ ProxyGoes(p, next)
    /\ UNCHANGED observer /\ OthersOfProxy

ProxyStep(p) == \/ ClaimProxy(p) \/ DialProxy(p) \/ RunProxy(p)
                \/ ReleaseProxy(p) \/ AfterProxy(p) \/ EndProxy(p)

(* observeLiveCall. *)

Goes(h, at) == observer' = [observer EXCEPT ![h].at = at]
OthersOfObserver == UNCHANGED <<expired, creator, proxy>>

\* Mutant: an observer whose claim fails goes away.
ClaimOrLeave(h) ==
    /\ observer[h].at = "claim"
    /\ \/ /\ ObserverMayClaim
          /\ Controller("observer", Nobody)
          /\ \/ Goes(h, "check") /\ NoFault
             \/ Goes(h, "end") /\ Fault("answer")
       \/ ~ObserverMayClaim /\ UNCHANGED call /\ Goes(h, "end") /\ NoFault
       \/ UNCHANGED call /\ Goes(h, "end") /\ Fault("store")
    /\ UNCHANGED <<lease, logged>> /\ OthersOfObserver

\* An error may hide a claim that was made: the observer stays until the end.
ClaimObserver(h) ==
    /\ observer[h].at = "claim"
    /\ \/ /\ ObserverMayClaim
          /\ Controller("observer", Nobody)
          /\ \/ Goes(h, "check") /\ NoFault
             \/ Goes(h, "expiry") /\ Fault("answer")
       \/ ~ObserverMayClaim /\ UNCHANGED call /\ Goes(h, "end") /\ NoFault
       \/ UNCHANGED call /\ Goes(h, "expiry") /\ Fault("store")
    /\ UNCHANGED <<lease, logged>> /\ OthersOfObserver

\* The head of the loop: GetLiveCall, with a number of retries.
CheckCall(h) ==
    /\ observer[h].at = "check"
    /\ \/ /\ observer' = [observer EXCEPT ![h] =
                [at |-> IF call.controller # "observer" THEN "end"
                        ELSE IF expired THEN "finalize" ELSE "dial", errors |-> 0]]
          /\ NoFault
       \/ /\ LET n == observer[h].errors + 1 IN
             observer' = [observer EXCEPT ![h] =
                [at |-> IF n >= RetryLimit THEN "expiry" ELSE "check", errors |-> n]]
          /\ Fault("store")
    /\ UNCHANGED <<call, lease, logged>> /\ OthersOfObserver

DialObserver(h) ==
    /\ observer[h].at = "dial"
    /\ Goes(h, "run") \/ Goes(h, "wait")
    /\ UNCHANGED <<call, lease, logged>> /\ NoFault /\ OthersOfObserver

\* runLiveObserverConnection.
RunObserver(h) ==
    /\ observer[h].at = "run"
    /\ \/ RefreshLease /\ UNCHANGED observer
       \/ RefreshFails /\ Goes(h, "finalize")
       \/ Goes(h, "finalize") /\ UNCHANGED lease /\ NoFault \* closed, or expired
       \/ Goes(h, "wait") /\ UNCHANGED lease /\ NoFault     \* the connection broke
       \/ Goes(h, "wait") /\ UNCHANGED lease /\ Fault("store")
       \/ call.controller # "observer" /\ Goes(h, "end") /\ UNCHANGED lease /\ NoFault
    /\ UNCHANGED <<call, logged>> /\ OthersOfObserver

\* waitForLiveObserverRetry.
WaitObserver(h) ==
    /\ observer[h].at = "wait"
    /\ \/ Goes(h, IF call.controller = "observer" THEN "check" ELSE "end") /\ NoFault
       \/ Goes(h, "check") /\ Fault("store")
    /\ UNCHANGED <<call, lease, logged>> /\ OthersOfObserver

\* finalizeLiveCallAfterExpiry.
ExpireObserver(h) ==
    /\ observer[h].at = "expiry" /\ expired
    /\ Goes(h, "finalize")
    /\ UNCHANGED <<call, lease, logged>> /\ NoFault /\ OthersOfObserver

EndObserver(h) ==
    /\ \E next \in Ending \cup {"end"} : EndStep(observer[h].at, next) /\ Goes(h, next)
    /\ OthersOfObserver

ObserverStep(h) == \/ ClaimObserver(h) \/ CheckCall(h) \/ DialObserver(h) \/ RunObserver(h)
                   \/ WaitObserver(h) \/ ExpireObserver(h) \/ EndObserver(h)

(* Time, and the end of processes. *)

OthersOfTime == UNCHANGED <<creator, proxy, observer, logged>>

\* A connected controller refreshes three times per lifetime of the lease; with none
\* connected for so long, it lapses.
Connected == \/ \E p \in Proxies : proxy[p].at = "run"
             \/ \E h \in Handlers : observer[h].at = "run"

LeaseAges ==
    /\ \/ lease = "held" /\ ~Connected /\ lease' = "aging"
       \/ lease = "aging" /\ lease' = "lapsed"
    /\ UNCHANGED <<call, expired>> /\ NoFault /\ OthersOfTime

CallExpires ==
    /\ ~expired /\ call.controller # "none"
    /\ expired' = TRUE
    /\ UNCHANGED <<call, lease>> /\ NoFault /\ OthersOfTime

Busy == \/ \E p \in Proxies : proxy[p].at \notin {"idle", "end"}
        \/ \E h \in Handlers : observer[h].at \notin {"none", "end"}

\* The record goes five minutes after the end of the call, or a day after it was closed.
RecordExpires ==
    /\ expired /\ ~Busy /\ call.controller \in Open \cup {"closed"}
    /\ Controller("gone", Nobody)
    /\ UNCHANGED <<lease, expired>> /\ NoFault /\ OthersOfTime

ProxyDies(p) ==
    /\ proxy[p].at \notin {"idle", "end"}
    /\ ProxyGoes(p, "end") /\ Troubles("death")
    /\ UNCHANGED <<call, lease, expired, creator, observer, logged>>

ObserverDies(h) ==
    /\ observer[h].at \notin {"none", "end"}
    /\ Goes(h, "end") /\ Troubles("death")
    /\ UNCHANGED <<call, lease, expired, creator, proxy, logged>>

LiveNext ==
    \/ CreatorStep
    \/ \E p \in Proxies : StartProxy(p) \/ ProxyStep(p) \/ ProxyDies(p)
    \/ \E h \in Handlers : ObserverStep(h) \/ ObserverDies(h)
    \/ LeaseAges \/ CallExpires \/ RecordExpires

LiveSpec == LiveInit /\ [][LiveNext]_liveVars

\* Goroutines go on and a call expires; no client has to come, and no record to go.
FairLiveSpec ==
    /\ LiveSpec
    /\ WF_liveVars(CreatorStep)
    /\ \A p \in Proxies : WF_liveVars(ProxyStep(p))
    /\ \A h \in Handlers : WF_liveVars(ObserverStep(h))
    /\ WF_liveVars(CallExpires)

(* Properties. *)

\* Proxies and observers that were the first to close the call and account for it.
Accounting == {p \in Proxies : proxy[p].at \in {"unlease", "log"}}
AccountingObservers == {h \in Handlers : observer[h].at \in {"unlease", "log"}}

\* However many observers and proxies find that the call is over, one of them accounts
\* for it, and only after no new controller can take it over.
AccountedOnce ==
    /\ logged + Cardinality(Accounting) + Cardinality(AccountingObservers) <= 1
    /\ logged = 1 \/ Accounting # {} \/ AccountingObservers # {} =>
          call.controller \in {"closed", "gone"}

\* The concurrency that a call takes up is given back only when the call is closed, or
\* was never created; a controller that left must not free it under the next one.
LeaseOutlivesControl ==
    lease = "released" /\ call.controller \in Open => creator = "refused"

\* A call that is not closed is in somebody's hands, whoever took it over or gave it
\* up in between: a pending one will be claimed or closed, one with an observer has an
\* observer, and one with a proxy has that proxy.
SomeoneInCharge ==
    trouble = {} =>
      /\ call.controller = "pending" =>
            \/ \E h \in Handlers : observer[h].at \in {"claim", "expiry", "finalize"}
            \/ \E p \in Proxies : proxy[p].at \in {"after", "finalize"}
      /\ call.controller = "observer" =>
            \E h \in Handlers : observer[h].at \in ObserverAt \ {"none", "claim", "end"}
      /\ call.controller = "proxy" =>
            proxy[call.owner].at \in {"dial", "run", "release"}

\* A call that was created is accounted for in the end, through every takeover, broken
\* connection, lapse of its lease and failing read of its record.
EveryCallAccounted ==
    [](trouble = {}) => (creator = "created" ~> logged = 1)

\* openai_live.go: an observer that was taken over closes its old control connection.
OneObserver == Cardinality({h \in Handlers : observer[h].at = "run"}) <= 1

\* openai_live.go: the client may join the same call again, so a call is not left in the
\* hands of a proxy that is gone.
Rejoinable == call.controller = "proxy" => proxy[call.owner].at # "end"
================================================================================
