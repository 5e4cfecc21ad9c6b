--------------------------- MODULE ConcurrencySlots ---------------------------
(***************************************************************************)
(* The concurrency slots of one user (or one upstream account) in Redis:   *)
(* concurrency_cache.go, its service, and the handlers that wait for a     *)
(* slot (gateway_helper.go) or replace it by the lease of a live call      *)
(* (openai_live.go).  A step is one Lua script, one pipeline or one        *)
(* command.                                                                *)
(*                                                                         *)
(* Assumed: a request ends before its slot lapses (config.go asks for a    *)
(* lifetime above that of the longest request), and waits less than the    *)
(* lifetime of the counter of waiters.  Left out: the slots of API keys,   *)
(* which are only counted, and reads for the scheduler.                    *)
(*                                                                         *)
(* A process that starts takes the slots of the others for those of dead   *)
(* processes, and a lease may lapse while its call goes on: lost and       *)
(* missed record whom the counts have lost that way, or never had.         *)
(***************************************************************************)
EXTENDS Integers, FiniteSets

CONSTANTS
    Requests,    \* ordinary requests, which may wait for a slot
    Calls,       \* creations of live calls
    Replicas,    \* processes of the server
    Home,        \* the process that serves a request
    Limit,       \* maxConcurrency
    QueueLimit,  \* how many requests may wait
    FaultKinds,  \* which of "store", "answer", "count", "death" may happen
    MaxFaults    \* bound on their number

Clients == Requests \cup Calls

ASSUME SlotsAssumption ==
    /\ Requests \cap Calls = {}
    /\ Home \in [Clients -> Replicas]
    /\ Limit \in Nat \ {0} /\ QueueLimit \in Nat \ {0}
    /\ MaxFaults \in Nat

VARIABLES
    slots,      \* members of the set of ordinary slots
    live,       \* members of the set of live leases
    oldSlots,   \* slots whose time is over, though no script removed them yet
    oldLeases,  \* leases whose time is over
    waits,      \* the counter of waiting requests
    indexed,    \* the user is in the index of active users
    due,        \* the time of that entry is over
    at,         \* where the handler of each request is
    saw,        \* the load that its refreshActiveIndex read
    granted,    \* requests that were told they have a slot, and did not give it back
    open,       \* calls that were told they have a lease, and did not end
    queued,     \* requests in the queue
    lost,       \* history: clients whose slot or lease was taken while they went on
    missed,     \* history: how many waiters the counter did not count or forgot
    replica,    \* what each process does
    worker,     \* the load that its cleanup worker read
    faults

slotVars == <<slots, live, oldSlots, oldLeases, waits, indexed, due, at, saw, granted, open, queued,
              lost, missed, replica, worker, faults>>
setVars == <<slots, live, oldSlots, oldLeases>>
redisVars == <<setVars, waits, indexed, due>>
clientVars == <<at, saw, granted, open, queued>>
historyVars == <<lost, missed>>

SlotsInit ==
    /\ slots = {} /\ live = {} /\ oldSlots = {} /\ oldLeases = {} /\ waits = 0
    /\ indexed = FALSE /\ due = FALSE
    /\ at  = [r \in Clients |-> "idle"]
    /\ saw = [r \in Clients |-> "nothing"]
    /\ granted = {} /\ open = {} /\ queued = {} /\ lost = {} /\ missed = 0
    /\ replica = [p \in Replicas |-> "down"]
    /\ worker  = [p \in Replicas |-> "nothing"]
    /\ faults = 0

NoFault == UNCHANGED faults
NoLoss == UNCHANGED historyVars
Fault(kind) == kind \in FaultKinds /\ faults < MaxFaults /\ faults' = faults + 1

Goes(r, place) == at' = [at EXCEPT ![r] = place]

(* The scripts. *)

\* The first lines of most scripts remove what is over.
CurrentSlots  == slots \ oldSlots
CurrentLeases == live \ oldLeases

PurgeSlots(more) == slots' = CurrentSlots \cup more /\ oldSlots' = {}
PurgeLeases(more) == live' = CurrentLeases \cup more /\ oldLeases' = {}

\* Mutant: live leases are not counted.
FreeOrdinarySlot == Cardinality(CurrentSlots) < Limit

\* acquireScript.
FreeSlot == Cardinality(CurrentSlots) + Cardinality(CurrentLeases) < Limit

\* acquireLiveLeaseScript, which allows for the slot it replaces and does not remove
\* slots that are over.
FreeLease == Cardinality(slots) + Cardinality(CurrentLeases) < Limit + 1

\* What refreshActiveIndex and the worker read: slots and waiters, not leases.
Load == IF CurrentSlots = {} /\ waits = 0 THEN "none" ELSE "some"

(* A request: TryAcquireUserSlot, acquireUserSlotWithWaitTimeout. *)

OthersOfProcess == UNCHANGED <<replica, worker, lost>>

StartRequest(r) ==
    /\ at[r] = "idle" /\ replica[Home[r]] = "up"
    /\ Goes(r, "acquire")
    /\ UNCHANGED <<redisVars, saw, granted, open, queued, missed>> /\ NoFault
    /\ OthersOfProcess

AfterGrant(r) == IF r \in queued THEN "uncount"
                 ELSE IF r \in Calls THEN "lease" ELSE "hold"
AfterRefusal(r) == IF r \in queued THEN at[r]
                   ELSE IF r \in Calls THEN "end" ELSE "count"
AfterError(r) == IF r \in queued THEN "uncount" ELSE "end"

\* AcquireUserSlot, at once or from the loop of a waiting request; the caller of an
\* attempt whose answer is lost does not know of its slot.
AcquireSlot(r) ==
    /\ at[r] \in {"acquire", "wait"}
    /\ \/ /\ FreeSlot
          /\ PurgeSlots({r}) /\ PurgeLeases({})
          /\ \/ granted' = granted \cup {r} /\ Goes(r, "touch") /\ NoFault
             \/ UNCHANGED granted /\ Goes(r, AfterError(r)) /\ Fault("answer")
       \/ /\ ~FreeSlot
          /\ PurgeSlots({}) /\ PurgeLeases({})
          /\ Goes(r, AfterRefusal(r))
          /\ UNCHANGED granted /\ NoFault
       \/ /\ Goes(r, AfterError(r))
          /\ UNCHANGED <<setVars, granted>> /\ Fault("store")
    /\ UNCHANGED <<waits, indexed, due, saw, open, queued, missed>> /\ OthersOfProcess

\* touchActiveIndexAt after a slot or a count, whose error is only logged.
Touch(r) ==
    /\ at[r] = "touch"
    /\ \/ indexed' = TRUE /\ due' = FALSE /\ NoFault
       \/ UNCHANGED <<indexed, due>> /\ Fault("store")
    /\ Goes(r, IF r \in granted THEN AfterGrant(r) ELSE "wait")
    /\ UNCHANGED <<setVars, waits, saw, granted, open, queued, missed>>
    /\ OthersOfProcess

\* Mutant: the counter is compared after the request has counted itself in.
CountLate(r) ==
    /\ at[r] = "count"
    /\ \/ /\ waits <= QueueLimit
          /\ waits' = waits + 1 /\ queued' = queued \cup {r} /\ Goes(r, "touch")
       \/ /\ waits > QueueLimit
          /\ Goes(r, "end") /\ UNCHANGED <<waits, queued>>
    /\ NoFault
    /\ UNCHANGED <<setVars, indexed, due, saw, granted, open, missed>> /\ OthersOfProcess

\* IncrementWaitCount lets the request wait when the counter fails.
Count(r) ==
    /\ at[r] = "count"
    /\ \/ /\ waits < QueueLimit
          /\ waits' = waits + 1 /\ queued' = queued \cup {r}
          /\ \/ Goes(r, "touch") /\ NoFault
             \/ Goes(r, "wait") /\ Fault("answer")
          /\ UNCHANGED missed
       \/ /\ waits >= QueueLimit
          /\ Goes(r, "end") /\ UNCHANGED <<waits, queued, missed>> /\ NoFault
       \/ /\ queued' = queued \cup {r} /\ missed' = missed + 1
          /\ Goes(r, "wait") /\ UNCHANGED waits /\ Fault("count")
    /\ UNCHANGED <<setVars, indexed, due, saw, granted, open>> /\ OthersOfProcess

\* The client goes away, or the time to wait is over.
GiveUp(r) ==
    /\ at[r] = "wait"
    /\ Goes(r, "uncount")
    /\ UNCHANGED <<redisVars, saw, granted, open, queued, missed>> /\ NoFault
    /\ OthersOfProcess

\* The deferred DecrementWaitCount, which takes the counter down for a request that was
\* not counted as well, and refreshes the index when it worked.
Uncount(r) ==
    /\ at[r] = "uncount"
    /\ queued' = queued \ {r}
    /\ \/ /\ waits' = (IF waits > 0 THEN waits - 1 ELSE 0)
          /\ Goes(r, "refresh") /\ NoFault
       \/ /\ UNCHANGED waits
          /\ Goes(r, IF r \in granted THEN "hold" ELSE "end") /\ Fault("store")
    /\ UNCHANGED <<setVars, indexed, due, saw, granted, open, missed>> /\ OthersOfProcess

(* The index, refreshed after a count or a slot is given back: refreshActiveIndex. *)

AfterRefresh(r) == IF r \in granted THEN "hold" ELSE IF r \in open THEN "talk" ELSE "end"

ReadLoad(r) ==
    /\ at[r] = "refresh"
    /\ \/ /\ PurgeSlots({})
          /\ saw' = [saw EXCEPT ![r] = Load]
          /\ Goes(r, "reindex") /\ NoFault
       \/ Goes(r, AfterRefresh(r)) /\ UNCHANGED <<slots, oldSlots, saw>> /\ Fault("store")
    /\ UNCHANGED <<live, oldLeases, waits, indexed, due, granted, open, queued, missed>>
    /\ OthersOfProcess

\* Mutant: an entry without load is kept.
ReindexedKept(load) == indexed' = TRUE /\ due' = FALSE

\* What is written to the index for the load that was read.
Reindexed(load) == indexed' = (load = "some") /\ due' = FALSE

Reindex(r) ==
    /\ at[r] = "reindex"
    /\ \/ Reindexed(saw[r]) /\ NoFault
       \/ UNCHANGED <<indexed, due>> /\ Fault("store")
    /\ saw' = [saw EXCEPT ![r] = "nothing"]
    /\ Goes(r, AfterRefresh(r))
    /\ UNCHANGED <<setVars, waits, granted, open, queued, missed>>
    /\ OthersOfProcess

(* The end of a request. *)

EndRequest(r) ==
    /\ at[r] = "hold"
    /\ Goes(r, "release") /\ granted' = granted \ {r}
    /\ UNCHANGED <<redisVars, saw, open, queued, missed>> /\ NoFault /\ OthersOfProcess

\* ReleaseUserSlot; after an error the slot stays until it lapses.
ReleaseSlot(r) ==
    /\ at[r] = "release"
    /\ \/ /\ slots' = slots \ {r} /\ oldSlots' = oldSlots \ {r}
          /\ Goes(r, "refresh") /\ NoFault
       \/ /\ UNCHANGED <<slots, oldSlots>> /\ Fault("store")
          /\ Goes(r, AfterRefresh(r))
    /\ UNCHANGED <<live, oldLeases, waits, indexed, due, saw, granted, open, queued, missed>>
    /\ OthersOfProcess

(* A live call: CreateLiveCall, until the lease is given back. *)

OthersOfCall == UNCHANGED <<slots, oldSlots, waits, indexed, due, saw, queued, missed>>

\* Mutant: the script asks the ordinary slots whether the call has its lease.
TakeLeaseWrong(c) ==
    /\ at[c] = "lease"
    /\ open' = open \cup {c} /\ Goes(c, "upstream") /\ UNCHANGED granted /\ NoFault
    /\ PurgeLeases(IF c \in slots THEN {} ELSE {c})
    /\ OthersOfCall /\ OthersOfProcess

\* AcquireLiveLease, while the call holds an ordinary slot.
TakeLease(c) ==
    /\ at[c] = "lease"
    /\ \/ /\ FreeLease
          /\ PurgeLeases({c})
          /\ \/ open' = open \cup {c} /\ Goes(c, "upstream") /\ UNCHANGED granted /\ NoFault
             \/ UNCHANGED open /\ Goes(c, "release") /\ granted' = granted \ {c} /\ Fault("answer")
       \/ /\ ~FreeLease
          /\ PurgeLeases({})
          /\ UNCHANGED open /\ Goes(c, "release") /\ granted' = granted \ {c} /\ NoFault
       \/ /\ UNCHANGED <<live, oldLeases, open>>
          /\ Goes(c, "release") /\ granted' = granted \ {c} /\ Fault("store")
    /\ OthersOfCall /\ OthersOfProcess

\* The call is created, or not: then the slot of its account goes back before the
\* lease, and the slot of its user after.
CreateCall(c) ==
    /\ at[c] = "upstream"
    /\ \/ Goes(c, "release") /\ granted' = granted \ {c} /\ UNCHANGED open
       \/ Goes(c, "unlease") /\ open' = open \ {c} /\ UNCHANGED granted
    /\ UNCHANGED <<live, oldLeases>> /\ NoFault /\ OthersOfCall /\ OthersOfProcess

EndCall(c) ==
    /\ at[c] = "talk"
    /\ Goes(c, "unlease") /\ open' = open \ {c}
    /\ UNCHANGED <<live, oldLeases, granted>> /\ NoFault /\ OthersOfCall /\ OthersOfProcess

\* ReleaseLiveLease, whose error is ignored.
GiveLeaseBack(c) ==
    /\ at[c] = "unlease"
    /\ \/ live' = live \ {c} /\ oldLeases' = oldLeases \ {c} /\ NoFault
       \/ UNCHANGED <<live, oldLeases>> /\ Fault("store")
    /\ Goes(c, IF c \in granted THEN "release" ELSE "end")
    /\ granted' = granted \ {c}
    /\ UNCHANGED open /\ OthersOfCall /\ OthersOfProcess

ClientStep(r) ==
    \/ AcquireSlot(r) \/ Touch(r) \/ Count(r) \/ Uncount(r) \/ ReadLoad(r) \/ Reindex(r)
    \/ EndRequest(r) \/ ReleaseSlot(r) \/ TakeLease(r) \/ CreateCall(r) \/ EndCall(r)
    \/ GiveLeaseBack(r)

(* Processes. *)

OthersOfClients == UNCHANGED clientVars

ReplicaGoes(p, place) == replica' = [replica EXCEPT ![p] = place]

\* ProvideConcurrencyService starts the process by CleanupStaleProcessSlots, which first
\* reads the index; an error in it is only logged.
StartReplica(p) ==
    /\ replica[p] = "down"
    /\ \/ ReplicaGoes(p, IF indexed THEN "slots" ELSE "up") /\ NoFault
       \/ ReplicaGoes(p, "up") /\ Fault("store")
    /\ UNCHANGED <<redisVars, worker>> /\ NoLoss /\ OthersOfClients

\* startupCleanupSlotScript removes the slots that do not bear the prefix of this
\* process, and it has none yet: those of the requests of others are lost.
CleanSlots(p) ==
    /\ replica[p] = "slots"
    /\ \/ /\ slots' = {} /\ oldSlots' = {} /\ lost' = lost \cup granted
          /\ ReplicaGoes(p, "waits") /\ NoFault
       \/ /\ UNCHANGED <<slots, oldSlots, lost>>
          /\ ReplicaGoes(p, "up") /\ Fault("store")
    /\ UNCHANGED <<live, oldLeases, waits, indexed, due, worker, missed>> /\ OthersOfClients

\* The counter is deleted, whoever waits at another process.
CleanWaits(p) ==
    /\ replica[p] = "waits"
    /\ \/ /\ waits' = 0 /\ missed' = missed + Cardinality(queued)
          /\ ReplicaGoes(p, "index") /\ NoFault
       \/ UNCHANGED <<waits, missed>> /\ ReplicaGoes(p, "up") /\ Fault("store")
    /\ UNCHANGED <<setVars, indexed, due, worker, lost>> /\ OthersOfClients

CleanIndex(p) ==
    /\ replica[p] = "index"
    /\ \/ indexed' = FALSE /\ due' = FALSE /\ NoFault
       \/ UNCHANGED <<indexed, due>> /\ Fault("store")
    /\ ReplicaGoes(p, "up")
    /\ UNCHANGED <<setVars, waits, worker>> /\ NoLoss /\ OthersOfClients

\* CleanupExpiredAccountSlotKeys of the background worker, whose process is up.
WorkerReads(p) ==
    /\ replica[p] = "up" /\ worker[p] = "nothing"
    /\ indexed /\ due
    /\ PurgeSlots({}) /\ worker' = [worker EXCEPT ![p] = Load]
    /\ UNCHANGED <<live, oldLeases, waits, indexed, due, replica>>
    /\ NoFault /\ NoLoss /\ OthersOfClients

WorkerWrites(p) ==
    /\ worker[p] # "nothing"
    /\ \/ Reindexed(worker[p]) /\ NoFault
       \/ UNCHANGED <<indexed, due>> /\ Fault("store")
    /\ worker' = [worker EXCEPT ![p] = "nothing"]
    /\ UNCHANGED <<setVars, waits, replica>> /\ NoLoss /\ OthersOfClients

ReplicaStep(p) == \/ StartReplica(p) \/ CleanSlots(p) \/ CleanWaits(p) \/ CleanIndex(p)
                  \/ WorkerReads(p) \/ WorkerWrites(p)

\* A process dies with its requests; its live calls are nobody's then.
ReplicaDies(p) ==
    /\ replica[p] # "down" /\ Fault("death")
    /\ ReplicaGoes(p, "down")
    /\ worker' = [worker EXCEPT ![p] = "nothing"]
    /\ LET gone == {r \in Clients : Home[r] = p} IN
       /\ at' = [r \in Clients |-> IF r \in gone /\ at[r] # "idle" THEN "end" ELSE at[r]]
       /\ saw' = [r \in Clients |-> IF r \in gone THEN "nothing" ELSE saw[r]]
       /\ granted' = granted \ gone /\ open' = open \ gone
       /\ queued' = queued \ gone
    /\ UNCHANGED redisVars /\ NoLoss

(* Time. *)

OthersOfTime == UNCHANGED <<clientVars, replica, worker, missed>> /\ NoFault

SlotLapses(r) ==
    /\ r \in CurrentSlots \ granted
    /\ oldSlots' = oldSlots \cup {r}
    /\ UNCHANGED <<slots, live, oldLeases, waits, indexed, due, lost>> /\ OthersOfTime

LeaseLapses(c) ==
    /\ c \in CurrentLeases \ open
    /\ oldLeases' = oldLeases \cup {c}
    /\ UNCHANGED <<slots, oldSlots, live, waits, indexed, due, lost>> /\ OthersOfTime

\* observeLiveCall refreshes the lease only while it is connected: it lapses while the
\* dial fails, and RefreshLiveLease does not bring it back.
LeaseMissed(c) ==
    /\ c \in CurrentLeases \cap open
    /\ oldLeases' = oldLeases \cup {c} /\ lost' = lost \cup {c}
    /\ UNCHANGED <<slots, oldSlots, live, waits, indexed, due>> /\ OthersOfTime

CounterLapses ==
    /\ waits > 0 /\ queued = {}
    /\ waits' = 0
    /\ UNCHANGED <<setVars, indexed, due, lost>> /\ OthersOfTime

EntryDue ==
    /\ indexed /\ ~due
    /\ due' = TRUE
    /\ UNCHANGED <<setVars, waits, indexed, lost>> /\ OthersOfTime

SlotsNext ==
    \/ \E r \in Clients : StartRequest(r) \/ GiveUp(r) \/ ClientStep(r) \/ SlotLapses(r)
    \/ \E c \in Calls : LeaseLapses(c) \/ LeaseMissed(c)
    \/ \E p \in Replicas : ReplicaStep(p) \/ ReplicaDies(p)
    \/ CounterLapses \/ EntryDue

SlotsSpec == SlotsInit /\ [][SlotsNext]_slotVars

\* Handlers go on (a client may stop waiting, which is no duty, but polling is timed),
\* time passes, and a process that died is started again.  No lease has to be missed.
FairSlotsSpec ==
    /\ SlotsSpec
    /\ \A r \in Clients : WF_slotVars(ClientStep(r)) /\ WF_slotVars(SlotLapses(r))
    /\ \A r \in Requests : WF_slotVars(GiveUp(r))
    /\ \A c \in Calls : WF_slotVars(LeaseLapses(c))
    /\ \A p \in Replicas : WF_slotVars(ReplicaStep(p))
    /\ WF_slotVars(CounterLapses) /\ WF_slotVars(EntryDue)

(* Properties. *)

\* acquireScript, acquireLiveLeaseScript: requests and live calls of a user never exceed
\* the limit, a call that exchanges its slot for a lease counting once, but for those
\* whose slot another process removed at its start or whose lease lapsed.
WithinLimit == Cardinality((granted \cup open) \ lost) <= Limit

\* A request or call that goes on is counted at every moment, through the exchange of
\* its slot for a lease, failures, deaths and the cleanup of the worker; only the cleanup
\* at a start and a lease that is not refreshed take a count away.
HeldIsCounted == granted \ lost \subseteq CurrentSlots /\ open \ lost \subseteq CurrentLeases

\* IncrementWaitCount, DecrementWaitCount: requests counted twice, or given back though
\* never counted, do not add up.  No more wait than the queue may hold, and one more for
\* each that a failure of the counter let in or a starting process forgot.
QueueHonoured == Cardinality(queued) <= QueueLimit + missed

\* cleanupStaleProcessSlotsForIndex: the counter that a starting process deletes belongs
\* to a dead one, so nobody who lives waits then.
WaitersAreDead == \A p \in Replicas : replica[p] = "waits" => queued = {}

\* Nothing is left in the end, whatever failed or died: no slot, lease, waiter or entry
\* of the index outlives its requests for ever.
NothingLeft ==
    <>[](CurrentSlots = {} /\ CurrentLeases = {} /\ waits = 0 /\ ~indexed)

\* concurrency_cache.go: as long as there are slots or waiters, the index is kept; only a
\* request that is about to mark it may find it empty.
IndexCoversLoad ==
    Load = "some" => indexed \/ \E r \in Clients : at[r] = "touch"

\* openai_live.go: the slot that a call holds is taken over by its lease, so the lease is
\* not refused for want of room.
ExchangeSucceeds ==
    [][\A c \in Calls : at[c] = "lease" /\ at'[c] # "lease" /\ faults' = faults => c \in open']_slotVars
================================================================================
