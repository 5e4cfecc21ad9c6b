-------------------------- MODULE SchedulerSnapshot ---------------------------
(***************************************************************************)
(* The list of accounts from which the gateway picks one for a request, as *)
(* it is kept in Redis for one bucket of one group, and the outbox that    *)
(* tells of changes: scheduler_snapshot_service.go, scheduler_cache.go and *)
(* scheduler_outbox_repo.go.  A step is one statement or transaction of    *)
(* the database, one Lua script or one command.                            *)
(*                                                                         *)
(* The database holds the data of the bucket's accounts (a number that     *)
(* grows with every edit) and whether the group is active.  Requests read  *)
(* the list (shown) and the details of its accounts (details).             *)
(*                                                                         *)
(* Left out: deletion of accounts and the field last_used, bulk events,    *)
(* run mode simple, empty lists (a miss), several buckets that share one   *)
(* load, rebuilds for lag (a Rebuilder at an earlier moment).              *)
(***************************************************************************)
EXTENDS Integers, FiniteSets, SequencesExt

CONSTANTS
    Writers,     \* requests and admin calls that change accounts or the group
    Pollers,     \* the outbox worker of each process
    Readers,     \* requests that found no snapshot
    Rebuilders,  \* full rebuilds, coalesced to one per process
    MaxEdits,    \* bound on edits of accounts
    MaxFlips,    \* bound on changes of the group's status
    MaxFaults,   \* bound on failures
    None         \* no lock, lease or snapshot

ASSUME SnapAssumption ==
    /\ Writers \cap (Pollers \cup Readers \cup Rebuilders) = {}
    /\ Pollers \cap (Readers \cup Rebuilders) = {} /\ Readers \cap Rebuilders = {}
    /\ None \notin Pollers \cup Readers \cup Rebuilders
    /\ MaxEdits \in Nat /\ MaxFlips \in Nat /\ MaxFaults \in Nat

Workers == Pollers \cup Readers \cup Rebuilders
Actors  == Writers \cup Workers

VARIABLES
    data,       \* the accounts in the database
    flips,      \* how often the status of the group changed
    log,        \* the table scheduler_outbox: row i has id i
    watermark,
    epoch,      \* the generation of the bucket's writers
    retired,    \* the mark that the bucket is retired
    shown,      \* the active snapshot
    details,    \* the accounts' own keys
    versions,   \* writers with a version, and None for the active one, oldest first
    lock,       \* the rebuild lock of the bucket
    lease,      \* the lifecycle lease of the group
    at,         \* where each actor is
    mem,        \* the accounts it loaded
    token,      \* the epoch it may write under
    strict,     \* it rebuilds what it reopened
    todo,       \* ids of the rows a poller has still to handle
    last,       \* the last row it listed
    seen,       \* what it handled in this batch
    closedWith, \* the accounts when the bucket was last retired
    lost,       \* the event of a change of the group was not written
    faults

dbVars     == <<data, flips>>
cacheVars  == <<epoch, retired, shown, details, versions, lock, lease, closedWith>>
workVars   == <<mem, token, strict>>
batchVars  == <<todo, last, seen>>
snapVars   == <<dbVars, log, watermark, cacheVars, at, workVars, batchVars, lost, faults>>

Open == flips % 2 = 0    \* group.IsActive()

SnapInit ==
    /\ data = 0 /\ flips = 0 /\ log = <<>> /\ watermark = 0
    /\ epoch = 1 /\ retired = FALSE /\ shown = None /\ details = 0
    /\ versions = <<>> /\ lock = None /\ lease = None /\ closedWith = 0
    /\ at = [a \in Actors |-> "idle"]
    /\ mem = [a \in Actors |-> 0]
    /\ token  = [w \in Workers |-> 0]
    /\ strict = [w \in Workers |-> FALSE]
    /\ todo = [p \in Pollers |-> {}]
    /\ last = [p \in Pollers |-> 0]
    /\ seen = [p \in Pollers |-> {}]
    /\ lost = FALSE /\ faults = 0

Goes(a, place) == at' = [at EXCEPT ![a] = place]
Loads(a)       == mem' = [mem EXCEPT ![a] = data]
Fault          == faults < MaxFaults /\ faults' = faults + 1

(* The outbox. *)

\* Rows with a dedup_key: those that no poller listed yet.
Keyed(kind)   == \E i \in DOMAIN log : log[i] = [kind |-> kind, state |-> "keyed"]
Waiting(kind) == \E i \in DOMAIN log : log[i] = [kind |-> kind, state |-> "open"]

\* INSERT .. ON CONFLICT DO NOTHING waits for a transaction that inserts the same key.
Enqueue(kind, state) ==
    /\ ~Waiting(kind)
    /\ log' = IF Keyed(kind) THEN log ELSE Append(log, [kind |-> kind, state |-> state])

Settle(state) ==
    log' = [i \in DOMAIN log |->
               IF log[i].state = "open" THEN [log[i] EXCEPT !.state = state] ELSE log[i]]

(* Changes: SetRateLimited, updates in a transaction, and of the group. *)

Edits == data + Cardinality({w \in Writers : at[w] \in {"holding", "joined"}})

\* SetRateLimited: the event is a statement of its own.
EditAccount(w) ==
    /\ at[w] = "idle" /\ Edits < MaxEdits
    /\ data' = data + 1
    /\ Goes(w, "edited")
    /\ UNCHANGED <<flips, log, watermark, cacheVars, workVars, batchVars, lost, faults>>

\* Update or Delete of the group.
FlipGroup(w) ==
    /\ at[w] = "idle" /\ flips < MaxFlips
    /\ flips' = flips + 1
    /\ Goes(w, "flipped")
    /\ UNCHANGED <<data, log, watermark, cacheVars, workVars, batchVars, lost, faults>>

\* The event is written; if that fails it is only logged, and a process may die first.
Announce(w) ==
    /\ at[w] \in {"edited", "flipped"}
    /\ \/ /\ Enqueue(IF at[w] = "edited" THEN "account" ELSE "group", "keyed")
          /\ UNCHANGED <<lost, faults>>
       \/ /\ Fault
          /\ lost' = (lost \/ at[w] = "flipped")
          /\ UNCHANGED log
    /\ Goes(w, IF at[w] = "edited" THEN "sync" ELSE "idle")
    /\ UNCHANGED <<dbVars, watermark, cacheVars, workVars, batchVars>>

\* A transaction inserts the event (unless it is already there) and commits later.
BeginEdit(w) ==
    /\ at[w] = "idle" /\ Edits < MaxEdits
    /\ Enqueue("account", "open")
    /\ Goes(w, IF Keyed("account") THEN "joined" ELSE "holding")
    /\ UNCHANGED <<dbVars, watermark, cacheVars, workVars, batchVars, lost, faults>>

CommitEdit(w) ==
    /\ at[w] \in {"holding", "joined"}
    /\ data' = data + 1
    /\ IF at[w] = "holding" THEN Settle("keyed") ELSE UNCHANGED log
    /\ Goes(w, "sync")
    /\ UNCHANGED <<flips, watermark, cacheVars, workVars, batchVars, lost, faults>>

\* syncSchedulerAccountSnapshot.
SyncLoad(w) ==
    /\ at[w] = "sync"
    /\ Loads(w)
    /\ Goes(w, "store")
    /\ UNCHANGED <<dbVars, log, watermark, cacheVars, token, strict, batchVars, lost, faults>>

SyncStore(w) ==
    /\ at[w] = "store"
    /\ details' = mem[w]
    /\ mem' = [mem EXCEPT ![w] = 0]
    /\ Goes(w, "idle")
    /\ UNCHANGED <<dbVars, log, watermark, epoch, retired, shown, versions, lock, lease, closedWith,
                   token, strict, batchVars, lost, faults>>

(* How the work of a worker ends. *)

Forgets(w) ==
    /\ mem' = [mem EXCEPT ![w] = 0]
    /\ token' = [token EXCEPT ![w] = 0]
    /\ strict' = [strict EXCEPT ![w] = FALSE]

\* A poller goes on with its next row.  After a lifecycle the whole group is seen.
Done(w) ==
    /\ Goes(w, IF w \in Pollers THEN "next" ELSE "idle")
    /\ IF w \in Pollers /\ strict[w]
       THEN seen' = [seen EXCEPT ![w] = {"account", "group"}] ELSE UNCHANGED seen
    /\ Forgets(w)
    /\ UNCHANGED <<todo, last>>

\* All is over, a poller's batch too.
Stops(w) ==
    /\ Goes(w, "idle")
    /\ Forgets(w)
    /\ IF w \in Pollers
       THEN /\ todo' = [todo EXCEPT ![w] = {}]
            /\ last' = [last EXCEPT ![w] = 0]
            /\ seen' = [seen EXCEPT ![w] = {}]
       ELSE UNCHANGED batchVars

Busy(w) == IF strict[w] THEN Stops(w) ELSE Done(w)

(* pollOutbox. *)

\* Mutant: the key of a listed row stays.
KeptRow(row) == row

\* A row that is listed gives its dedup_key back, so that a later event is inserted.
ReleasedRow(row) == IF row.state = "keyed" THEN [row EXCEPT !.state = "free"] ELSE row

\* Reading the watermark and listing the rows after it, whose keys are released.  Rows
\* of open transactions are not visible.
Poll(p) ==
    LET rows == {i \in DOMAIN log : i > watermark /\ log[i].state \in {"keyed", "free"}}
    IN  /\ at[p] = "idle"
        /\ log' = [i \in DOMAIN log |-> IF i > watermark THEN ReleasedRow(log[i]) ELSE log[i]]
        /\ todo' = [todo EXCEPT ![p] = rows]
        /\ \E i \in rows : /\ \A j \in rows : j <= i
                            /\ last' = [last EXCEPT ![p] = i]
        /\ Goes(p, "next")
        /\ UNCHANGED <<dbVars, watermark, cacheVars, workVars, seen, lost, faults>>

\* Events of accounts: GetByID.  Events of the group: unless it is seen, its lifecycle.
NextEvent(p) ==
    /\ at[p] = "next"
    /\ \E i \in todo[p] :
         /\ \A j \in todo[p] : i <= j
         /\ todo' = [todo EXCEPT ![p] = @ \ {i}]
         /\ IF log[i].kind = "account" THEN Loads(p) /\ Goes(p, "details")
            ELSE /\ UNCHANGED mem
                 /\ Goes(p, IF "group" \in seen[p] THEN "next" ELSE "lease")
    /\ UNCHANGED <<dbVars, log, watermark, cacheVars, token, strict, last, seen, lost, faults>>

\* SetAccount; the bucket is rebuilt once in a batch.
StoreDetails(p) ==
    /\ at[p] = "details"
    /\ details' = mem[p]
    /\ mem' = [mem EXCEPT ![p] = 0]
    /\ seen' = [seen EXCEPT ![p] = @ \cup {"account"}]
    /\ Goes(p, IF "account" \in seen[p] THEN "next" ELSE "capture")
    /\ UNCHANGED <<dbVars, log, watermark, epoch, retired, shown, versions, lock, lease, closedWith,
                   token, strict, todo, last, lost, faults>>

\* SetOutboxWatermark, and DeleteConsumedUpTo: of the rows up to there, those that are
\* older than ten seconds are deleted.
Consume(p) ==
    /\ at[p] = "next" /\ todo[p] = {}
    /\ watermark' = last[p]
    /\ \E n \in 0..last[p] :
          log' = [i \in DOMAIN log |->
                     IF i <= n /\ log[i].state # "open"
                     THEN [log[i] EXCEPT !.state = "gone"] ELSE log[i]]
    /\ Stops(p)
    /\ UNCHANGED <<dbVars, cacheVars, lost, faults>>

(* prepareGroupLifecycle, under the lease of the group. *)

TakeLease(w) ==
    /\ at[w] = "lease"
    /\ IF lease # None THEN Stops(w) /\ UNCHANGED lease
       ELSE /\ lease' = w
            /\ Goes(w, "group")
            /\ UNCHANGED <<workVars, batchVars>>
    /\ UNCHANGED <<dbVars, log, watermark, epoch, retired, shown, details, versions, lock, closedWith,
                   lost, faults>>

ReadGroup(w) ==
    /\ at[w] = "group"
    /\ Goes(w, IF Open THEN "reopen" ELSE "retire")
    /\ UNCHANGED <<dbVars, log, watermark, cacheVars, workVars, batchVars, lost, faults>>

\* DEL of the active version: its place in the order goes with it.
Hide == shown' = None /\ versions' = SelectSeq(versions, LAMBDA w : w # None)

\* retireBucketScript.
RetireBucket(w) ==
    /\ at[w] = "retire"
    /\ Hide
    /\ retired' = TRUE
    /\ IF retired THEN UNCHANGED <<epoch, closedWith>>
       ELSE epoch' = epoch + 1 /\ closedWith' = data
    /\ Goes(w, "release")
    /\ UNCHANGED <<dbVars, log, watermark, details, lock, lease, workVars, batchVars, lost, faults>>

ReopenBucket(w) ==
    /\ at[w] = "reopen"
    /\ IF retired THEN Hide ELSE UNCHANGED <<shown, versions>>
    /\ retired' = FALSE
    /\ token' = [token EXCEPT ![w] = epoch]
    /\ Goes(w, "release")
    /\ UNCHANGED <<dbVars, log, watermark, epoch, details, lock, lease, closedWith, mem, strict,
                   batchVars, lost, faults>>

\* Only the owner's own lease is deleted.  A reopened bucket is rebuilt, strictly.
ReleaseLease(w) ==
    /\ at[w] = "release"
    /\ lease' = IF lease = w THEN None ELSE lease
    /\ IF lease # w THEN Stops(w)
       ELSE IF token[w] # 0
       THEN /\ strict' = [strict EXCEPT ![w] = TRUE]
            /\ Goes(w, "lock")
            /\ UNCHANGED <<mem, token, batchVars>>
       ELSE /\ Goes(w, IF w \in Pollers THEN "next" ELSE "idle")
            /\ IF w \in Pollers
               THEN seen' = [seen EXCEPT ![w] = {"account", "group"}] ELSE UNCHANGED seen
            /\ UNCHANGED <<workVars, todo, last>>
    /\ UNCHANGED <<dbVars, log, watermark, epoch, retired, shown, details, versions, lock, closedWith,
                   lost, faults>>

(* Writing a snapshot. *)

CaptureToken(w) ==
    /\ at[w] = "capture"
    /\ IF ~retired
       THEN /\ token' = [token EXCEPT ![w] = epoch]
            /\ Goes(w, IF w \in Readers THEN "load" ELSE "lock")
            /\ UNCHANGED <<mem, strict, batchVars>>
       ELSE IF w \in Rebuilders
       THEN Goes(w, "lease") /\ UNCHANGED <<workVars, batchVars>>
       ELSE Done(w)
    /\ UNCHANGED <<dbVars, log, watermark, cacheVars, lost, faults>>

LockBucket(w) ==
    /\ at[w] = "lock"
    /\ IF lock # None THEN Busy(w) /\ UNCHANGED lock
       ELSE /\ lock' = w
            /\ Goes(w, "load")
            /\ UNCHANGED <<workVars, batchVars>>
    /\ UNCHANGED <<dbVars, log, watermark, epoch, retired, shown, details, versions, lease, closedWith,
                   lost, faults>>

\* Readers take no lock; UnlockBucket deletes whatever lock there is.
Unlock(w) == lock' = IF w \in Readers THEN lock ELSE None

LoadAccounts(w) ==
    /\ at[w] = "load"
    /\ Loads(w)
    /\ Goes(w, "allocate")
    /\ UNCHANGED <<dbVars, log, watermark, cacheVars, token, strict, batchVars, lost, faults>>

\* The check of allocateSnapshotVersionScript.
Fenced(w) == retired \/ token[w] # epoch

\* allocateSnapshotVersionScript, then the members under that version, which nobody sees,
\* and the accounts' own keys, which are those of every bucket and visible at once.
AllocateVersion(w) ==
    /\ at[w] = "allocate"
    /\ IF Fenced(w) THEN Busy(w) /\ Unlock(w) /\ UNCHANGED <<versions, details>>
       ELSE /\ versions' = Append(versions, w)
            /\ details' = mem[w]
            /\ Goes(w, "activate")
            /\ UNCHANGED <<lock, workVars, batchVars>>
    /\ UNCHANGED <<dbVars, log, watermark, epoch, retired, shown, lease, closedWith, lost, faults>>

\* Mutant: only the mark is looked at.
ActivatedUnlessRetired(w) == retired

\* The same check again, in activateSnapshotScript.
ActivationFenced(w) == retired \/ token[w] # epoch

\* A newer version is active already.
Outrun(w) == LET place(x) == CHOOSE i \in DOMAIN versions : versions[i] = x
             IN  None \in ToSet(versions) /\ place(w) < place(None)

\* activateSnapshotScript; an outrun version is no error.
ActivateSnapshot(w) ==
    LET others == SelectSeq(versions, LAMBDA x : x # w)
        kept   == SelectSeq(versions, LAMBDA x : x # None)
    IN  /\ at[w] = "activate"
        /\ IF ActivationFenced(w) \/ Outrun(w)
           THEN versions' = others /\ UNCHANGED shown
           ELSE /\ shown' = [data |-> mem[w], epoch |-> token[w]]
                /\ versions' = [i \in DOMAIN kept |-> IF kept[i] = w THEN None ELSE kept[i]]
        /\ IF ActivationFenced(w) THEN Busy(w) ELSE Done(w)
        /\ Unlock(w)
        /\ UNCHANGED <<dbVars, log, watermark, epoch, retired, details, lease, closedWith, lost, faults>>

(* Where the work of readers and rebuilds begins. *)

MissSnapshot(r) ==
    /\ at[r] = "idle" /\ shown = None
    /\ Goes(r, "capture")
    /\ UNCHANGED <<dbVars, log, watermark, cacheVars, workVars, batchVars, lost, faults>>

\* ListBuckets: the registry holds the bucket exactly while it has an active snapshot.
StartRebuild(b) ==
    /\ at[b] = "idle"
    /\ Goes(b, IF shown # None THEN "registered" ELSE "unregistered")
    /\ UNCHANGED <<dbVars, log, watermark, cacheVars, workVars, batchVars, lost, faults>>

\* Mutant: groups that are no longer active are left as they are.
ListActiveOnly(b) ==
    /\ at[b] \in {"registered", "unregistered"}
    /\ Goes(b, IF Open THEN "capture" ELSE "idle")
    /\ UNCHANGED <<dbVars, log, watermark, cacheVars, workVars, batchVars, lost, faults>>

\* ListActiveIDs: active groups are captured, registered others go through a lifecycle.
ListGroups(b) ==
    /\ at[b] \in {"registered", "unregistered"}
    /\ Goes(b, IF Open THEN "capture" ELSE IF at[b] = "registered" THEN "lease" ELSE "idle")
    /\ UNCHANGED <<dbVars, log, watermark, cacheVars, workVars, batchVars, lost, faults>>

(* Failures. *)

\* A worker dies or loses its connection: its lock and lease stay until they lapse.
Die(w) ==
    /\ at[w] # "idle"
    /\ Fault
    /\ Stops(w)
    /\ versions' = SelectSeq(versions, LAMBDA x : x # w)
    /\ UNCHANGED <<dbVars, log, watermark, epoch, retired, shown, details, lock, lease, closedWith, lost>>

\* The lock lives 30 s, as long as the rebuild may take, so its holder may be at work yet.
LockLapses ==
    /\ lock # None
    /\ IF at[lock] \in {"load", "allocate", "activate"} THEN Fault ELSE UNCHANGED faults
    /\ lock' = None
    /\ UNCHANGED <<dbVars, log, watermark, epoch, retired, shown, details, versions, lease, closedWith,
                   at, workVars, batchVars, lost>>

\* The lease lives 60 s, and a lifecycle is given 30 s: only that of a dead holder lapses.
LeaseLapses ==
    /\ lease # None /\ at[lease] \notin {"group", "reopen", "retire", "release"}
    /\ lease' = None
    /\ UNCHANGED <<dbVars, log, watermark, epoch, retired, shown, details, versions, lock, closedWith,
                   at, workVars, batchVars, lost, faults>>

WriterStep(w) == Announce(w) \/ CommitEdit(w) \/ SyncLoad(w) \/ SyncStore(w)
PollerStep(p) == Poll(p) \/ NextEvent(p) \/ StoreDetails(p) \/ Consume(p)
LifecycleStep(w) ==
    TakeLease(w) \/ ReadGroup(w) \/ RetireBucket(w) \/ ReopenBucket(w) \/ ReleaseLease(w)
WriteStep(w) ==
    \/ CaptureToken(w) \/ LockBucket(w) \/ LoadAccounts(w)
    \/ AllocateVersion(w) \/ ActivateSnapshot(w)
RebuildStep(b) == StartRebuild(b) \/ ListGroups(b)

SnapNext ==
    \/ \E w \in Writers : EditAccount(w) \/ FlipGroup(w) \/ BeginEdit(w) \/ WriterStep(w)
    \/ \E p \in Pollers : PollerStep(p)
    \/ \E r \in Readers : MissSnapshot(r)
    \/ \E b \in Rebuilders : RebuildStep(b)
    \/ \E w \in Workers : WriteStep(w)
    \/ \E w \in Pollers \cup Rebuilders : LifecycleStep(w) \/ Die(w)
    \/ LockLapses \/ LeaseLapses

SnapSpec == SnapInit /\ [][SnapNext]_snapVars

\* What was begun goes on, both tickers tick for ever, and Redis expires keys.
SnapFairness ==
    /\ \A w \in Writers : WF_snapVars(WriterStep(w))
    /\ \A p \in Pollers : WF_snapVars(PollerStep(p))
    /\ \A b \in Rebuilders : WF_snapVars(RebuildStep(b))
    /\ \A w \in Pollers \cup Rebuilders : WF_snapVars(LifecycleStep(w)) /\ WF_snapVars(WriteStep(w))
    /\ WF_snapVars(LockLapses) /\ WF_snapVars(LeaseLapses)

FairSnapSpec == SnapSpec /\ SnapFairness

-------------------------------------------------------------------------------
(* Properties. *)

\* Whatever writers were under way when the group was closed: a retired bucket shows
\* nothing, and once it is reopened, nothing that was loaded before it was closed.
FreshSinceRetired == shown # None => ~retired /\ shown.data >= closedWith

\* A change of the group is never forgotten between its event, the merging of equal
\* events, the batches of several pollers and failures: once its event is consumed, or
\* deleted, the bucket is retired or open as the group is.
GroupFollows ==
    \/ lost
    \/ \E w \in Writers : at[w] = "flipped"
    \/ \E i \in DOMAIN log : i > watermark /\ log[i].kind = "group" /\ log[i].state # "gone"
    \/ retired = ~Open

\* When changes end, requests come to see them: with lost events, lost locks, deaths and
\* the races of unfenced writes, the periodic full rebuild repairs the snapshot.
Converges ==
    <>[](IF Open THEN shown # None /\ shown.data = data /\ details = data ELSE shown = None)

\* scheduler_outbox_repo.go, DeleteConsumedUpTo: the grace of ten seconds lets the event
\* of a slow transaction be consumed before it is deleted.
ReadBeforeDeleted ==
    [][\A i \in DOMAIN log : log[i].state = "keyed" => log'[i].state # "gone"]_snapVars
================================================================================
