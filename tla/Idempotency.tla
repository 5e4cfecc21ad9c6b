----------------------------- MODULE Idempotency -----------------------------
(***************************************************************************)
(* The idempotency coordinator (service/idempotency.go) at work on one key: *)
(* Execute and ExecuteAtomic, from the insertion of the record to the       *)
(* answer, and the sweep of expired records.  Keys do not interact, so one  *)
(* key shows everything.                                                    *)
(*                                                                         *)
(* Each attempt is a request with the key.  It reads the clock once, at the *)
(* start, and every comparison it makes and every deadline it writes is     *)
(* about that instant, however late the statement runs.  Between two        *)
(* statements of one attempt any other attempt, the sweep or the clock may  *)
(* move.  An attempt may stop for good between any two statements: its      *)
(* process dies, or the store reports an error and the caller gets          *)
(* IDEMPOTENCY_STORE_UNAVAILABLE.                                           *)
(***************************************************************************)
EXTENDS IdempotencyRecords

CONSTANTS
    Attempts,        \* requests that carry the key
    OtherPayload,    \* those whose payload differs from the others'
    NoAttempt,
    TTL,             \* how long a record is kept
    RetryBackoff,    \* how long a failed attempt keeps the next one waiting
    LastStart        \* bound: no attempt starts after this instant

ASSUME KeyAssumption ==
    /\ OtherPayload \subseteq Attempts
    /\ NoAttempt \notin Attempts
    /\ TTL \in Nat \ {0}
    /\ RetryBackoff \in Nat \ {0}
    /\ LastStart \in Nat

VARIABLES
    row,       \* the record of the key, or an absent one
    lastId,    \* the id sequence of the table
    atomic,    \* the endpoint uses ExecuteAtomic (else Execute)
    pc,        \* pc[a]: the statement attempt a runs next
    now,       \* now[a]: the instant a read when it started
    seen,      \* seen[a]: the record a read last ("existing", "latest")
    claim,     \* claim[a]: record.ID once a owns the record, else 0
    effects,   \* the attempts whose operation has taken effect
    latest,    \* the attempt whose operation took effect last
    keeper,    \* the attempt whose effect made the last promise, or NoAttempt
    kept,      \* when it did
    least,     \* the earliest end of a promise so far, or 0
    told       \* told[a]: the attempt whose result a has returned

keyVars == <<row, lastId, atomic, pc, now, seen, claim, effects, latest, keeper, kept, least,
             told>>
allKeyVars == <<clock, row, lastId, atomic, pc, now, seen, claim, effects,
                latest, keeper, kept, least, told>>

Fingerprints == {"same", "other"}
fingerprint(a) == IF a \in OtherPayload THEN "other" ELSE "same"

Results == Attempts \cup {NoAttempt}
NoRow == Absent("same", NoAttempt)
KeyRows == Rows(Fingerprints, Results)

lockedUntil(a) == now[a] + ProcessingTimeout
expiresAt(a) == now[a] + TTL

-------------------------------------------------------------------------------
KeyInit ==
    /\ row = NoRow
    /\ lastId = 0
    /\ atomic \in BOOLEAN
    /\ pc = [a \in Attempts |-> "idle"]
    /\ now = [a \in Attempts |-> 0]
    /\ seen = [a \in Attempts |-> NoRow]
    /\ claim = [a \in Attempts |-> 0]
    /\ effects = {}
    /\ latest = NoAttempt
    /\ keeper = NoAttempt
    /\ kept = 0
    /\ least = 0
    /\ told = [a \in Attempts |-> NoAttempt]

(* Where attempt a goes next: what it has read is kept until it reclaims    *)
(* the record, and what it claimed until it ends.                           *)
Goto(a, l) ==
    /\ pc' = [pc EXCEPT ![a] = l]
    /\ UNCHANGED <<seen, claim>>

Read(a, l) ==
    /\ pc' = [pc EXCEPT ![a] = l]
    /\ seen' = [seen EXCEPT ![a] = row]
    /\ UNCHANGED claim

Own(a, id) ==
    /\ pc' = [pc EXCEPT ![a] = "execute"]
    /\ seen' = [seen EXCEPT ![a] = NoRow]
    /\ claim' = [claim EXCEPT ![a] = id]

Finish(a, result) ==
    /\ pc' = [pc EXCEPT ![a] = "done"]
    /\ seen' = [seen EXCEPT ![a] = NoRow]
    /\ claim' = [claim EXCEPT ![a] = 0]
    /\ told' = [told EXCEPT ![a] = result]

unchangedEffect == UNCHANGED <<effects, latest, keeper, kept, least>>

(* The request arrives and reads the clock. *)
Begin(a) ==
    /\ pc[a] = "idle"
    /\ clock <= LastStart
    /\ now' = [now EXCEPT ![a] = clock]
    /\ Goto(a, "create")
    /\ UNCHANGED <<row, lastId, atomic, told>>
    /\ unchangedEffect

CreateProcessing(a) ==
    /\ pc[a] = "create"
    /\ \/ /\ ~Exists(row)
          /\ lastId' = lastId + 1
          /\ row' = Created(lastId + 1, fingerprint(a), lockedUntil(a), expiresAt(a),
                            NoAttempt)
          /\ Own(a, lastId + 1)
       \/ /\ Exists(row)
          /\ Goto(a, "get")
          /\ UNCHANGED <<row, lastId>>
    /\ UNCHANGED <<atomic, now, told>>
    /\ unchangedEffect

\* Mutant: the fingerprint of the request is not compared.
RefusedAbsent(a) == ~Exists(row)

Refused(a) == ~Exists(row) \/ row.fingerprint # fingerprint(a)

(* The record may not be reclaimed for its age: replay its result, wait for *)
(* the end of the backoff, or reclaim it.                                   *)
Settle(a) ==
    \/ row.status = "succeeded" /\ Finish(a, row.response)
    \/ /\ row.status = "failed_retryable"
       /\ row.lock > now[a]
       /\ Finish(a, NoAttempt)
    \/ /\ row.status = "failed_retryable"
       /\ row.lock <= now[a]
       /\ Read(a, "reclaim") /\ told' = told

GetExisting(a) ==
    /\ pc[a] = "get"
    /\ \/ Refused(a) /\ Finish(a, NoAttempt)
       \/ /\ ~Refused(a)
          /\ row.status = "processing"
          /\ ~atomic \/ row.lock > now[a]
          /\ Finish(a, NoAttempt)
       \/ /\ ~Refused(a)
          /\ row.status = "processing"
          /\ atomic /\ row.lock <= now[a]
          /\ Read(a, "reclaim") /\ told' = told
       \/ /\ ~Refused(a)
          /\ row.status # "processing"
          /\ row.expires <= now[a]
          /\ Read(a, "reclaimExpired") /\ told' = told
       \/ /\ ~Refused(a)
          /\ row.status # "processing"
          /\ row.expires > now[a]
          /\ Settle(a)
    /\ UNCHANGED <<row, lastId, atomic, now>>
    /\ unchangedEffect

(* tryReclaim: compare and swap against the record the attempt has read.    *)
(* Whoever loses the race answers "in progress", unless the record had      *)
(* expired: then it is read again.                                          *)
TryReclaim(a) ==
    /\ pc[a] \in {"reclaim", "reclaimExpired"}
    /\ \/ /\ ReclaimableOwned(row, seen[a], now[a])
          /\ row' = Reclaimed(row, lockedUntil(a), expiresAt(a))
          /\ Own(a, row.id) /\ told' = told
       \/ /\ ~ReclaimableOwned(row, seen[a], now[a])
          /\ \/ pc[a] = "reclaim" /\ Finish(a, NoAttempt)
             \/ pc[a] = "reclaimExpired" /\ Goto(a, "getLatest") /\ told' = told
          /\ row' = row
    /\ UNCHANGED <<lastId, atomic, now>>
    /\ unchangedEffect

GetLatest(a) ==
    /\ pc[a] = "getLatest"
    /\ \/ Refused(a) /\ Finish(a, NoAttempt)
       \/ ~Refused(a) /\ row.status = "processing" /\ Finish(a, NoAttempt)
       \/ ~Refused(a) /\ Settle(a)
    /\ UNCHANGED <<row, lastId, atomic, now>>
    /\ unchangedEffect

-------------------------------------------------------------------------------
(* The owner of the record runs the operation.                              *)

(* An operation by itself (not atomic) may end after its record expired. *)
OutlivesRecord(a) == ~atomic /\ expiresAt(a) <= clock

Earliest(end) == IF least = 0 \/ end < least THEN end ELSE least

TakeEffect(a, promised) ==
    /\ effects' = effects \cup {a}
    /\ \/ /\ OutlivesRecord(a)
          /\ least' = Earliest(expiresAt(a))
          /\ UNCHANGED <<latest, keeper, kept>>
       \/ /\ ~OutlivesRecord(a)
          /\ latest' = a
          /\ \/ /\ promised
                /\ keeper' = a
                /\ kept' = clock
                /\ least' = Earliest(expiresAt(a))
             \/ ~promised /\ UNCHANGED <<keeper, kept, least>>

(* ExecuteAtomic: PersistSuccess and the operation commit together, if the  *)
(* record is still the one the attempt claimed.  The commit may be reported *)
(* as an error: then the attempt goes on to mark the record as failed.      *)
CommitAtomic(a) ==
    /\ pc[a] = "execute"
    /\ atomic
    /\ InProcessOwned(row, claim[a], fingerprint(a), lockedUntil(a))
    /\ row' = Succeeded(row, a, expiresAt(a))
    /\ TakeEffect(a, TRUE)
    /\ Finish(a, a) \/ (Goto(a, "markFailed") /\ told' = told)
    /\ UNCHANGED <<lastId, atomic, now>>

(* The operation fails, or the claim is lost: the transaction is undone. *)
AbortAtomic(a) ==
    /\ pc[a] = "execute"
    /\ atomic
    /\ Goto(a, "markFailed")
    /\ UNCHANGED <<row, lastId, atomic, now, told>>
    /\ unchangedEffect

(* Execute: the operation commits by itself, and the record follows. *)
Perform(a) ==
    /\ pc[a] = "execute"
    /\ ~atomic
    /\ TakeEffect(a, TRUE)
    /\ Goto(a, "markSucceeded")
    /\ UNCHANGED <<row, lastId, atomic, now, told>>

(* The operation returns an error, with or without having taken effect. *)
PerformFails(a) ==
    /\ pc[a] = "execute"
    /\ ~atomic
    /\ TakeEffect(a, FALSE) \/ unchangedEffect
    /\ Goto(a, "markFailed")
    /\ UNCHANGED <<row, lastId, atomic, now, told>>

MarkSucceeded(a) ==
    /\ pc[a] = "markSucceeded"
    /\ \/ /\ InProcess(row, claim[a])
          /\ row' = Succeeded(row, a, expiresAt(a))
          /\ Finish(a, a)
       \/ /\ ~InProcess(row, claim[a])
          /\ row' = row
          /\ Finish(a, NoAttempt)
    /\ UNCHANGED <<lastId, atomic, now>>
    /\ unchangedEffect

OwnsToFail(a) ==
    IF atomic
    THEN InProcessOwned(row, claim[a], fingerprint(a), lockedUntil(a))
    ELSE InProcess(row, claim[a])

MarkFailed(a) ==
    /\ pc[a] = "markFailed"
    /\ row' = IF OwnsToFail(a)
              THEN FailedRetryable(row, clock + RetryBackoff, expiresAt(a))
              ELSE row
    /\ Finish(a, NoAttempt)
    /\ UNCHANGED <<lastId, atomic, now>>
    /\ unchangedEffect

(* The process dies, or the store reports an error. *)
GiveUp(a) ==
    /\ pc[a] \notin {"idle", "done"}
    /\ Finish(a, NoAttempt)
    /\ UNCHANGED <<row, lastId, atomic, now>>
    /\ unchangedEffect

(* The sweep of the cleanup service reaches the record of the key. *)
DeleteExpired ==
    /\ Sweepable(row, clock)
    /\ row' = NoRow
    /\ UNCHANGED <<lastId, atomic, pc, now, seen, claim, effects, latest, keeper,
                   kept, least, told>>

Proceed(a) ==
    \/ CreateProcessing(a) \/ GetExisting(a) \/ TryReclaim(a) \/ GetLatest(a)
    \/ CommitAtomic(a) \/ AbortAtomic(a) \/ Perform(a) \/ PerformFails(a)
    \/ MarkSucceeded(a) \/ MarkFailed(a)

Attempt(a) == Begin(a) \/ Proceed(a) \/ GiveUp(a)

Tick ==
    /\ clock < MaxTime
    /\ clock' = clock + 1

KeyNext ==
    \/ (DeleteExpired \/ \E a \in Attempts : Attempt(a)) /\ clock' = clock
    \/ Tick /\ UNCHANGED keyVars

KeySpec == clock = 0 /\ KeyInit /\ [][KeyNext]_allKeyVars

-------------------------------------------------------------------------------
(* Every variable has the values its column or Go variable can have, and a  *)
(* claim, a snapshot and the record carry ids the table has given out.      *)
KeyTypeOK ==
    /\ clock \in Nat
    /\ lastId \in Nat
    /\ row \in KeyRows /\ row.id <= lastId
    /\ atomic \in BOOLEAN
    /\ pc \in [Attempts -> {"idle", "create", "get", "reclaim", "reclaimExpired",
                            "getLatest", "execute", "markSucceeded", "markFailed",
                            "done"}]
    /\ now \in [Attempts -> Nat] /\ \A a \in Attempts : now[a] <= clock
    /\ seen \in [Attempts -> KeyRows] /\ \A a \in Attempts : seen[a].id <= lastId
    /\ claim \in [Attempts -> Nat] /\ \A a \in Attempts : claim[a] <= lastId
    /\ effects \subseteq Attempts
    /\ latest \in Results
    /\ keeper \in Results /\ kept \in Nat /\ least \in Nat
    /\ told \in [Attempts -> Results]

(* The promise of the key: no operation of the key takes effect while the   *)
(* promise of an earlier one lasts, whoever is slow, dead or told of an     *)
(* error (an operation that is not atomic must end before its own record    *)
(* expires), and every answer is the result of an effect, the latest one when  *)
(* effect and record are written together.                                  *)
Promise == INSTANCE OncePerKey WITH begun <- now
KeepsOncePerKey == Promise!OnceSpec

(* A result is replayed only to a request with the same payload. *)
ReplaySameRequest ==
    \A a \in Attempts : told[a] # NoAttempt => fingerprint(told[a]) = fingerprint(a)

(* A claim that lasts is not taken: while a record is processing and its    *)
(* lock has not run out, only the attempt that wrote this lock changes the  *)
(* record, even when others compare it with an instant they read long ago.  *)
Owner(a) == pc[a] \in {"execute", "markSucceeded", "markFailed"}

ClaimIsHonoured ==
    [][ row.status = "processing" /\ clock < row.lock /\ clock < row.expires
        => \/ row' = row
           \/ \E a \in Attempts :
                /\ Owner(a) /\ pc'[a] \in {"done", "markFailed"}
                /\ claim[a] = row.id /\ lockedUntil(a) = row.lock ]_allKeyVars

===============================================================================
