--------------------------- MODULE IdempotencyProofs ---------------------------
(***************************************************************************)
(* Proofs about the two users of idempotency_records and their table.      *)
(*                                                                         *)
(* A. Idempotency, for any attempts with the key and any durations.        *)
(*    1. Types (KeyTypes).                                                 *)
(*    2. KeyInv is inductive (KeyInvariance).  Its centre is Free: no      *)
(*       promise of the key lasts, or the exception of OncePerKey applies. *)
(*       A record that anybody may take, or that an atomic attempt works   *)
(*       on, is Free; any other lasts at least as long as the promise.     *)
(*    3. It implies that claims are honoured and results replayed to the   *)
(*       right requests, and that every step is a step of OncePerKey.      *)
(*                                                                         *)
(* B. OperationLock, for any operations, intervals and number of defeated  *)
(*    renewals: types (LockTypes), and that nobody gets the lock while the *)
(*    operation that created its row renews it (RenewedLockIsHeld).        *)
(*                                                                         *)
(* C. The composition: every behaviour of the table is one of the          *)
(*    coordinator and one of the lock, and keeps what they promise         *)
(*    (TableKeepsBoth).                                                    *)
(***************************************************************************)
EXTENDS IdempotencyTable, TLAPS

-------------------------------------------------------------------------------
(* A. The coordinator. *)

(* 1. Types. *)

LEMMA RowTypes ==
    ASSUME KeyTypeOK, NEW a \in Attempts
    PROVE  /\ lockedUntil(a) \in Nat /\ expiresAt(a) \in Nat
           /\ row.id \in Nat /\ row.lock \in Int /\ row.expires \in Nat
           /\ row.status \in Statuses \cup {"none"}
           /\ row.response \in Results /\ row.fingerprint \in Fingerprints
           /\ seen[a].lock \in Int /\ seen[a].id \in Nat /\ seen[a].expires \in Nat
           /\ seen[a].status \in Statuses \cup {"none"}
           /\ fingerprint(a) \in Fingerprints
           /\ lockedUntil(a) > now[a] /\ expiresAt(a) > now[a]
  BY KeyAssumption, TimesAssumption
     DEF KeyTypeOK, KeyRows, Rows, Locks, NoLock, lockedUntil, expiresAt, fingerprint, Fingerprints

LEMMA NoRowType == NoRow \in KeyRows /\ NoRow.id = 0 /\ NoRow.status = "none"
  BY DEF NoRow, Absent, KeyRows, Rows, Locks, NoLock, Fingerprints, Results

LEMMA InitTypes == clock = 0 /\ KeyInit => KeyTypeOK
  BY NoRowType DEF KeyInit, KeyTypeOK, Results

\* The statements of the repository keep a row a row, with its id and fingerprint.
LEMMA ReclaimedRow ==
    ASSUME NEW r \in KeyRows, NEW l \in Nat, NEW e \in Nat
    PROVE  Reclaimed(r, l, e) \in KeyRows /\ Reclaimed(r, l, e).id = r.id
  BY DEF KeyRows, Rows, Locks, Statuses, Reclaimed

LEMMA SucceededRow ==
    ASSUME NEW r \in KeyRows, NEW x \in Results, NEW e \in Nat
    PROVE  Succeeded(r, x, e) \in KeyRows /\ Succeeded(r, x, e).id = r.id
  BY DEF KeyRows, Rows, Locks, NoLock, Statuses, Succeeded

LEMMA FailedRow ==
    ASSUME NEW r \in KeyRows, NEW l \in Nat, NEW e \in Nat
    PROVE  FailedRetryable(r, l, e) \in KeyRows /\ FailedRetryable(r, l, e).id = r.id
  BY DEF KeyRows, Rows, Locks, Statuses, FailedRetryable

LEMMA CreatedRow ==
    ASSUME NEW i \in Nat, NEW f \in Fingerprints, NEW l \in Nat, NEW e \in Nat
    PROVE  Created(i, f, l, e, NoAttempt) \in KeyRows
  BY DEF KeyRows, Rows, Locks, Statuses, Created, Results

\* What an attempt keeps for itself, against the ids given out so far.
LocalTypeOK ==
    /\ pc \in [Attempts -> {"idle", "create", "get", "reclaim", "reclaimExpired",
                            "getLatest", "execute", "markSucceeded", "markFailed",
                            "done"}]
    /\ seen \in [Attempts -> KeyRows] /\ \A a \in Attempts : seen[a].id <= lastId
    /\ claim \in [Attempts -> Nat] /\ \A a \in Attempts : claim[a] <= lastId

LEMMA LocalTypes ==
    ASSUME KeyTypeOK, NEW a \in Attempts, lastId' \in Nat, lastId' >= lastId,
           \/ \E x \in Results : Finish(a, x)
           \/ \E l \in {"reclaim", "reclaimExpired"} : Read(a, l)
           \/ \E l \in {"create", "get", "getLatest", "markSucceeded", "markFailed"} : Goto(a, l)
           \/ \E i \in Nat : i <= lastId' /\ Own(a, i)
    PROVE  LocalTypeOK'
  <1>0. \A b \in Attempts : seen[b].id \in Nat /\ seen[b].id <= lastId'
    BY RowTypes DEF KeyTypeOK
  <1>1. CASE \E x \in Results : Finish(a, x)
    BY <1>0, <1>1, NoRowType DEF KeyTypeOK, LocalTypeOK, Finish
  <1>2. CASE \E l \in {"reclaim", "reclaimExpired"} : Read(a, l)
    BY <1>0, <1>2, RowTypes DEF KeyTypeOK, LocalTypeOK, Read
  <1>3. CASE \E l \in {"create", "get", "getLatest", "markSucceeded", "markFailed"} : Goto(a, l)
    BY <1>0, <1>3 DEF KeyTypeOK, LocalTypeOK, Goto
  <1>4. CASE \E i \in Nat : i <= lastId' /\ Own(a, i)
    BY <1>0, <1>4, NoRowType DEF KeyTypeOK, LocalTypeOK, Own
  <1> QED BY <1>1, <1>2, <1>3, <1>4

LEMMA StepTypes == KeyTypeOK /\ [KeyNext]_allKeyVars => KeyTypeOK'
  <1> SUFFICES ASSUME KeyTypeOK, [KeyNext]_allKeyVars PROVE KeyTypeOK'
    OBVIOUS
  <1>1. ASSUME NEW a \in Attempts, Begin(a), clock' = clock PROVE KeyTypeOK'
    BY <1>1 DEF KeyTypeOK, Begin, Goto, unchangedEffect
  <1>2. ASSUME NEW a \in Attempts, CreateProcessing(a), clock' = clock PROVE KeyTypeOK'
    <2>1. Created(lastId + 1, fingerprint(a), lockedUntil(a), expiresAt(a), NoAttempt) \in KeyRows
      BY RowTypes, CreatedRow DEF KeyTypeOK
    <2>2. Created(lastId + 1, fingerprint(a), lockedUntil(a), expiresAt(a), NoAttempt).id = lastId + 1
      BY DEF Created
    <2>3. /\ \/ \E l \in {"get"} : Goto(a, l) /\ lastId' = lastId
             \/ \E i \in Nat : i <= lastId' /\ Own(a, i)
          /\ lastId' \in Nat /\ lastId' >= lastId
          /\ row' \in KeyRows /\ row'.id <= lastId'
      BY <1>2, <2>1, <2>2 DEF KeyTypeOK, CreateProcessing
    <2>4. LocalTypeOK'
      BY <2>3, LocalTypes
    <2> QED BY <1>2, <2>3, <2>4 DEF KeyTypeOK, LocalTypeOK, CreateProcessing, unchangedEffect
  <1>3. ASSUME NEW a \in Attempts, GetExisting(a) \/ GetLatest(a), clock' = clock PROVE KeyTypeOK'
    <2>1. row.response \in Results /\ NoAttempt \in Results /\ row' = row /\ lastId' = lastId
      BY <1>3, RowTypes DEF GetExisting, GetLatest, Results
    <2>2. /\ (\E x \in Results : Finish(a, x)) \/ (\E l \in {"reclaim", "reclaimExpired"} : Read(a, l))
          /\ told' \in [Attempts -> Results]
      BY <1>3, <2>1 DEF KeyTypeOK, GetExisting, GetLatest, Settle, Finish
    <2>3. LocalTypeOK'
      BY <2>1, <2>2, LocalTypes DEF KeyTypeOK
    <2> QED BY <1>3, <2>2, <2>3 DEF KeyTypeOK, LocalTypeOK, GetExisting, GetLatest, unchangedEffect
  <1>4. ASSUME NEW a \in Attempts, TryReclaim(a), clock' = clock PROVE KeyTypeOK'
    <2>1. NoAttempt \in Results /\ lastId' = lastId /\ row.id \in Nat /\ row.id <= lastId
      BY <1>4 DEF KeyTypeOK, TryReclaim, Results, KeyRows, Rows
    <2>2. /\ \/ \E x \in Results : Finish(a, x)
             \/ \E l \in {"getLatest"} : Goto(a, l)
             \/ \E i \in Nat : i <= lastId /\ Own(a, i)
          /\ told' \in [Attempts -> Results]
      BY <1>4, <2>1 DEF KeyTypeOK, TryReclaim, Finish
    <2>3. LocalTypeOK'
      BY <2>1, <2>2, LocalTypes DEF KeyTypeOK
    <2>4. row' \in KeyRows /\ row'.id = row.id
      <3>1. row \in KeyRows /\ lockedUntil(a) \in Nat /\ expiresAt(a) \in Nat
        BY RowTypes DEF KeyTypeOK
      <3>2. row' = row \/ row' = Reclaimed(row, lockedUntil(a), expiresAt(a))
        BY <1>4 DEF TryReclaim
      <3> QED BY <3>1, <3>2, ReclaimedRow
    <2> QED BY <1>4, <2>2, <2>3, <2>4 DEF KeyTypeOK, LocalTypeOK, TryReclaim, unchangedEffect
  <1>5. ASSUME NEW a \in Attempts, NEW p \in BOOLEAN, TakeEffect(a, p), clock' = clock
        PROVE  /\ effects' \subseteq Attempts
               /\ latest' \in Results /\ keeper' \in Results
               /\ kept' \in Nat /\ least' \in Nat
    BY <1>5, RowTypes DEF KeyTypeOK, TakeEffect, Earliest, Results
  <1>6. ASSUME NEW a \in Attempts, CommitAtomic(a), clock' = clock PROVE KeyTypeOK'
    <2>1. lastId' = lastId /\ a \in Results /\ row' \in KeyRows /\ row'.id = row.id
      <3>1. row \in KeyRows /\ expiresAt(a) \in Nat /\ a \in Results
        BY RowTypes DEF KeyTypeOK, Results
      <3> QED BY <1>6, <3>1, SucceededRow DEF CommitAtomic
    <2>2. /\ (\E x \in Results : Finish(a, x)) \/ (\E l \in {"markFailed"} : Goto(a, l))
          /\ told' \in [Attempts -> Results]
      BY <1>6, <2>1 DEF KeyTypeOK, CommitAtomic, Finish
    <2>3. LocalTypeOK'
      BY <2>1, <2>2, LocalTypes DEF KeyTypeOK
    <2> QED BY <1>5, <1>6, <2>1, <2>2, <2>3 DEF KeyTypeOK, LocalTypeOK, CommitAtomic
  <1>7. ASSUME NEW a \in Attempts, AbortAtomic(a) \/ Perform(a) \/ PerformFails(a), clock' = clock
        PROVE  KeyTypeOK'
    BY <1>5, <1>7 DEF KeyTypeOK, AbortAtomic, Perform, PerformFails, Goto, unchangedEffect
  <1>8. ASSUME NEW a \in Attempts, MarkSucceeded(a) \/ MarkFailed(a) \/ GiveUp(a), clock' = clock
        PROVE  KeyTypeOK'
    <2>1. clock + RetryBackoff \in Nat /\ NoAttempt \in Results /\ a \in Results
      BY KeyAssumption DEF KeyTypeOK, Results
    <2>2. lastId' = lastId /\ row' \in KeyRows /\ row'.id = row.id
      <3>1. row \in KeyRows /\ expiresAt(a) \in Nat
        BY RowTypes DEF KeyTypeOK
      <3>2. /\ lastId' = lastId
            /\ \/ row' = row \/ row' = Succeeded(row, a, expiresAt(a))
               \/ \E l \in Nat : row' = FailedRetryable(row, l, expiresAt(a))
        BY <1>8, <2>1 DEF MarkSucceeded, MarkFailed, GiveUp
      <3>3. CASE row' = Succeeded(row, a, expiresAt(a))
        BY <2>1, <3>1, <3>2, <3>3, SucceededRow
      <3>4. CASE \E l \in Nat : row' = FailedRetryable(row, l, expiresAt(a))
        BY <3>1, <3>2, <3>4, FailedRow
      <3> QED BY <3>1, <3>2, <3>3, <3>4
    <2>3. (\E x \in Results : Finish(a, x)) /\ told' \in [Attempts -> Results]
      BY <1>8, <2>1 DEF KeyTypeOK, MarkSucceeded, MarkFailed, GiveUp, Finish
    <2>4. LocalTypeOK'
      BY <2>2, <2>3, LocalTypes DEF KeyTypeOK
    <2> QED BY <1>8, <2>2, <2>3, <2>4
            DEF KeyTypeOK, LocalTypeOK, MarkSucceeded, MarkFailed, GiveUp, unchangedEffect
  <1>9. ASSUME DeleteExpired, clock' = clock PROVE KeyTypeOK'
    BY <1>9, NoRowType DEF KeyTypeOK, DeleteExpired
  <1>10. ASSUME Tick, UNCHANGED keyVars PROVE KeyTypeOK'
    BY <1>10 DEF KeyTypeOK, Tick, keyVars
  <1>11. ASSUME UNCHANGED allKeyVars PROVE KeyTypeOK'
    BY <1>11 DEF KeyTypeOK, allKeyVars
  <1> QED BY <1>1, <1>2, <1>3, <1>4, <1>6, <1>7, <1>8, <1>9, <1>10, <1>11
          DEF KeyNext, Attempt, Proceed

\* Records, snapshots and claims carry ids that the table has given out.
THEOREM KeyTypes == KeySpec => []KeyTypeOK
  BY InitTypes, StepTypes, PTL DEF KeySpec

-------------------------------------------------------------------------------
(* 2. The inductive invariant. *)

\* No promise of the key lasts, or OncePerKey makes an exception.
Free == Promise!PromiseOver \/ Promise!MetAtExpiry

\* The step an attempt is at, against its claim, its effect and its answer.
StageFacts(a) ==
    /\ pc[a] = "idle" => now[a] = 0 /\ keeper # a
    /\ ~Owner(a) => claim[a] = 0
    /\ Owner(a) => claim[a] # 0
    /\ pc[a] # "done" => told[a] = NoAttempt
    /\ pc[a] \notin {"markSucceeded", "markFailed", "done"} => a \notin effects
    /\ pc[a] = "markSucceeded" => /\ ~atomic /\ a \in effects
                                  /\ 0 < least /\ least <= expiresAt(a)
    /\ told[a] # NoAttempt => /\ told[a] \in effects
                              /\ fingerprint(told[a]) = fingerprint(a)

\* What an attempt has read and is about to reclaim.
SeenFacts(a) ==
    pc[a] \in {"reclaim", "reclaimExpired"} =>
        /\ seen[a].id # 0
        /\ seen[a].fingerprint = fingerprint(a)
        /\ \/ seen[a].status = "failed_retryable"
           \/ seen[a].status = "processing" /\ atomic
           \/ /\ seen[a].status = "succeeded"
              /\ Free /\ 0 < least /\ least <= now[a]

\* The record an attempt has claimed.  Without a transaction around it the claim
\* lasts until the record is swept.
ClaimFacts(a) ==
    claim[a] # 0 =>
        /\ claim[a] = row.id => row.fingerprint = fingerprint(a)
        /\ ~atomic /\ claim[a] # row.id => expiresAt(a) <= clock
        /\ ~atomic /\ claim[a] = row.id =>
              /\ row.status = "processing"
              /\ row.lock = lockedUntil(a)
              /\ row.expires = expiresAt(a)
              /\ Free \/ (pc[a] = "markSucceeded" /\ keeper = a)
              /\ \A b \in Attempts : claim[b] = row.id => b = a

\* The record against the promise.
RowFacts ==
    /\ row.id = 0 <=> row.status = "none"
    /\ row.response # NoAttempt => fingerprint(row.response) = row.fingerprint
    /\ row.status = "succeeded" => /\ row.response \in effects
                                   /\ atomic => row.response = latest
                                   /\ 0 < least /\ least <= row.expires
    /\ row.status \in {"none", "failed_retryable"} => Free
    /\ row.status = "processing" /\ atomic => Free
    /\ ~Free => keeper \in Attempts /\ row.expires = expiresAt(keeper)

KeyInv ==
    /\ KeyTypeOK
    /\ RowFacts
    /\ \A a \in Attempts : StageFacts(a) /\ SeenFacts(a) /\ ClaimFacts(a)

-------------------------------------------------------------------------------
\* Free lasts until the next promise.
LEMMA StillFree ==
    ASSUME KeyInv, Free, clock' \in Nat, clock' >= clock, keeper' = keeper, kept' = kept,
           least' \in Nat, 0 < least => 0 < least' /\ least' <= least,
           \A b \in Attempts : now'[b] = now[b] \/ pc[b] = "idle"
    PROVE  Free'
  <1>1. \A b \in Attempts : pc[b] = "idle" => now[b] = 0 /\ keeper # b
    BY DEF KeyInv, StageFacts
  <1>2. now \in [Attempts -> Nat] /\ clock \in Nat /\ least \in Nat /\ kept \in Nat
        /\ keeper \in Attempts \cup {NoAttempt}
    BY DEF KeyInv, KeyTypeOK, Results
  <1>3. CASE Promise!PromiseOver
    <2>1. Promise!PromiseOver'
      BY <1>1, <1>2, <1>3, KeyAssumption DEF Promise!PromiseOver
    <2> QED BY <2>1 DEF Free
  <1>4. CASE Promise!MetAtExpiry
    <2>1. PICK e \in Attempts \ {keeper} : 0 < least /\ least <= now[e] /\ now[e] <= kept
      BY <1>4 DEF Promise!MetAtExpiry
    <2>2. now'[e] = now[e]
      BY <1>1, <1>2, <2>1
    <2>3. Promise!MetAtExpiry'
      BY <1>2, <2>1, <2>2 DEF Promise!MetAtExpiry
    <2> QED BY <2>3 DEF Free
  <1> QED BY <1>3, <1>4 DEF Free

\* An attempt that found an expired result before the promise was made.
LEMMA FreeForAnother ==
    ASSUME KeyInv, NEW a \in Attempts, NEW b \in Attempts, b # a,
           keeper' = a, kept' = clock, now'[b] = now[b],
           0 < least', least' \in Nat, least' <= now[b]
    PROVE  Free'
  BY DEF KeyInv, KeyTypeOK, Free, Promise!MetAtExpiry

\* The others stay where they are.
OthersStay(a) ==
    \A b \in Attempts \ {a} : /\ pc'[b] = pc[b] /\ seen'[b] = seen[b] /\ claim'[b] = claim[b]
                             /\ now'[b] = now[b] /\ told'[b] = told[b]

LEMMA Moves ==
    ASSUME KeyTypeOK, NEW a \in Attempts
    PROVE  /\ \A x \in Results : Finish(a, x) =>
                 /\ pc'[a] = "done" /\ claim'[a] = 0 /\ told'[a] = x
                 /\ now' = now => OthersStay(a)
           /\ \A l : Read(a, l) =>
                 /\ pc'[a] = l /\ seen'[a] = row /\ claim'[a] = claim[a]
                 /\ now' = now /\ told' = told => OthersStay(a)
           /\ \A l : Goto(a, l) =>
                 /\ pc'[a] = l /\ seen'[a] = seen[a] /\ claim'[a] = claim[a]
                 /\ now' = now /\ told' = told => OthersStay(a)
           /\ \A i : Own(a, i) =>
                 /\ pc'[a] = "execute" /\ claim'[a] = i
                 /\ now' = now /\ told' = told => OthersStay(a)
  BY DEF KeyTypeOK, Finish, Read, Goto, Own, OthersStay

\* Facts about whoever stays, when Free does.
LEMMA StageStays ==
    ASSUME KeyInv, KeyTypeOK', NEW b \in Attempts,
           pc'[b] = pc[b], claim'[b] = claim[b], now'[b] = now[b], told'[b] = told[b],
           atomic' = atomic, keeper' = keeper \/ pc[keeper'] # "idle",
           effects \subseteq effects', b \in effects' => b \in effects,
           0 < least => 0 < least' /\ least' <= least
    PROVE  StageFacts(b)'
  <1>1. StageFacts(b) /\ least \in Nat /\ least' \in Nat /\ now[b] \in Nat
    BY DEF KeyInv, KeyTypeOK
  <1>2. expiresAt(b)' = expiresAt(b) /\ expiresAt(b) \in Nat /\ (Owner(b)' <=> Owner(b))
    BY RowTypes DEF expiresAt, Owner, KeyInv
  <1> QED BY <1>1, <1>2 DEF StageFacts

LEMMA SeenStays ==
    ASSUME KeyInv, KeyTypeOK', NEW b \in Attempts,
           pc'[b] = pc[b], seen'[b] = seen[b], now'[b] = now[b], atomic' = atomic,
           0 < least => 0 < least' /\ least' <= least,
           Free /\ 0 < least /\ least <= now[b] => Free'
    PROVE  SeenFacts(b)'
  <1>1. SeenFacts(b) /\ least \in Nat /\ least' \in Nat /\ now[b] \in Nat
    BY DEF KeyInv, KeyTypeOK
  <1> QED BY <1>1 DEF SeenFacts

\* A step that leaves the record and the promise alone.
LEMMA QuietStep ==
    ASSUME KeyInv, KeyTypeOK', NEW a \in Attempts, OthersStay(a),
           row' = row, atomic' = atomic, unchangedEffect, clock' = clock,
           now'[a] = now[a] \/ pc[a] = "idle",
           claim'[a] = 0 \/ (/\ claim'[a] = claim[a] /\ now'[a] = now[a]
                             /\ pc[a] # "markSucceeded"),
           StageFacts(a)', SeenFacts(a)'
    PROVE  KeyInv'
  <1>1. Free => Free'
    <2>1. \A b \in Attempts : now'[b] = now[b] \/ pc[b] = "idle"
      BY DEF OthersStay
    <2> QED BY <2>1, StillFree DEF KeyInv, KeyTypeOK, unchangedEffect
  <1>2. \A b \in Attempts \ {a} : StageFacts(b)' /\ SeenFacts(b)'
    <2>0. least' = least /\ least <= least
      BY DEF KeyInv, KeyTypeOK, unchangedEffect
    <2>1. ASSUME NEW b \in Attempts \ {a} PROVE StageFacts(b)'
      BY <2>0, <2>1, StageStays DEF OthersStay, unchangedEffect
    <2>2. ASSUME NEW b \in Attempts \ {a} PROVE SeenFacts(b)'
      BY <1>1, <2>0, <2>2, SeenStays DEF OthersStay, unchangedEffect
    <2> QED BY <2>1, <2>2
  <1>3. ASSUME NEW b \in Attempts PROVE ClaimFacts(b)'
    <2>1. CASE claim'[b] = 0
      BY <2>1 DEF ClaimFacts
    <2>2. CASE claim'[b] # 0
      <3>1. claim'[b] = claim[b] /\ now'[b] = now[b] /\ (b = a => pc[b] # "markSucceeded")
        BY <2>2 DEF OthersStay
      <3>2. b # a => pc'[b] = pc[b]
        BY DEF OthersStay
      <3>3. lockedUntil(b)' = lockedUntil(b) /\ expiresAt(b)' = expiresAt(b)
        BY <3>1 DEF lockedUntil, expiresAt
      <3>4. ClaimFacts(b)
        BY DEF KeyInv
      <3>5. \A c \in Attempts : claim'[c] = 0 \/ claim'[c] = claim[c]
        BY DEF OthersStay
      <3> QED BY <1>1, <2>2, <3>1, <3>2, <3>3, <3>4, <3>5 DEF ClaimFacts, unchangedEffect
    <2> QED BY <2>1, <2>2
  <1>4. RowFacts'
    <2>1. ASSUME ~Free' PROVE keeper' \in Attempts /\ row'.expires = expiresAt(keeper)'
      <3>1. keeper \in Attempts /\ row.expires = expiresAt(keeper)
        BY <1>1, <2>1 DEF KeyInv, RowFacts
      <3>2. now'[keeper] = now[keeper]
        BY <3>1 DEF OthersStay, KeyInv, StageFacts
      <3> QED BY <3>1, <3>2 DEF expiresAt, unchangedEffect
    <2> QED BY <1>1, <2>1 DEF KeyInv, RowFacts, unchangedEffect
  <1> QED BY <1>2, <1>3, <1>4 DEF KeyInv

\* Steps that end an attempt without a word, with an error or with the stored result.
LEMMA FinishStep ==
    ASSUME KeyInv, KeyTypeOK', NEW a \in Attempts, NEW x \in Results, Finish(a, x),
           x # NoAttempt => x \in effects /\ fingerprint(x) = fingerprint(a),
           UNCHANGED <<clock, row, atomic, now>>, unchangedEffect
    PROVE  KeyInv'
  <1>1. OthersStay(a) /\ pc'[a] = "done" /\ claim'[a] = 0 /\ told'[a] = x /\ now'[a] = now[a]
    BY Moves DEF KeyInv
  <1>2. StageFacts(a)' /\ SeenFacts(a)'
    BY <1>1 DEF StageFacts, SeenFacts, Owner, unchangedEffect, fingerprint
  <1> QED BY <1>1, <1>2, QuietStep DEF unchangedEffect

LEMMA BeginStep ==
    ASSUME KeyInv, KeyTypeOK', NEW a \in Attempts, Begin(a), clock' = clock
    PROVE  KeyInv'
  <1>1. /\ pc'[a] = "create" /\ claim'[a] = claim[a] /\ told' = told
        /\ OthersStay(a)
    BY DEF KeyInv, KeyTypeOK, Begin, Goto, OthersStay
  <1>2. StageFacts(a) /\ pc[a] = "idle"
    BY DEF KeyInv, Begin
  <1>3. StageFacts(a)' /\ SeenFacts(a)' /\ claim'[a] = 0
    BY <1>1, <1>2 DEF StageFacts, SeenFacts, Owner, Begin, unchangedEffect
  <1> QED BY <1>1, <1>2, <1>3, QuietStep DEF Begin, unchangedEffect

\* The steps that go on with what has been read.
LEMMA GotoStep ==
    ASSUME KeyInv, KeyTypeOK', NEW a \in Attempts, NEW l, Goto(a, l),
           \/ pc[a] \in {"create", "reclaim", "reclaimExpired"} /\ l \in {"get", "getLatest"}
           \/ pc[a] = "execute" /\ l = "markFailed",
           UNCHANGED <<clock, row, atomic, now, told>>, unchangedEffect
    PROVE  KeyInv'
  <1>1. OthersStay(a) /\ pc'[a] = l /\ claim'[a] = claim[a] /\ now'[a] = now[a]
    BY Moves DEF KeyInv
  <1>2. StageFacts(a)' /\ SeenFacts(a)'
    BY <1>1 DEF KeyInv, StageFacts, SeenFacts, Owner, unchangedEffect
  <1> QED BY <1>1, <1>2, QuietStep DEF unchangedEffect

\* A snapshot of a record that may be reclaimed.
LEMMA ReadStep ==
    ASSUME KeyInv, KeyTypeOK', NEW a \in Attempts, pc[a] \in {"get", "getLatest"},
           ~Refused(a),
           \/ Read(a, "reclaim") /\ row.status = "failed_retryable"
           \/ Read(a, "reclaim") /\ row.status = "processing" /\ atomic
           \/ Read(a, "reclaimExpired") /\ row.status # "processing" /\ row.expires <= now[a],
           UNCHANGED <<clock, row, atomic, now, told>>, unchangedEffect
    PROVE  KeyInv'
  <1>1. OthersStay(a) /\ seen'[a] = row /\ claim'[a] = claim[a] /\ now'[a] = now[a]
        /\ pc'[a] \in {"reclaim", "reclaimExpired"}
    BY Moves DEF KeyInv
  <1>2. /\ row.status # "none" /\ row.fingerprint = fingerprint(a) /\ row.id # 0
        /\ now[a] <= clock /\ now[a] \in Nat /\ clock \in Nat /\ row.expires \in Nat
        /\ least \in Nat /\ row.status \in Statuses
    BY RowTypes DEF KeyInv, KeyTypeOK, RowFacts, Refused, Exists
  <1>3. StageFacts(a)'
    BY <1>1 DEF KeyInv, StageFacts, Owner, unchangedEffect
  <1>4. row.expires <= now[a] => Free
    BY <1>2 DEF KeyInv, RowFacts, Free, Promise!PromiseOver, expiresAt
  <1>5. Free => Free'
    BY StillFree DEF KeyInv, KeyTypeOK, unchangedEffect
  <1>6. SeenFacts(a)'
    <2>1. CASE row.status = "succeeded"
      <3>1. row.expires <= now[a] /\ 0 < least /\ least <= row.expires
        BY <2>1 DEF KeyInv, RowFacts
      <3>2. Free' /\ 0 < least' /\ least' <= now'[a]
        BY <1>1, <1>2, <1>4, <1>5, <3>1 DEF unchangedEffect
      <3> QED BY <1>1, <1>2, <2>1, <3>2 DEF SeenFacts
    <2>2. CASE row.status # "succeeded"
      BY <1>1, <1>2, <2>2 DEF SeenFacts, Statuses
    <2> QED BY <2>1, <2>2
  <1> QED BY <1>1, <1>3, <1>6, QuietStep DEF KeyInv, StageFacts, Owner, unchangedEffect

LEMMA GetStep ==
    ASSUME KeyInv, KeyTypeOK', NEW a \in Attempts, GetExisting(a) \/ GetLatest(a), clock' = clock
    PROVE  KeyInv'
  <1>1. UNCHANGED <<clock, row, atomic, now>> /\ unchangedEffect /\ pc[a] \in {"get", "getLatest"}
    BY DEF GetExisting, GetLatest
  <1>2. row.response \in Results /\ NoAttempt \in Results
    BY RowTypes DEF KeyInv, Results
  <1>3. CASE Finish(a, NoAttempt)
    BY <1>1, <1>2, <1>3, FinishStep
  <1>4. CASE Finish(a, row.response) /\ ~Refused(a) /\ row.status = "succeeded"
    <2>1. row.response \in effects /\ fingerprint(row.response) = fingerprint(a)
      BY <1>4, KeyAssumption DEF KeyInv, KeyTypeOK, RowFacts, Refused
    <2> QED BY <1>1, <1>2, <1>4, <2>1, FinishStep
  <1>5. CASE /\ ~Refused(a) /\ told' = told
             /\ \/ Read(a, "reclaim") /\ row.status = "failed_retryable"
                \/ Read(a, "reclaim") /\ row.status = "processing" /\ atomic
                \/ Read(a, "reclaimExpired") /\ row.status # "processing" /\ row.expires <= now[a]
    BY <1>1, <1>5, ReadStep
  <1> QED BY <1>3, <1>4, <1>5 DEF GetExisting, GetLatest, Settle

-------------------------------------------------------------------------------
\* Steps that write the record and leave the promise alone.  The facts about the
\* attempts that stay, and about the one that moves, but for the claims.
LEMMA WriteStep ==
    ASSUME KeyInv, KeyTypeOK', NEW a \in Attempts, OthersStay(a),
           UNCHANGED <<clock, atomic, now>>, unchangedEffect,
           StageFacts(a)', pc'[a] \notin {"reclaim", "reclaimExpired"},
           RowFacts', \A b \in Attempts : ClaimFacts(b)'
    PROVE  KeyInv'
  <1>0. least' = least /\ least <= least /\ (Free => Free')
    BY StillFree DEF KeyInv, KeyTypeOK, unchangedEffect
  <1>1. ASSUME NEW b \in Attempts \ {a} PROVE StageFacts(b)'
    BY <1>0, <1>1, StageStays DEF OthersStay, unchangedEffect
  <1>2. ASSUME NEW b \in Attempts \ {a} PROVE SeenFacts(b)'
    BY <1>0, <1>2, SeenStays DEF OthersStay, unchangedEffect
  <1>3. SeenFacts(a)'
    BY DEF SeenFacts
  <1> QED BY <1>1, <1>2, <1>3 DEF KeyInv

\* An attempt becomes the owner of a record that no promise protects.
LEMMA ClaimStep ==
    ASSUME KeyInv, KeyTypeOK', NEW a \in Attempts, NEW i \in Nat \ {0}, Own(a, i), Free,
           pc[a] \in {"create", "reclaim", "reclaimExpired"}, told' = told,
           UNCHANGED <<clock, atomic, now>>, unchangedEffect,
           row'.id = i, row'.status = "processing", row'.fingerprint = fingerprint(a),
           row'.lock = lockedUntil(a), row'.expires = expiresAt(a),
           row'.response # NoAttempt => fingerprint(row'.response) = fingerprint(a),
           \A b \in Attempts : claim[b] = i => fingerprint(b) = fingerprint(a) /\ atomic,
           ~atomic => \A b \in Attempts : claim[b] # 0 => expiresAt(b) <= clock
    PROVE  KeyInv'
  <1>1. OthersStay(a) /\ pc'[a] = "execute" /\ claim'[a] = i
    BY Moves DEF KeyInv
  <1>2. Free'
    BY StillFree DEF KeyInv, KeyTypeOK, unchangedEffect
  <1>3. StageFacts(a)'
    BY <1>1 DEF KeyInv, StageFacts, Owner, unchangedEffect
  <1>4. RowFacts'
    BY <1>2 DEF RowFacts, fingerprint
  <1>5. \A b \in Attempts : lockedUntil(b)' = lockedUntil(b) /\ expiresAt(b)' = expiresAt(b)
    BY DEF lockedUntil, expiresAt
  <1>6. ASSUME NEW b \in Attempts PROVE ClaimFacts(b)'
    <2>1. CASE b = a
      BY <1>1, <1>2, <1>5, <2>1 DEF ClaimFacts, fingerprint, OthersStay
    <2>2. CASE b # a
      BY <1>1, <1>2, <1>5, <2>2 DEF ClaimFacts, fingerprint, OthersStay
    <2> QED BY <2>1, <2>2
  <1> QED BY <1>1, <1>3, <1>4, <1>6, WriteStep

LEMMA CreateStep ==
    ASSUME KeyInv, KeyTypeOK', NEW a \in Attempts, CreateProcessing(a), clock' = clock
    PROVE  KeyInv'
  <1>1. CASE Exists(row)
    BY <1>1, GotoStep DEF CreateProcessing
  <1>2. CASE ~Exists(row)
    <2>1. /\ Own(a, lastId + 1) /\ pc[a] = "create" /\ told' = told
          /\ UNCHANGED <<atomic, now>> /\ unchangedEffect
          /\ row' = Created(lastId + 1, fingerprint(a), lockedUntil(a), expiresAt(a), NoAttempt)
      BY <1>2 DEF CreateProcessing
    <2>2. row.status = "none" /\ row.id = 0 /\ Free /\ lastId + 1 \in Nat \ {0}
      BY <1>2 DEF Exists, KeyInv, RowFacts, KeyTypeOK
    <2>3. /\ row'.id = lastId + 1 /\ row'.status = "processing"
          /\ row'.fingerprint = fingerprint(a) /\ row'.lock = lockedUntil(a)
          /\ row'.expires = expiresAt(a) /\ row'.response = NoAttempt
      BY <2>1 DEF Created
    <2>4. \A b \in Attempts : claim[b] # lastId + 1
      BY DEF KeyInv, KeyTypeOK
    <2>5. ~atomic => \A b \in Attempts : claim[b] # 0 => expiresAt(b) <= clock
      BY <2>2 DEF KeyInv, ClaimFacts
    <2> QED BY ClaimStep, <2>1, <2>2, <2>3, <2>4, <2>5
  <1> QED BY <1>1, <1>2

LEMMA ReclaimStep ==
    ASSUME KeyInv, KeyTypeOK', NEW a \in Attempts, TryReclaim(a), clock' = clock
    PROVE  KeyInv'
  <1>1. /\ pc[a] \in {"reclaim", "reclaimExpired"} /\ NoAttempt \in Results
        /\ UNCHANGED <<atomic, now>> /\ unchangedEffect
    BY DEF TryReclaim, Results
  <1>2. CASE ~ReclaimableOwned(row, seen[a], now[a])
    BY <1>1, <1>2, FinishStep, GotoStep DEF TryReclaim
  <1>3. CASE ReclaimableOwned(row, seen[a], now[a])
    <2>1. /\ Own(a, row.id) /\ told' = told
          /\ row' = Reclaimed(row, lockedUntil(a), expiresAt(a))
      BY <1>3 DEF TryReclaim
    <2>2. /\ row.id = seen[a].id /\ row.status = seen[a].status
          /\ row.fingerprint = seen[a].fingerprint
      BY <1>3 DEF ReclaimableOwned, Reclaimable
    <2>3. SeenFacts(a) /\ row \in KeyRows
      BY DEF KeyInv, KeyTypeOK
    <2>4. row.fingerprint = fingerprint(a) /\ row.id \in Nat \ {0}
          /\ Free /\ (~atomic => row.status # "processing")
      BY <1>1, <2>2, <2>3, RowTypes DEF SeenFacts, KeyInv, RowFacts
    <2>5. /\ row'.id = row.id /\ row'.status = "processing"
          /\ row'.fingerprint = fingerprint(a) /\ row'.lock = lockedUntil(a)
          /\ row'.expires = expiresAt(a) /\ row'.response = row.response
      BY <2>1, <2>3, <2>4 DEF Reclaimed, KeyRows, Rows
    <2>6. row.response # NoAttempt => fingerprint(row.response) = fingerprint(a)
      BY <2>4 DEF KeyInv, RowFacts
    <2>7. ASSUME NEW b \in Attempts
          PROVE  /\ claim[b] = row.id => fingerprint(b) = fingerprint(a) /\ atomic
                 /\ ~atomic => (claim[b] # 0 => expiresAt(b) <= clock)
      BY <2>4 DEF KeyInv, KeyTypeOK, ClaimFacts
    <2> QED BY <1>1, <2>1, <2>4, <2>5, <2>6, <2>7, ClaimStep
  <1> QED BY <1>2, <1>3

\* The owner writes the outcome, and is done.
LEMMA OutcomeStep ==
    ASSUME KeyInv, KeyTypeOK', NEW a \in Attempts, NEW x \in Results, Finish(a, x), Owner(a),
           x # NoAttempt => x = a /\ a \in effects,
           UNCHANGED <<clock, atomic, now>>, unchangedEffect,
           row'.id = row.id, row'.fingerprint = row.fingerprint,
           ~atomic => claim[a] = row.id, RowFacts'
    PROVE  KeyInv'
  <1>1. OthersStay(a) /\ pc'[a] = "done" /\ claim'[a] = 0 /\ told'[a] = x
    BY Moves DEF KeyInv
  <1>2. StageFacts(a)'
    BY <1>1 DEF StageFacts, Owner, unchangedEffect, fingerprint
  <1>3. \A b \in Attempts : lockedUntil(b)' = lockedUntil(b) /\ expiresAt(b)' = expiresAt(b)
    BY DEF lockedUntil, expiresAt
  <1>4. ASSUME NEW b \in Attempts PROVE ClaimFacts(b)'
    <2>1. CASE b = a
      BY <1>1, <2>1 DEF ClaimFacts
    <2>2. CASE b # a
      <3>0. StageFacts(a) /\ ClaimFacts(a) /\ ClaimFacts(b)
        BY DEF KeyInv
      <3>1. claim'[b] = claim[b] /\ ClaimFacts(b) /\ ClaimFacts(a) /\ claim[a] # 0
        BY <1>1, <2>2, <3>0 DEF OthersStay, StageFacts
      <3>2. ~atomic => claim[b] # row.id
        BY <2>2, <3>1 DEF ClaimFacts
      <3> QED BY <1>3, <3>1, <3>2 DEF ClaimFacts, fingerprint
    <2> QED BY <2>1, <2>2
  <1> QED BY <1>1, <1>2, <1>4, WriteStep

LEMMA MarkStep ==
    ASSUME KeyInv, KeyTypeOK', NEW a \in Attempts, MarkSucceeded(a) \/ MarkFailed(a), clock' = clock
    PROVE  KeyInv'
  <1>1. /\ Owner(a) /\ NoAttempt \in Results /\ a \in Results /\ a # NoAttempt
        /\ UNCHANGED <<clock, atomic, now>> /\ unchangedEffect
    BY KeyAssumption DEF MarkSucceeded, MarkFailed, Owner, Results
  <1>2. row \in KeyRows /\ StageFacts(a) /\ ClaimFacts(a) /\ RowFacts
    BY DEF KeyInv, KeyTypeOK
  <1>3. Free => Free'
    BY <1>1, StillFree DEF KeyInv, KeyTypeOK, unchangedEffect
  <1>4. CASE MarkSucceeded(a) /\ InProcess(row, claim[a])
    <2>1. /\ Finish(a, a) /\ row' = Succeeded(row, a, expiresAt(a))
          /\ pc[a] = "markSucceeded" /\ claim[a] = row.id /\ row.status = "processing"
      BY <1>4 DEF MarkSucceeded, InProcess
    <2>2. /\ row'.id = row.id /\ row'.fingerprint = row.fingerprint
          /\ row'.status = "succeeded" /\ row'.response = a /\ row'.expires = expiresAt(a)
      BY <1>2, <2>1 DEF Succeeded, KeyRows, Rows
    <2>3. /\ ~atomic /\ a \in effects /\ 0 < least /\ least <= expiresAt(a)
          /\ row.fingerprint = fingerprint(a) /\ (Free \/ keeper = a)
      BY <1>1, <1>2, <2>1 DEF StageFacts, ClaimFacts
    <2>4. RowFacts'
      <3>1. ~Free' => keeper' \in Attempts /\ row'.expires = expiresAt(keeper)'
        BY <1>1, <1>3, <2>2, <2>3 DEF expiresAt, unchangedEffect
      <3>2. row'.id # 0
        BY <1>2, <2>1, <2>2 DEF RowFacts
      <3> QED BY <1>1, <2>2, <2>3, <3>1, <3>2 DEF RowFacts, fingerprint, unchangedEffect
    <2> QED BY <1>1, <2>1, <2>2, <2>3, <2>4, OutcomeStep
  <1>5. CASE MarkFailed(a) /\ OwnsToFail(a)
    <2>1. /\ Finish(a, NoAttempt) /\ pc[a] = "markFailed"
          /\ row' = FailedRetryable(row, clock + RetryBackoff, expiresAt(a))
          /\ claim[a] = row.id /\ row.status = "processing"
      BY <1>5 DEF MarkFailed, OwnsToFail, InProcess, InProcessOwned
    <2>2. /\ row'.id = row.id /\ row'.fingerprint = row.fingerprint
          /\ row'.status = "failed_retryable" /\ row'.response = row.response
      BY <1>2, <2>1 DEF FailedRetryable, KeyRows, Rows
    <2>3. Free
      BY <1>1, <1>2, <2>1 DEF RowFacts, ClaimFacts, StageFacts
    <2>4. RowFacts'
      <3>1. row'.id # 0
        BY <1>2, <2>1, <2>2 DEF RowFacts
      <3> QED BY <1>2, <1>3, <2>2, <2>3, <3>1 DEF RowFacts, fingerprint
    <2> QED BY <1>1, <2>1, <2>2, <2>4, OutcomeStep
  <1>6. CASE \/ MarkSucceeded(a) /\ ~InProcess(row, claim[a])
             \/ MarkFailed(a) /\ ~OwnsToFail(a)
    BY <1>1, <1>6, FinishStep DEF MarkSucceeded, MarkFailed
  <1> QED BY <1>4, <1>5, <1>6

\* Steps of no attempt: nobody moves, and time may pass.
LEMMA NobodyMoves ==
    ASSUME KeyInv, KeyTypeOK', UNCHANGED <<atomic, pc, now, seen, claim, told>>, unchangedEffect,
           clock' >= clock, RowFacts', \A b \in Attempts : ClaimFacts(b)'
    PROVE  KeyInv'
  <1>1. least' = least /\ least <= least /\ (Free => Free')
    BY StillFree DEF KeyInv, KeyTypeOK, unchangedEffect
  <1>2. ASSUME NEW b \in Attempts PROVE StageFacts(b)'
    BY <1>1, StageStays DEF unchangedEffect
  <1>3. ASSUME NEW b \in Attempts PROVE SeenFacts(b)'
    BY <1>1, SeenStays DEF unchangedEffect
  <1> QED BY <1>2, <1>3 DEF KeyInv

LEMMA SweepStep ==
    ASSUME KeyInv, KeyTypeOK', DeleteExpired, clock' = clock
    PROVE  KeyInv'
  <1>1. /\ row' = NoRow /\ row.expires <= clock /\ unchangedEffect
        /\ UNCHANGED <<atomic, pc, now, seen, claim, told>>
    BY DEF DeleteExpired, Sweepable, unchangedEffect
  <1>2. clock \in Nat /\ clock' >= clock /\ NoRow.response = NoAttempt
    BY DEF KeyInv, KeyTypeOK, NoRow, Absent
  <1>3. Free
    BY <1>1, <1>2 DEF KeyInv, RowFacts, Free, Promise!PromiseOver, expiresAt
  <1>4. Free'
    BY <1>1, <1>2, <1>3, StillFree DEF KeyInv, KeyTypeOK, unchangedEffect
  <1>5. RowFacts'
    BY <1>1, <1>2, <1>4, NoRowType DEF RowFacts
  <1>6. ASSUME NEW b \in Attempts PROVE ClaimFacts(b)'
    <2>1. ClaimFacts(b) /\ expiresAt(b)' = expiresAt(b)
      BY <1>1 DEF KeyInv, expiresAt
    <2> QED BY <1>1, <1>2, <2>1, NoRowType DEF ClaimFacts
  <1> QED BY <1>1, <1>2, <1>5, <1>6, NobodyMoves

LEMMA TickStep ==
    ASSUME KeyInv, KeyTypeOK', Tick, UNCHANGED keyVars
    PROVE  KeyInv'
  <1>1. /\ clock' = clock + 1 /\ clock \in Nat /\ row' = row /\ unchangedEffect
        /\ UNCHANGED <<atomic, pc, now, seen, claim, told>>
    BY DEF Tick, keyVars, unchangedEffect, KeyInv, KeyTypeOK
  <1>2. Free => Free'
    BY <1>1, StillFree DEF KeyInv, KeyTypeOK, unchangedEffect
  <1>3. RowFacts'
    BY <1>1, <1>2 DEF KeyInv, RowFacts, expiresAt, fingerprint, unchangedEffect
  <1>4. ASSUME NEW b \in Attempts PROVE ClaimFacts(b)'
    <2>1. /\ ClaimFacts(b) /\ expiresAt(b)' = expiresAt(b) /\ lockedUntil(b)' = lockedUntil(b)
          /\ expiresAt(b) \in Nat
      BY <1>1, RowTypes DEF KeyInv, expiresAt, lockedUntil
    <2> QED BY <1>1, <1>2, <2>1 DEF ClaimFacts, fingerprint, unchangedEffect
  <1> QED BY <1>1, <1>3, <1>4, NobodyMoves

-------------------------------------------------------------------------------
\* Effects.  An attempt that makes a promise is Free before, and those that have
\* read an expired result are Free after.
LEMMA EarliestEnd ==
    ASSUME KeyInv, NEW a \in Attempts, least' = Earliest(expiresAt(a))
    PROVE  /\ least' \in Nat /\ 0 < least' /\ least' <= expiresAt(a)
           /\ 0 < least => least' <= least
  BY RowTypes DEF KeyInv, KeyTypeOK, Earliest

LEMMA EffectStays ==
    ASSUME KeyInv, KeyTypeOK', NEW a \in Attempts, NEW p \in BOOLEAN, TakeEffect(a, p),
           clock' = clock, now' = now, atomic' = atomic, Owner(a),
           OthersStay(a)
    PROVE  /\ \A b \in Attempts \ {a} : StageFacts(b)' /\ SeenFacts(b)'
           /\ keeper' # a => (Free => Free')
           /\ keeper' # a => keeper' = keeper
           /\ least' \in Nat /\ (0 < least => 0 < least' /\ least' <= least)
  <1>1. /\ effects' = effects \cup {a}
        /\ \/ keeper' = a /\ kept' = clock /\ least' = Earliest(expiresAt(a))
           \/ keeper' = keeper /\ kept' = kept /\ least' = Earliest(expiresAt(a))
           \/ keeper' = keeper /\ kept' = kept /\ least' = least
    BY DEF TakeEffect
  <1>2. least \in Nat /\ clock \in Nat /\ clock' >= clock /\ a # NoAttempt /\ pc[a] # "idle"
        /\ now \in [Attempts -> Nat]
    BY KeyAssumption DEF KeyInv, KeyTypeOK, Owner
  <1>3. least' \in Nat /\ (0 < least => 0 < least' /\ least' <= least)
    BY <1>1, <1>2, EarliestEnd
  <1>4. ASSUME keeper' = keeper, Free PROVE Free'
    <2>1. CASE kept' = kept
      BY <1>2, <1>3, <1>4, <2>1, StillFree
    <2>2. CASE keeper = a /\ kept' = clock
      <3>1. CASE Promise!PromiseOver
        BY <1>2, <1>4, <3>1 DEF Free, Promise!PromiseOver
      <3>2. CASE Promise!MetAtExpiry
        <4>1. PICK e \in Attempts \ {keeper} : 0 < least /\ least <= now[e] /\ now[e] <= kept
          BY <3>2 DEF Promise!MetAtExpiry
        <4>2. 0 < least' /\ least' <= now'[e] /\ now'[e] <= kept' /\ e # keeper'
          BY <1>2, <1>3, <1>4, <2>2, <4>1 DEF KeyInv, KeyTypeOK
        <4>3. Promise!MetAtExpiry'
          BY <4>1, <4>2 DEF Promise!MetAtExpiry
        <4> QED BY <4>3 DEF Free
      <3> QED BY <1>4, <3>1, <3>2 DEF Free
    <2> QED BY <1>1, <1>4, <2>1, <2>2
  <1>5. ASSUME NEW b \in Attempts \ {a} PROVE StageFacts(b)'
    BY <1>1, <1>2, <1>3, <1>5, StageStays DEF OthersStay
  <1>6. ASSUME NEW b \in Attempts \ {a} PROVE SeenFacts(b)'
    <2>1. ASSUME Free, 0 < least, least <= now[b] PROVE Free'
      <3>1. CASE keeper' = keeper
        BY <1>4, <2>1, <3>1
      <3>2. CASE keeper' = a /\ kept' = clock
        <4>1. now'[b] = now[b] /\ 0 < least' /\ least' <= now[b]
          BY <1>2, <1>3, <1>6, <2>1
        <4> QED BY <1>3, <1>6, <3>2, <4>1, FreeForAnother
      <3> QED BY <1>1, <3>1, <3>2
    <2> QED BY <1>3, <1>6, <2>1, SeenStays DEF OthersStay
  <1> QED BY <1>1, <1>3, <1>4, <1>5, <1>6

LEMMA CommitStep ==
    ASSUME KeyInv, KeyTypeOK', NEW a \in Attempts, CommitAtomic(a), clock' = clock
    PROVE  KeyInv'
  <1>1. /\ pc[a] = "execute" /\ atomic /\ atomic' = atomic /\ now' = now /\ Owner(a)
        /\ row' = Succeeded(row, a, expiresAt(a)) /\ TakeEffect(a, TRUE)
        /\ row.fingerprint = fingerprint(a)
        /\ Finish(a, a) \/ (Goto(a, "markFailed") /\ told' = told)
    BY DEF CommitAtomic, InProcessOwned, Owner
  <1>2. /\ OthersStay(a)
        /\ \/ pc'[a] = "done" /\ claim'[a] = 0 /\ told'[a] = a
           \/ pc'[a] = "markFailed" /\ claim'[a] = claim[a] /\ told'[a] = told[a]
    BY <1>1, Moves DEF KeyInv, Results
  <1>3. /\ row'.id = row.id /\ row'.fingerprint = row.fingerprint
        /\ row'.status = "succeeded" /\ row'.response = a /\ row'.expires = expiresAt(a)
    BY <1>1 DEF Succeeded, KeyInv, KeyTypeOK, KeyRows, Rows
  <1>4. /\ keeper' = a /\ latest' = a /\ effects' = effects \cup {a}
        /\ 0 < least' /\ least' <= expiresAt(a)
    BY <1>1, EarliestEnd DEF TakeEffect, OutlivesRecord
  <1>5. \A b \in Attempts \ {a} : StageFacts(b)' /\ SeenFacts(b)'
    BY <1>1, <1>2, EffectStays
  <1>6. StageFacts(a)' /\ SeenFacts(a)'
    BY <1>1, <1>2, <1>4 DEF KeyInv, StageFacts, SeenFacts, Owner, fingerprint
  <1>7. ASSUME NEW b \in Attempts PROVE ClaimFacts(b)'
    <2>1. claim'[b] = 0 \/ claim'[b] = claim[b]
      BY <1>2 DEF OthersStay
    <2> QED BY <1>1, <1>3, <2>1 DEF KeyInv, ClaimFacts, fingerprint
  <1>8. RowFacts'
    <2>1. row.status = "processing" /\ row.id # 0
      BY DEF CommitAtomic, InProcessOwned, InProcess, KeyInv, RowFacts
    <2> QED BY <1>1, <1>3, <1>4, <2>1 DEF RowFacts, fingerprint, expiresAt
  <1> QED BY <1>5, <1>6, <1>7, <1>8 DEF KeyInv

LEMMA PerformStep ==
    ASSUME KeyInv, KeyTypeOK', NEW a \in Attempts, NEW p \in BOOLEAN, TakeEffect(a, p),
           ~atomic, pc[a] = "execute",
           Goto(a, IF p THEN "markSucceeded" ELSE "markFailed"),
           UNCHANGED <<clock, row, atomic, now, told>>
    PROVE  KeyInv'
  <1>1. /\ OthersStay(a) /\ claim'[a] = claim[a] /\ Owner(a)
        /\ pc'[a] = IF p THEN "markSucceeded" ELSE "markFailed"
    BY Moves DEF KeyInv, Owner
  <1>2. /\ effects' = effects \cup {a}
        /\ p => least' = Earliest(expiresAt(a))
        /\ \/ keeper' = a /\ ~OutlivesRecord(a) /\ p
           \/ keeper' = keeper /\ kept' = kept
    BY DEF TakeEffect
  <1>3. \A b \in Attempts \ {a} : StageFacts(b)' /\ SeenFacts(b)'
    BY <1>1, EffectStays
  <1>4. StageFacts(a)' /\ SeenFacts(a)'
    <2>1. p => 0 < least' /\ least' <= expiresAt(a)
      BY <1>2, EarliestEnd
    <2> QED BY <1>1, <1>2, <2>1 DEF KeyInv, StageFacts, SeenFacts, Owner, expiresAt
  <1>5. ASSUME keeper' # a \/ ~p, Free PROVE Free'
    <2>1. keeper' = keeper /\ kept' = kept
      BY <1>2, <1>5
    <2>2. least' \in Nat /\ (0 < least => 0 < least' /\ least' <= least)
      BY <1>1, EffectStays
    <2> QED BY <1>5, <2>1, <2>2, StillFree DEF KeyInv, KeyTypeOK
  <1>6. claim[a] # 0 /\ (keeper' = a /\ p /\ keeper # a => claim[a] = row.id)
    BY <1>1, <1>2 DEF KeyInv, StageFacts, ClaimFacts, OutlivesRecord
  <1>7. ASSUME NEW b \in Attempts PROVE ClaimFacts(b)'
    <2>1. /\ ClaimFacts(b) /\ ClaimFacts(a) /\ claim' = claim /\ StageFacts(a)
          /\ lockedUntil(b)' = lockedUntil(b) /\ expiresAt(b)' = expiresAt(b)
      BY DEF KeyInv, lockedUntil, expiresAt, Goto
    <2>2. CASE b = a
      BY <1>1, <1>2, <1>5, <2>1, <2>2 DEF ClaimFacts, fingerprint
    <2>3. CASE b # a
      <3>1. pc'[b] = pc[b]
        BY <1>1, <2>3 DEF OthersStay
      <3>2. CASE claim[b] # row.id
        BY <2>1, <3>2 DEF ClaimFacts, fingerprint
      <3>3. CASE claim[b] = row.id /\ claim[b] # 0
        <4>1. claim[a] # row.id
          BY <2>1, <2>3, <3>3 DEF ClaimFacts
        <4>2. OutlivesRecord(a)
          BY <1>6, <2>1, <4>1 DEF ClaimFacts, OutlivesRecord
        <4>3. keeper' = keeper /\ kept' = kept
          BY <1>2, <4>2
        <4>4. Free => Free'
          <5>1. least' \in Nat /\ (0 < least => 0 < least' /\ least' <= least)
            BY <1>1, EffectStays
          <5> QED BY <4>3, <5>1, StillFree DEF KeyInv, KeyTypeOK
        <4> QED BY <2>1, <3>1, <3>3, <4>3, <4>4 DEF ClaimFacts, fingerprint
      <3>4. CASE claim[b] = 0
        BY <2>1, <3>4 DEF ClaimFacts
      <3> QED BY <3>2, <3>3, <3>4
    <2> QED BY <2>2, <2>3
  <1>8. RowFacts'
    <2>1. CASE keeper' = keeper /\ kept' = kept
      <3>1. Free => Free'
        <4>1. least' \in Nat /\ (0 < least => 0 < least' /\ least' <= least)
          BY <1>1, EffectStays
        <4> QED BY <2>1, <4>1, StillFree DEF KeyInv, KeyTypeOK
      <3>2. least \in Nat /\ least' \in Nat /\ row.expires \in Nat
            /\ (0 < least => 0 < least' /\ least' <= least)
        BY <1>1, EffectStays, RowTypes DEF KeyInv, KeyTypeOK
      <3> QED BY <1>2, <2>1, <3>1, <3>2 DEF KeyInv, RowFacts, fingerprint, expiresAt
    <2>2. CASE keeper' = a /\ ~OutlivesRecord(a) /\ p
      <3>1. claim[a] = row.id /\ ClaimFacts(a)
        BY <1>6, <2>2 DEF KeyInv, ClaimFacts, OutlivesRecord
      <3>2. row.status = "processing" /\ row.expires = expiresAt(a)
        BY <1>6, <3>1 DEF ClaimFacts
      <3> QED BY <2>2, <3>2 DEF KeyInv, RowFacts, fingerprint, expiresAt
    <2> QED BY <1>2, <2>1, <2>2
  <1> QED BY <1>3, <1>4, <1>7, <1>8 DEF KeyInv

LEMMA KeyInvStep == KeyInv /\ [KeyNext]_allKeyVars => KeyInv'
  <1> SUFFICES ASSUME KeyInv, [KeyNext]_allKeyVars PROVE KeyInv'
    OBVIOUS
  <1>1. KeyTypeOK'
    BY StepTypes DEF KeyInv
  <1>2. CASE \E a \in Attempts : Attempt(a) /\ clock' = clock
    <2>1. PICK a \in Attempts : Attempt(a) /\ clock' = clock
      BY <1>2
    <2>2. CASE AbortAtomic(a)
      BY <1>1, <2>1, <2>2, GotoStep DEF AbortAtomic
    <2>3. CASE GiveUp(a)
      BY <1>1, <2>1, <2>3, FinishStep DEF GiveUp, Results
    <2>4. CASE Perform(a)
      BY <1>1, <2>1, <2>4, PerformStep DEF Perform
    <2>5. CASE PerformFails(a)
      BY <1>1, <2>1, <2>5, PerformStep, GotoStep DEF PerformFails
    <2> QED BY <1>1, <2>1, <2>2, <2>3, <2>4, <2>5, BeginStep, CreateStep, GetStep,
               ReclaimStep, CommitStep, MarkStep
            DEF Attempt, Proceed
  <1>3. CASE DeleteExpired /\ clock' = clock
    BY <1>1, <1>3, SweepStep
  <1>4. CASE Tick /\ UNCHANGED keyVars
    BY <1>1, <1>4, TickStep
  <1>5. CASE UNCHANGED allKeyVars
    <2>1. /\ clock' >= clock /\ row' = row /\ unchangedEffect
          /\ UNCHANGED <<clock, atomic, pc, now, seen, claim, told>>
      BY <1>5 DEF allKeyVars, unchangedEffect, KeyInv, KeyTypeOK
    <2>2. RowFacts' /\ \A b \in Attempts : ClaimFacts(b)'
      BY <2>1 DEF KeyInv, RowFacts, ClaimFacts, Free, Promise!PromiseOver, Promise!MetAtExpiry,
                  expiresAt, lockedUntil, fingerprint, unchangedEffect
    <2> QED BY <1>1, <2>1, <2>2, NobodyMoves
  <1> QED BY <1>2, <1>3, <1>4, <1>5 DEF KeyNext

LEMMA KeyInvInit == clock = 0 /\ KeyInit => KeyInv
  <1> SUFFICES ASSUME clock = 0, KeyInit PROVE KeyInv
    OBVIOUS
  <1>1. KeyTypeOK /\ keeper = NoAttempt /\ row = NoRow /\ row.response = NoAttempt
    BY InitTypes DEF KeyInit, NoRow, Absent
  <1>2. Free
    BY <1>1 DEF Free, Promise!PromiseOver
  <1>3. RowFacts
    BY <1>1, <1>2, NoRowType DEF RowFacts
  <1> QED BY <1>1, <1>2, <1>3, KeyAssumption
          DEF KeyInit, KeyInv, StageFacts, SeenFacts, ClaimFacts, Owner

LEMMA KeyInvariance == KeySpec => []KeyInv
  BY KeyInvInit, KeyInvStep, PTL DEF KeySpec

-------------------------------------------------------------------------------
(* 3. What the invariant implies. *)

\* A result is replayed only to a request with the payload of the attempt it came
\* from, whatever was reclaimed, swept or inserted again since.
THEOREM ReplayedToSame == KeySpec => []ReplaySameRequest
  <1>1. KeyInv => ReplaySameRequest
    BY DEF KeyInv, StageFacts, ReplaySameRequest
  <1> QED BY <1>1, KeyInvariance, PTL

\* A record in process is not taken from its owner before its lock runs out.
THEOREM ClaimsHonoured == KeySpec => ClaimIsHonoured
  <1> DEFINE Honoured ==
        row.status = "processing" /\ clock < row.lock /\ clock < row.expires
        => \/ row' = row
           \/ \E a \in Attempts :
                /\ Owner(a) /\ pc'[a] \in {"done", "markFailed"}
                /\ claim[a] = row.id /\ lockedUntil(a) = row.lock
  <1>1. KeyInv /\ [KeyNext]_allKeyVars => [Honoured]_allKeyVars
    <2> SUFFICES ASSUME KeyInv, KeyNext, row.status = "processing", clock < row.lock,
                        clock < row.expires, row' # row
                 PROVE  \E a \in Attempts :
                          /\ Owner(a) /\ pc'[a] \in {"done", "markFailed"}
                          /\ claim[a] = row.id /\ lockedUntil(a) = row.lock
      OBVIOUS
    <2>1. /\ row.lock \in Int /\ row.expires \in Nat /\ clock \in Nat
          /\ \A a \in Attempts : now[a] \in Nat /\ now[a] <= clock
      BY DEF KeyInv, KeyTypeOK, KeyRows, Rows, Locks, NoLock
    <2>2. ~DeleteExpired
      BY <2>1 DEF DeleteExpired, Sweepable
    <2>3. PICK a \in Attempts : Attempt(a)
      BY <2>2 DEF KeyNext, keyVars
    <2>4. ~CreateProcessing(a) /\ ~TryReclaim(a)
      BY <2>1 DEF CreateProcessing, Exists, TryReclaim, ReclaimableOwned, Reclaimable
    <2>5. \/ CommitAtomic(a)
          \/ MarkSucceeded(a) /\ InProcess(row, claim[a])
          \/ MarkFailed(a) /\ OwnsToFail(a)
      BY <2>3, <2>4 DEF Attempt, Proceed, Begin, GetExisting, GetLatest, AbortAtomic, Perform,
                        PerformFails, MarkSucceeded, MarkFailed, GiveUp
    <2>6. pc'[a] \in {"done", "markFailed"} /\ Owner(a)
      BY <2>5, Moves DEF CommitAtomic, MarkSucceeded, MarkFailed, Owner, KeyInv, Results
    <2>7. claim[a] = row.id
      BY <2>5 DEF CommitAtomic, MarkSucceeded, MarkFailed, OwnsToFail, InProcess, InProcessOwned
    <2>8. lockedUntil(a) = row.lock
      <3>1. CASE atomic
        BY <2>5, <3>1 DEF CommitAtomic, InProcessOwned, OwnsToFail, KeyInv, StageFacts,
                          MarkSucceeded
      <3>2. CASE ~atomic
        BY <2>6, <2>7, <3>2 DEF KeyInv, StageFacts, ClaimFacts
      <3> QED BY <3>1, <3>2
    <2> QED BY <2>6, <2>7, <2>8
  <1> QED BY <1>1, KeyInvariance, PTL DEF KeySpec, ClaimIsHonoured

-------------------------------------------------------------------------------
\* A step that only may tell a result is a step of the promise.
LEMMA TellOrNothing ==
    ASSUME KeyInv, NEW a \in Attempts, NEW x \in Results, pc[a] # "done",
           told' = [told EXCEPT ![a] = x],
           x # NoAttempt => x \in effects /\ (atomic => x = latest),
           UNCHANGED <<clock, atomic, now>>, unchangedEffect
    PROVE  [Promise!OnceNext]_(Promise!onceVars)
  <1>1. told[a] = NoAttempt /\ told \in [Attempts -> Results]
    BY DEF KeyInv, StageFacts, KeyTypeOK
  <1>2. CASE x = NoAttempt
    <2>1. told' = told
      BY <1>1, <1>2
    <2> QED BY <2>1 DEF Promise!onceVars, unchangedEffect
  <1>3. CASE x # NoAttempt
    <2>1. Promise!Tell(a)
      BY <1>1, <1>3 DEF Promise!Tell, unchangedEffect
    <2> QED BY <2>1 DEF Promise!OnceNext
  <1> QED BY <1>2, <1>3

LEMMA EffectPromised ==
    ASSUME KeyInv, NEW a \in Attempts, NEW p \in BOOLEAN, TakeEffect(a, p), a \notin effects,
           UNCHANGED <<clock, atomic, now>>, p \/ ~atomic,
           told' = told \/ (atomic /\ told' = [told EXCEPT ![a] = a]),
           OutlivesRecord(a) \/ Free
    PROVE  Promise!OnceNext
  <1>1. CASE OutlivesRecord(a)
    <2>1. Promise!TakeEffectLate(a)
      BY <1>1 DEF TakeEffect, OutlivesRecord, Promise!TakeEffectLate, Promise!Earliest,
                  Earliest, expiresAt
    <2> QED BY <2>1 DEF Promise!OnceNext
  <1>2. CASE ~OutlivesRecord(a)
    <2>1. Promise!TakeEffect(a)
      BY <1>2 DEF TakeEffect, Promise!TakeEffect, Promise!Earliest, Earliest, expiresAt, Free
    <2> QED BY <2>1 DEF Promise!OnceNext
  <1> QED BY <1>1, <1>2

LEMMA StepIsPromised ==
    ASSUME KeyInv, [KeyNext]_allKeyVars
    PROVE  [Promise!OnceNext]_(Promise!onceVars)
  <1>1. CASE \E a \in Attempts : Attempt(a) /\ clock' = clock
    <2>1. PICK a \in Attempts : Attempt(a) /\ clock' = clock
      BY <1>1
    <2>2. NoAttempt \in Results /\ row.response \in Results /\ a \in Results /\ StageFacts(a)
          /\ ClaimFacts(a) /\ RowFacts
      BY RowTypes DEF KeyInv, Results
    <2>3. CASE Begin(a)
      <3>1. Promise!Begin(a)
        BY <2>1, <2>2, <2>3 DEF Begin, StageFacts, unchangedEffect, Promise!Begin
      <3> QED BY <3>1 DEF Promise!OnceNext
    <2>4. CASE told' = told /\ UNCHANGED <<atomic, now>> /\ unchangedEffect
      BY <2>1, <2>4 DEF Promise!onceVars, unchangedEffect
    <2>5. CASE /\ Finish(a, NoAttempt) /\ pc[a] # "done"
               /\ UNCHANGED <<atomic, now>> /\ unchangedEffect
      BY <2>1, <2>2, <2>5, TellOrNothing DEF Finish
    <2>6. CASE /\ Finish(a, row.response) /\ pc[a] # "done" /\ row.status = "succeeded"
               /\ UNCHANGED <<atomic, now>> /\ unchangedEffect
      BY <2>1, <2>2, <2>6, TellOrNothing DEF Finish, RowFacts
    <2>7. CASE MarkSucceeded(a) /\ Finish(a, a)
      BY <2>1, <2>2, <2>7, TellOrNothing DEF MarkSucceeded, Finish, StageFacts
    <2>8. CASE CommitAtomic(a)
      <3>1. Free /\ a \notin effects
        BY <2>2, <2>8 DEF CommitAtomic, InProcessOwned, InProcess, RowFacts, StageFacts
      <3>2. told' = told \/ told' = [told EXCEPT ![a] = a]
        BY <2>8 DEF CommitAtomic, Finish
      <3> QED BY <2>1, <2>8, <3>1, <3>2, EffectPromised DEF CommitAtomic
    <2>9. CASE (Perform(a) \/ PerformFails(a)) /\ ~unchangedEffect
      <3>1. PICK p \in BOOLEAN : TakeEffect(a, p)
        BY <2>9 DEF Perform, PerformFails
      <3>2. /\ ~atomic /\ pc[a] = "execute" /\ UNCHANGED <<atomic, now, told>>
            /\ a \notin effects
        BY <2>2, <2>9 DEF Perform, PerformFails, StageFacts
      <3>3. OutlivesRecord(a) \/ Free
        BY <2>2, <3>2 DEF OutlivesRecord, ClaimFacts, StageFacts, Owner
      <3> QED BY <2>1, <3>1, <3>2, <3>3, EffectPromised
    <2> QED BY <2>1, <2>3, <2>4, <2>5, <2>6, <2>7, <2>8, <2>9
            DEF Attempt, Proceed, CreateProcessing, GetExisting, Settle, TryReclaim, GetLatest,
                AbortAtomic, Perform, PerformFails, MarkSucceeded, MarkFailed, GiveUp
  <1>2. CASE DeleteExpired /\ clock' = clock
    BY <1>2 DEF DeleteExpired, Promise!onceVars
  <1>3. CASE Tick /\ UNCHANGED keyVars
    <2>1. Promise!Pass
      BY <1>3 DEF Tick, keyVars, Promise!Pass
    <2> QED BY <2>1 DEF Promise!OnceNext
  <1>4. CASE UNCHANGED allKeyVars
    BY <1>4 DEF allKeyVars, Promise!onceVars
  <1> QED BY <1>1, <1>2, <1>3, <1>4 DEF KeyNext

\* The coordinator implements OncePerKey.
THEOREM KeyPromised == KeySpec => KeepsOncePerKey
  <1>1. clock = 0 /\ KeyInit => Promise!OnceInit
    BY DEF KeyInit, Promise!OnceInit
  <1>2. KeyInv /\ [KeyNext]_allKeyVars => [Promise!OnceNext]_(Promise!onceVars)
    BY StepIsPromised
  <1> QED BY <1>1, <1>2, KeyInvariance, PTL DEF KeySpec, KeepsOncePerKey, Promise!OnceSpec

-------------------------------------------------------------------------------
(* B and C. The operation lock, and the table. *)

(* 1. Types. *)

LEMMA Times ==
    ASSUME LockTypeOK
    PROVE  /\ lease \in Nat /\ ttl \in Nat /\ lease <= ttl /\ lease > clock
           /\ clock \in Nat /\ RenewInterval \in Nat /\ RenewInterval > 0
           /\ ProcessingTimeout \in Nat /\ MaxErrors \in Nat
  BY TimesAssumption, LockAssumption DEF LockTypeOK, lease, ttl

LEMMA LockRowTypes ==
    ASSUME NEW r \in LockRows
    PROVE  /\ r.id \in Nat /\ r.lock \in Int /\ r.expires \in Nat
           /\ r.status \in Statuses \cup {"none"}
           /\ r.fingerprint \in Operations \cup {NoOperation}
  BY DEF LockRows, Rows, Locks, NoLock

LEMMA NoLockRowType ==
    /\ NoLockRow \in LockRows /\ NoLockRow.id = 0 /\ NoLockRow.status = "none"
    /\ NoLockRow.fingerprint = NoOperation /\ NoLockRow.lock <= NoLockRow.expires
  BY DEF NoLockRow, Absent, LockRows, Rows, Locks, NoLock

\* The rows that an operation writes.
LEMMA CreatedLock ==
    ASSUME NEW i \in Nat, NEW o \in Operations, NEW l \in Nat, NEW e \in Nat
    PROVE  /\ Created(i, o, l, e, "none") \in LockRows
           /\ Created(i, o, l, e, "none").id = i
           /\ Created(i, o, l, e, "none").status = "processing"
           /\ Created(i, o, l, e, "none").fingerprint = o
           /\ Created(i, o, l, e, "none").lock = l
           /\ Created(i, o, l, e, "none").expires = e
  BY DEF Created, LockRows, Rows, Locks, Statuses

LEMMA ReclaimedLock ==
    ASSUME NEW r \in LockRows, NEW l \in Nat, NEW e \in Nat
    PROVE  /\ Reclaimed(r, l, e) \in LockRows
           /\ Reclaimed(r, l, e).id = r.id
           /\ Reclaimed(r, l, e).status = "processing"
           /\ Reclaimed(r, l, e).fingerprint = r.fingerprint
           /\ Reclaimed(r, l, e).lock = l
           /\ Reclaimed(r, l, e).expires = e
  BY DEF Reclaimed, LockRows, Rows, Locks, Statuses

LEMMA ExtendedLock ==
    ASSUME NEW r \in LockRows, NEW l \in Nat, NEW e \in Nat
    PROVE  /\ Extended(r, l, e) \in LockRows
           /\ Extended(r, l, e).id = r.id
           /\ Extended(r, l, e).status = r.status
           /\ Extended(r, l, e).fingerprint = r.fingerprint
           /\ Extended(r, l, e).lock = l
           /\ Extended(r, l, e).expires = e
  BY DEF Extended, LockRows, Rows, Locks

ReleasedAs(r, s) ==
    /\ s \in LockRows /\ s.id = r.id /\ s.fingerprint = r.fingerprint
    /\ s.lock <= s.expires /\ s.status # "none"

LEMMA SucceededLock ==
    ASSUME NEW r \in LockRows, NEW e \in Nat
    PROVE  ReleasedAs(r, Succeeded(r, "result", e))
  <1> DEFINE s == Succeeded(r, "result", e)
  <1>1. s \in LockRows
    BY DEF Succeeded, LockRows, Rows, Locks, NoLock, Statuses
  <1>2. s.id = r.id /\ s.fingerprint = r.fingerprint /\ s.status = "succeeded"
    BY DEF Succeeded, LockRows, Rows
  <1>3. s.lock <= s.expires
    BY DEF Succeeded, LockRows, Rows, NoLock
  <1> QED BY <1>1, <1>2, <1>3 DEF ReleasedAs

LEMMA FailedLock ==
    ASSUME NEW r \in LockRows, NEW l \in Nat, NEW e \in Nat, l <= e
    PROVE  ReleasedAs(r, FailedRetryable(r, l, e))
  BY DEF ReleasedAs, FailedRetryable, LockRows, Rows, Locks, Statuses

LEMMA LockInitTypes == clock = 0 /\ LockInit => LockTypeOK
  BY NoLockRowType, LockAssumption DEF LockInit, LockTypeOK

LEMMA LockStepTypes == LockTypeOK /\ [LockNext]_allLockVars => LockTypeOK'
  <1> SUFFICES ASSUME LockTypeOK, [LockNext]_allLockVars PROVE LockTypeOK'
    OBVIOUS
  <1>0. /\ lockRow \in LockRows /\ lockRow.id \in Nat /\ lockRow.id <= lastLockId
        /\ lastLockId \in Nat /\ clock \in Nat /\ lastLockId + 1 \in Nat
        /\ lease \in Nat /\ ttl \in Nat /\ clock <= ttl
    BY LockRowTypes, Times DEF LockTypeOK
  <1>1. ASSUME NEW o \in Operations, AcquireNew(o), clock' = clock PROVE LockTypeOK'
    <2>1. CASE Exists(lockRow)
      BY <1>1, <2>1 DEF LockTypeOK, AcquireNew, Enter
    <2>2. CASE ~Exists(lockRow)
      <3>1. lockRow' = Created(lastLockId + 1, o, lease, ttl, "none") /\ lastLockId' = lastLockId + 1
            /\ Start(o, lastLockId + 1) /\ existing' = existing
        BY <1>1, <2>2 DEF AcquireNew
      <3>2. lockRow' \in LockRows /\ lockRow'.id = lastLockId'
        BY <1>0, <3>1, CreatedLock
      <3> QED BY <1>0, <1>1, <3>1, <3>2 DEF LockTypeOK, Start, Enter
    <2> QED BY <2>1, <2>2
  <1>2. ASSUME NEW o \in Operations, AcquireGet(o), clock' = clock PROVE LockTypeOK'
    BY <1>2 DEF LockTypeOK, AcquireGet, Enter
  <1>3. ASSUME NEW o \in Operations, AcquireReclaim(o), clock' = clock PROVE LockTypeOK'
    <2>1. CASE /\ lockRow' = Reclaimed(lockRow, lease, ttl) /\ Start(o, lockRow.id)
               /\ UNCHANGED <<lastLockId, existing>>
      <3>1. lockRow \in LockRows /\ lease \in Nat /\ ttl \in Nat
        BY <1>0
      <3>2. Reclaimed(lockRow, lease, ttl) \in LockRows
            /\ Reclaimed(lockRow, lease, ttl).id = lockRow.id
        BY <3>1, ReclaimedLock
      <3>3. lockRow' \in LockRows /\ lockRow'.id = lockRow.id
        BY <2>1, <3>2
      <3> QED BY <1>0, <1>3, <2>1, <3>3 DEF LockTypeOK, Start, Enter
    <2>2. CASE /\ Enter(o, "over")
               /\ UNCHANGED <<lockRow, lastLockId, recordID, existing, renewed, missed, renewing>>
      BY <1>3, <2>2 DEF LockTypeOK, Enter
    <2> QED BY <1>3, <2>1, <2>2 DEF AcquireReclaim
  <1>4. ASSUME NEW o \in Operations, Renew(o), clock' = clock PROVE LockTypeOK'
    <2>1. lockRow' \in LockRows /\ lockRow'.id = lockRow.id
      <3>1. lockRow' = lockRow \/ lockRow' = Extended(lockRow, lease, ttl)
        BY <1>4 DEF Renew
      <3>2. CASE lockRow' = Extended(lockRow, lease, ttl)
        <4>1. lockRow \in LockRows /\ lease \in Nat /\ ttl \in Nat
          BY <1>0
        <4>2. Extended(lockRow, lease, ttl) \in LockRows
              /\ Extended(lockRow, lease, ttl).id = lockRow.id
          BY <4>1, ExtendedLock
        <4> QED BY <3>2, <4>2
      <3> QED BY <1>0, <3>1, <3>2
    <2>2. missed' \in [Operations -> 0..MaxErrors]
      BY <1>4, LockAssumption DEF Renew, LockTypeOK
    <2>3. renewed' \in [Operations -> Nat] /\ \A p \in Operations : renewed'[p] <= clock
      BY <1>0, <1>4 DEF Renew, LockTypeOK
    <2>4. UNCHANGED <<lastLockId, phase, recordID, existing>> /\ renewing' \subseteq Operations
      BY <1>4 DEF Renew, LockTypeOK
    <2> QED BY <1>0, <1>4, <2>1, <2>2, <2>3, <2>4 DEF LockTypeOK
  <1>5. ASSUME NEW o \in Operations, StopRenewing(o) \/ Die(o), clock' = clock PROVE LockTypeOK'
    BY <1>5 DEF LockTypeOK, StopRenewing, Die, Enter
  <1>6. ASSUME NEW o \in Operations, Release(o), clock' = clock PROVE LockTypeOK'
    <2>1. lockRow' \in LockRows /\ lockRow'.id = lockRow.id
      <3>1. \/ lockRow' = lockRow \/ lockRow' = Succeeded(lockRow, "result", ttl)
            \/ lockRow' = FailedRetryable(lockRow, clock, ttl)
        BY <1>6 DEF Release
      <3>2. CASE lockRow' = Succeeded(lockRow, "result", ttl)
        BY <1>0, <3>2, SucceededLock DEF ReleasedAs
      <3>3. CASE lockRow' = FailedRetryable(lockRow, clock, ttl)
        BY <1>0, <3>3, FailedLock DEF ReleasedAs
      <3> QED BY <1>0, <3>1, <3>2, <3>3
    <2> QED BY <1>0, <1>6, <2>1 DEF LockTypeOK, Release, Enter
  <1>7. ASSUME SweepLock, clock' = clock PROVE LockTypeOK'
    BY <1>0, <1>7, NoLockRowType DEF LockTypeOK, SweepLock
  <1>8. ASSUME LockTick, UNCHANGED lockVars PROVE LockTypeOK'
    BY <1>8 DEF LockTypeOK, LockTick, lockVars
  <1>9. ASSUME UNCHANGED allLockVars PROVE LockTypeOK'
    BY <1>9 DEF LockTypeOK, allLockVars
  <1> QED BY <1>1, <1>2, <1>3, <1>4, <1>5, <1>6, <1>7, <1>8, <1>9 DEF LockNext, Operate

\* The lock's row and what each operation holds of it are of the table's types.
THEOREM LockTypes == LockSpec => []LockTypeOK
  BY LockInitTypes, LockStepTypes, PTL DEF LockSpec

-------------------------------------------------------------------------------
(* 2. The lease of the operation that created the row.  Each defeated      *)
(* renewal costs one interval, and MaxErrors of them leave it running.      *)

RowShape ==
    /\ lockRow.id = 0 <=> lockRow.status = "none"
    /\ lockRow.status = "none" => lockRow.fingerprint = NoOperation
    /\ lockRow.lock <= lockRow.expires

\* An operation that has not got the lock yet has not created the row.
Waiting(o) ==
    phase[o] \in {"idle", "get", "reclaim"} =>
        lockRow.fingerprint # o /\ missed[o] = 0 /\ o \notin renewing

\* What it read before it reclaims is a row.
Seen(o) == phase[o] = "reclaim" => existing[o].id # 0

Punctual(o) == o \in renewing => clock <= renewed[o] + RenewInterval

Leased(o) ==
    Renewable(o) =>
        /\ recordID[o] = lockRow.id
        /\ lockRow.status = "processing"
        /\ lockRow.lock + missed[o] * RenewInterval >= renewed[o] + ProcessingTimeout
        /\ \A p \in Operations : p # o /\ Running(p) => recordID[p] # lockRow.id

LockInv ==
    /\ LockTypeOK
    /\ RowShape
    /\ \A o \in Operations : Waiting(o) /\ Seen(o) /\ Punctual(o) /\ Leased(o)

LEMMA Lapse ==
    ASSUME NEW m \in 0..MaxErrors
    PROVE  m * RenewInterval \in Nat /\ m * RenewInterval + RenewInterval < ProcessingTimeout
  <1>1. MaxErrors \in Nat /\ RenewInterval \in Nat /\ ProcessingTimeout \in Nat
        /\ RenewInterval * (MaxErrors + 1) < ProcessingTimeout
    BY LockAssumption, TimesAssumption
  <1>2. m * RenewInterval <= MaxErrors * RenewInterval /\ m * RenewInterval \in Nat
    BY <1>1
  <1>3. RenewInterval * (MaxErrors + 1) = MaxErrors * RenewInterval + RenewInterval
    BY <1>1
  <1> QED BY <1>1, <1>2, <1>3

\* While it renews on time, the lease of the row's creator has not run out.
LEMMA LeaseLasts ==
    ASSUME LockInv, NEW o \in Operations, Renewable(o)
    PROVE  clock < lockRow.lock /\ clock < lockRow.expires
  <1>1. /\ lockRow.lock + missed[o] * RenewInterval >= renewed[o] + ProcessingTimeout
        /\ clock <= renewed[o] + RenewInterval
    BY DEF LockInv, Leased, Punctual, Renewable
  <1>2. missed[o] * RenewInterval \in Nat
        /\ missed[o] * RenewInterval + RenewInterval < ProcessingTimeout
    BY Lapse DEF LockInv, LockTypeOK
  <1>3. lockRow.lock \in Int /\ lockRow.expires \in Nat /\ clock \in Nat /\ renewed[o] \in Nat
        /\ RenewInterval \in Nat /\ ProcessingTimeout \in Nat
    BY LockRowTypes, Times DEF LockInv, LockTypeOK
  <1>4. lockRow.lock <= lockRow.expires
    BY DEF LockInv, RowShape
  <1>5. clock < lockRow.lock
    BY <1>1, <1>2, <1>3
  <1> QED BY <1>3, <1>4, <1>5

\* Steps of operations that have no lock to lose.
LEMMA ElsewhereStep ==
    ASSUME LockInv, LockTypeOK', NEW o \in Operations, RowShape',
           UNCHANGED <<clock, recordID, renewed, missed>>,
           renewing' \subseteq renewing,
           lockRow'.fingerprint = lockRow.fingerprint, lockRow'.id = lockRow.id,
           lockRow' = lockRow \/ \A p \in Operations \ {o} : ~Renewable(p),
           \A p \in Operations \ {o} : phase'[p] = phase[p],
           \/ phase'[o] \in {"over", "releasing"} /\ (Running(o)' => Running(o))
           \/ phase[o] = "idle" /\ phase'[o] = "get"
           \/ phase[o] = "get" /\ phase'[o] = "reclaim",
           \A p \in Operations : Seen(p)'
    PROVE  LockInv'
  <1>1. \A p \in Operations : Waiting(p)' /\ Punctual(p)'
    BY DEF LockInv, Waiting, Punctual
  <1>2. ASSUME NEW p \in Operations, Renewable(p)' PROVE Leased(p)'
    <2>1. p # o /\ Renewable(p) /\ phase'[p] = phase[p]
      BY <1>2 DEF Renewable
    <2>2. lockRow' = lockRow
      BY <2>1
    <2>3. \A q \in Operations : Running(q)' => Running(q)
      BY DEF Running
    <2> QED BY <2>1, <2>2, <2>3 DEF LockInv, Leased, Running
  <1>3. \A p \in Operations : Leased(p)'
    BY <1>2 DEF Leased
  <1> QED BY <1>1, <1>3 DEF LockInv

LEMMA AcquireNewStep ==
    ASSUME LockInv, LockTypeOK', NEW o \in Operations, AcquireNew(o), clock' = clock
    PROVE  LockInv'
  <1>1. CASE Exists(lockRow)
    <2>1. /\ UNCHANGED <<lockRow, lastLockId, recordID, renewed, missed, renewing>>
          /\ phase[o] = "idle" /\ phase' = [phase EXCEPT ![o] = "get"]
      BY <1>1 DEF AcquireNew, Enter
    <2>2. phase'[o] = "get" /\ \A p \in Operations \ {o} : phase'[p] = phase[p]
      BY <2>1 DEF LockInv, LockTypeOK
    <2>3. \A p \in Operations : Seen(p)'
      BY <2>1, <2>2 DEF LockInv, Seen, AcquireNew
    <2> QED BY <2>1, <2>2, <2>3, ElsewhereStep DEF LockInv, RowShape
  <1>2. CASE ~Exists(lockRow)
    <2>1. /\ lockRow' = Created(lastLockId + 1, o, lease, ttl, "none") /\ phase[o] = "idle"
          /\ recordID' = [recordID EXCEPT ![o] = lastLockId + 1]
          /\ renewed' = [renewed EXCEPT ![o] = clock] /\ renewing' = renewing \cup {o}
          /\ missed' = missed /\ phase' = [phase EXCEPT ![o] = "running"]
      BY <1>2 DEF AcquireNew, Start, Enter
    <2>2. /\ lease = clock + ProcessingTimeout /\ lease \in Nat /\ ttl \in Nat /\ lease <= ttl
          /\ clock \in Nat /\ lastLockId \in Nat /\ lastLockId + 1 \in Nat
          /\ RenewInterval \in Nat
      BY Times DEF LockInv, LockTypeOK, lease
    <2>3. /\ lockRow'.id = lastLockId + 1 /\ lockRow'.status = "processing"
          /\ lockRow'.fingerprint = o /\ lockRow'.lock = lease /\ lockRow'.expires = ttl
      BY <2>1, <2>2, CreatedLock
    <2>4. missed[o] = 0
      BY <2>1 DEF LockInv, Waiting
    <2>5. RowShape'
      BY <2>2, <2>3 DEF RowShape
    <2>7. existing' = existing
      BY DEF AcquireNew
    <2>6. ASSUME NEW p \in Operations PROVE Waiting(p)' /\ Seen(p)' /\ Punctual(p)' /\ Leased(p)'
      <3>1. CASE p = o
        <4>1. Waiting(p)' /\ Punctual(p)'
          BY <2>1, <2>2, <3>1 DEF LockInv, LockTypeOK, Waiting, Punctual
        <4>3. Seen(p)'
          BY <2>1, <3>1 DEF LockInv, LockTypeOK, Seen
        <4>2. Leased(p)'
          <5>1. recordID'[o] = lastLockId + 1 /\ missed'[o] * RenewInterval = 0
                /\ renewed'[o] = clock
            BY <2>1, <2>2, <2>4 DEF LockInv, LockTypeOK
          <5>2. \A q \in Operations : q # o => recordID'[q] # lastLockId + 1
            BY <2>1, <2>2 DEF LockInv, LockTypeOK
          <5> QED BY <2>2, <2>3, <3>1, <5>1, <5>2 DEF Leased
        <4> QED BY <4>1, <4>2, <4>3
      <3>2. CASE p # o
        BY <2>1, <2>3, <2>7, <3>2 DEF LockInv, LockTypeOK, Waiting, Seen, Punctual, Leased, Renewable
      <3> QED BY <3>1, <3>2
    <2> QED BY <2>5, <2>6 DEF LockInv
  <1> QED BY <1>1, <1>2

LEMMA AcquireReclaimStep ==
    ASSUME LockInv, LockTypeOK', NEW o \in Operations, AcquireReclaim(o), clock' = clock
    PROVE  LockInv'
  <1>1. CASE Reclaimable(lockRow, existing[o].id, existing[o].status, clock)
    <2>1. /\ lockRow' = Reclaimed(lockRow, lease, ttl) /\ phase[o] = "reclaim"
          /\ recordID' = [recordID EXCEPT ![o] = lockRow.id]
          /\ renewed' = [renewed EXCEPT ![o] = clock] /\ renewing' = renewing \cup {o}
          /\ missed' = missed /\ phase' = [phase EXCEPT ![o] = "running"]
      BY <1>1 DEF AcquireReclaim, Start, Enter
    <2>2. lockRow \in LockRows /\ lease \in Nat /\ ttl \in Nat /\ lease <= ttl /\ clock \in Nat
          /\ lockRow.lock \in Int /\ lockRow.lock <= clock /\ RenewInterval \in Nat
      BY <1>1, Times, LockRowTypes DEF LockInv, LockTypeOK, Reclaimable
    <2>3. \A p \in Operations : ~Renewable(p)
      BY <2>2, LeaseLasts
    <2>4. /\ lockRow'.id = lockRow.id /\ lockRow'.status = "processing"
          /\ lockRow'.fingerprint = lockRow.fingerprint
          /\ lockRow'.lock = lease /\ lockRow'.expires = ttl
      <3>1. lockRow' = Reclaimed(lockRow, lease, ttl) /\ lockRow \in LockRows
            /\ lease \in Nat /\ ttl \in Nat
        BY <2>1, <2>2
      <3> QED BY ONLY <3>1, ReclaimedLock
    <2>5. RowShape'
      <3>1. lockRow.status # "none"
        <4>1. existing[o].id # 0 /\ existing[o].id = lockRow.id
          BY <1>1 DEF LockInv, AcquireReclaim, Reclaimable, Seen
        <4> QED BY <4>1 DEF LockInv, RowShape
      <3> QED BY <2>2, <2>4, <3>1 DEF LockInv, RowShape
    <2>6. ASSUME NEW p \in Operations PROVE Waiting(p)' /\ Seen(p)' /\ Punctual(p)' /\ Leased(p)'
      <3>1. Waiting(p)' /\ Punctual(p)'
        BY <2>1, <2>2, <2>4 DEF LockInv, LockTypeOK, Waiting, Punctual
      <3>2. ~Renewable(p)'
        BY <2>1, <2>3, <2>4 DEF LockInv, LockTypeOK, Waiting, Renewable
      <3>3. Seen(p)'
        BY <2>1 DEF LockInv, LockTypeOK, Seen, AcquireReclaim
      <3> QED BY <3>1, <3>2, <3>3 DEF Leased
    <2> QED BY <2>5, <2>6 DEF LockInv
  <1>2. CASE ~Reclaimable(lockRow, existing[o].id, existing[o].status, clock)
    <2>1. /\ UNCHANGED <<lockRow, recordID, renewed, missed, renewing>>
          /\ phase' = [phase EXCEPT ![o] = "over"]
      BY <1>2 DEF AcquireReclaim, Enter
    <2>2. phase'[o] = "over" /\ \A p \in Operations \ {o} : phase'[p] = phase[p]
      BY <2>1 DEF LockInv, LockTypeOK
    <2>3. \A p \in Operations : Seen(p)'
      BY <2>1, <2>2 DEF LockInv, Seen, AcquireReclaim
    <2> QED BY <2>1, <2>2, <2>3, ElsewhereStep DEF LockInv, RowShape, Running
  <1> QED BY <1>1, <1>2

LEMMA AcquireGetStep ==
    ASSUME LockInv, LockTypeOK', NEW o \in Operations, AcquireGet(o), clock' = clock
    PROVE  LockInv'
  <1>1. /\ UNCHANGED <<lockRow, recordID, renewed, missed, renewing>>
        /\ phase[o] = "get" /\ existing'[o] = lockRow
        /\ phase'[o] = "over" \/ (phase'[o] = "reclaim" /\ Exists(lockRow))
        /\ \A p \in Operations \ {o} : phase'[p] = phase[p] /\ existing'[p] = existing[p]
    BY DEF AcquireGet, Enter, LockInv, LockTypeOK
  <1>2. \A p \in Operations : Seen(p)'
    BY <1>1 DEF LockInv, Seen, RowShape, Exists
  <1> QED BY <1>1, <1>2, ElsewhereStep DEF LockInv, RowShape, Running

LEMMA RenewStep ==
    ASSUME LockInv, LockTypeOK', NEW o \in Operations, Renew(o), clock' = clock
    PROVE  LockInv'
  <1>1. /\ o \in renewing /\ clock >= renewed[o] + RenewInterval
        /\ UNCHANGED <<phase, recordID, existing>>
    BY DEF Renew
  <1>2. /\ lockRow \in LockRows /\ lease \in Nat /\ ttl \in Nat /\ lease <= ttl
        /\ clock \in Nat /\ lease = clock + ProcessingTimeout /\ RenewInterval \in Nat
        /\ ProcessingTimeout \in Nat /\ renewed[o] \in Nat /\ missed[o] \in 0..MaxErrors
        /\ lockRow.lock \in Int
    BY Times, LockRowTypes DEF LockInv, LockTypeOK, lease
  <1>3. clock = renewed[o] + RenewInterval
    BY <1>1, <1>2 DEF LockInv, Punctual
  <1>4. CASE /\ Extendable(lockRow, recordID[o], o)
             /\ lockRow' = Extended(lockRow, lease, ttl)
             /\ renewed' = [renewed EXCEPT ![o] = clock]
             /\ missed' = [missed EXCEPT ![o] = 0]
             /\ renewing' \subseteq renewing
    <2>1. /\ lockRow'.id = lockRow.id /\ lockRow'.status = lockRow.status
          /\ lockRow'.fingerprint = lockRow.fingerprint
          /\ lockRow'.lock = lease /\ lockRow'.expires = ttl
      <3>1. lockRow' = Extended(lockRow, lease, ttl) /\ lockRow \in LockRows
            /\ lease \in Nat /\ ttl \in Nat
        BY <1>2, <1>4
      <3> QED BY ONLY <3>1, ExtendedLock
    <2>2. /\ lockRow.id = recordID[o] /\ lockRow.status = "processing"
          /\ lockRow.fingerprint = o
      BY <1>4 DEF Extendable
    <2>3. RowShape'
      BY <1>2, <2>1 DEF LockInv, RowShape
    <2>4. ASSUME NEW p \in Operations PROVE Waiting(p)' /\ Seen(p)' /\ Punctual(p)' /\ Leased(p)'
      <3>1. Waiting(p)' /\ Seen(p)'
        BY <1>1, <1>4, <2>1 DEF LockInv, LockTypeOK, Waiting, Seen
      <3>2. Punctual(p)'
        BY <1>1, <1>2, <1>4 DEF LockInv, LockTypeOK, Punctual
      <3>3. Leased(p)'
        <4>1. CASE p # o
          BY <2>1, <2>2, <4>1 DEF Leased, Renewable
        <4>2. CASE p = o
          <5>1. missed'[o] * RenewInterval = 0 /\ renewed'[o] = clock
            BY <1>2, <1>4 DEF LockInv, LockTypeOK
          <5>2. Renewable(o)' => Renewable(o)
            BY <1>1, <1>4, <2>1 DEF Renewable
          <5> QED BY <1>1, <1>2, <2>1, <2>2, <4>2, <5>1, <5>2
                  DEF LockInv, Leased, Running
        <4> QED BY <4>1, <4>2
      <3> QED BY <3>1, <3>2, <3>3
    <2> QED BY <2>3, <2>4 DEF LockInv
  <1>5. CASE /\ renewing' = renewing \ {o} /\ UNCHANGED <<lockRow, renewed, missed>>
    BY <1>1, <1>5 DEF LockInv, RowShape, Waiting, Seen, Punctual, Leased, Renewable, Running
  <1>6. CASE /\ missed[o] < MaxErrors
             /\ renewed' = [renewed EXCEPT ![o] = clock]
             /\ missed' = [missed EXCEPT ![o] = @ + 1]
             /\ renewing' \subseteq renewing /\ lockRow' = lockRow
    <2>1. RowShape'
      BY <1>6 DEF LockInv, RowShape
    <2>2. ASSUME NEW p \in Operations PROVE Waiting(p)' /\ Seen(p)' /\ Punctual(p)' /\ Leased(p)'
      <3>1. Waiting(p)' /\ Seen(p)'
        BY <1>1, <1>6 DEF LockInv, LockTypeOK, Waiting, Seen
      <3>2. Punctual(p)'
        BY <1>1, <1>2, <1>6 DEF LockInv, LockTypeOK, Punctual
      <3>3. Leased(p)'
        <4>1. Renewable(p)' => Renewable(p)
          BY <1>1, <1>6 DEF Renewable
        <4>2. CASE p # o
          BY <1>1, <1>6, <4>1, <4>2 DEF LockInv, LockTypeOK, Leased, Running
        <4>3. CASE p = o
          <5>1. /\ missed'[o] * RenewInterval = missed[o] * RenewInterval + RenewInterval
                /\ renewed'[o] = clock
            BY <1>2, <1>6 DEF LockInv, LockTypeOK
          <5>2. missed[o] * RenewInterval \in Nat
            BY <1>2, Lapse
          <5> QED BY <1>1, <1>2, <1>3, <1>6, <4>1, <4>3, <5>1, <5>2
                  DEF LockInv, Leased, Running
        <4> QED BY <4>2, <4>3
      <3> QED BY <3>1, <3>2, <3>3
    <2> QED BY <2>1, <2>2 DEF LockInv
  <1> QED BY <1>4, <1>5, <1>6 DEF Renew

LEMMA ReleaseStep ==
    ASSUME LockInv, LockTypeOK', NEW o \in Operations, StopRenewing(o) \/ Release(o) \/ Die(o),
           clock' = clock
    PROVE  LockInv'
  <1>1. /\ UNCHANGED <<recordID, existing, renewed, missed>> /\ renewing' \subseteq renewing
        /\ phase'[o] \in {"over", "releasing"}
        /\ \A p \in Operations \ {o} : phase'[p] = phase[p]
        /\ phase'[o] = "releasing" => phase[o] = "running"
    BY DEF StopRenewing, Release, Die, Enter, LockInv, LockTypeOK
  <1>2. \A p \in Operations : Seen(p)'
    BY <1>1 DEF LockInv, Seen
  <1>3. CASE lockRow' = lockRow
    BY <1>1, <1>2, <1>3, ElsewhereStep DEF LockInv, RowShape, Running
  <1>4. CASE /\ phase[o] = "releasing" /\ InProcess(lockRow, recordID[o])
             /\ \/ lockRow' = Succeeded(lockRow, "result", ttl)
                \/ lockRow' = FailedRetryable(lockRow, clock, ttl)
    <2>1. ReleasedAs(lockRow, lockRow')
      <3>1. lockRow \in LockRows /\ ttl \in Nat /\ clock \in Nat /\ clock <= ttl
        BY Times DEF LockInv, LockTypeOK
      <3>2. CASE lockRow' = Succeeded(lockRow, "result", ttl)
        BY ONLY <3>1, <3>2, SucceededLock
      <3>3. CASE lockRow' = FailedRetryable(lockRow, clock, ttl)
        BY ONLY <3>1, <3>3, FailedLock
      <3> QED BY <1>4, <3>2, <3>3
    <2>2. \A p \in Operations \ {o} : ~Renewable(p)
      BY <1>4 DEF LockInv, Leased, Running, InProcess
    <2>3. lockRow.id # 0
      BY <1>4 DEF InProcess, LockInv, RowShape
    <2>4. RowShape'
      BY <2>1, <2>3 DEF ReleasedAs, RowShape
    <2> QED BY <1>1, <1>2, <2>1, <2>2, <2>4, ElsewhereStep DEF ReleasedAs, Running
  <1> QED BY <1>3, <1>4 DEF StopRenewing, Release, Die

LEMMA LockInvStep == LockInv /\ [LockNext]_allLockVars => LockInv'
  <1> SUFFICES ASSUME LockInv, [LockNext]_allLockVars PROVE LockInv'
    OBVIOUS
  <1>1. LockTypeOK'
    BY LockStepTypes DEF LockInv
  <1>2. CASE \E o \in Operations : Operate(o) /\ clock' = clock
    BY <1>1, <1>2, AcquireNewStep, AcquireGetStep, AcquireReclaimStep, RenewStep, ReleaseStep
       DEF Operate
  <1>3. CASE SweepLock /\ clock' = clock
    <2>1. /\ lockRow' = NoLockRow /\ lockRow.expires <= clock
          /\ UNCHANGED <<phase, recordID, existing, renewed, missed, renewing>>
      BY <1>3 DEF SweepLock, Sweepable
    <2>2. \A p \in Operations : ~Renewable(p)
      <3>1. lockRow.expires \in Nat /\ clock \in Nat
        BY LockRowTypes, Times DEF LockInv, LockTypeOK
      <3> QED BY <2>1, <3>1, LeaseLasts
    <2>3. RowShape'
      BY <2>1, NoLockRowType DEF RowShape
    <2>4. ASSUME NEW p \in Operations PROVE Waiting(p)' /\ Seen(p)' /\ Punctual(p)' /\ Leased(p)'
      BY <1>3, <2>1, <2>2, NoLockRowType, LockAssumption
         DEF LockInv, Waiting, Seen, Punctual, Leased, Renewable
    <2> QED BY <1>1, <2>3, <2>4 DEF LockInv
  <1>4. CASE LockTick /\ UNCHANGED lockVars
    <2>1. /\ clock' = clock + 1 /\ \A o \in renewing : clock < renewed[o] + RenewInterval
          /\ UNCHANGED <<lockRow, phase, recordID, existing, renewed, missed, renewing>>
      BY <1>4 DEF LockTick, OnTime, lockVars
    <2>2. clock \in Nat /\ RenewInterval \in Nat /\ \A o \in Operations : renewed[o] \in Nat
      BY Times DEF LockInv, LockTypeOK
    <2> QED BY <1>1, <2>1, <2>2
            DEF LockInv, RowShape, Waiting, Seen, Punctual, Leased, Renewable, Running
  <1>5. CASE UNCHANGED allLockVars
    BY <1>1, <1>5 DEF allLockVars, LockInv, RowShape, Waiting, Seen, Punctual, Leased, Renewable,
                      Running
  <1> QED BY <1>2, <1>3, <1>4, <1>5 DEF LockNext

LEMMA LockInvInit == clock = 0 /\ LockInit => LockInv
  <1> SUFFICES ASSUME clock = 0, LockInit PROVE LockInv
    OBVIOUS
  <1>1. LockTypeOK
    BY LockInitTypes
  <1> QED BY <1>1, NoLockRowType, LockAssumption
          DEF LockInit, LockInv, RowShape, Waiting, Seen, Punctual, Leased, Renewable

LEMMA LockInvariance == LockSpec => []LockInv
  BY LockInvInit, LockInvStep, PTL DEF LockSpec

\* While the operation that inserted the row runs and renews it, nobody else begins
\* to run, as long as fewer renewals in a row fail than the lease has room for.
THEOREM RenewedLockIsHeld == LockSpec => RenewedLockHolds
  <1>1. LockInv /\ [LockNext]_allLockVars
        => [\A o \in Operations : Renewable(o) =>
              \A p \in Operations : ~Running(p) => ~Running(p)']_allLockVars
    <2> SUFFICES ASSUME LockInv, LockNext, NEW o \in Operations, Renewable(o),
                        NEW p \in Operations, ~Running(p)
                 PROVE  ~Running(p)'
      OBVIOUS
    <2>1. clock < lockRow.lock /\ clock < lockRow.expires /\ clock \in Nat
          /\ lockRow.lock \in Int /\ lockRow.fingerprint = o
      BY LeaseLasts, LockRowTypes, Times DEF LockInv, LockTypeOK, Renewable
    <2>2. Exists(lockRow)
      BY <2>1, LockAssumption DEF LockInv, RowShape, Exists
    <2>3. phase \in [Operations -> {"idle", "get", "reclaim", "running", "releasing", "over"}]
      BY DEF LockInv, LockTypeOK
    <2>4. ASSUME NEW q \in Operations, Operate(q) PROVE ~Running(p)'
      <3>1. ~Reclaimable(lockRow, existing[q].id, existing[q].status, clock)
        BY <2>1 DEF Reclaimable
      <3> QED BY <2>2, <2>3, <2>4, <3>1
              DEF Operate, AcquireNew, AcquireGet, AcquireReclaim, Renew, StopRenewing, Release,
                  Die, Enter, Running
    <2>5. CASE SweepLock \/ UNCHANGED lockVars
      BY <2>5 DEF SweepLock, lockVars, Running
    <2> QED BY <2>4, <2>5 DEF LockNext
  <1> QED BY <1>1, LockInvariance, PTL DEF LockSpec, RenewedLockHolds

-------------------------------------------------------------------------------
(* 3. The table. *)

LEMMA TableStepIsOfBoth ==
    ASSUME [TableNext]_tableVars
    PROVE  [KeyNext]_allKeyVars /\ [LockNext]_allLockVars
  <1>1. CASE \E a \in Attempts : AttemptStep(a)
    BY <1>1 DEF AttemptStep, KeyNext, lockVars, allLockVars
  <1>2. CASE \E o \in Operations : OperationStep(o)
    BY <1>2 DEF OperationStep, LockNext, keyVars, allKeyVars
  <1>3. CASE CleanupOnce
    BY <1>3 DEF CleanupOnce, KeyNext, LockNext, keyVars, lockVars, allKeyVars, allLockVars
  <1>4. CASE TimePasses
    BY <1>4 DEF TimePasses, Tick, LockTick, KeyNext, LockNext, keyVars, lockVars
  <1>5. CASE UNCHANGED tableVars
    BY <1>5 DEF tableVars, keyVars, lockVars, allKeyVars, allLockVars
  <1> QED BY <1>1, <1>2, <1>3, <1>4, <1>5 DEF TableNext

\* With one clock and one sweep for both rows, the key keeps its promise and the lock
\* its renewed lease.
THEOREM TableKeepsBoth ==
    TableSpec => KeepsOncePerKey /\ ClaimIsHonoured /\ RenewedLockHolds
  <1>1. TableInit => (clock = 0 /\ KeyInit) /\ (clock = 0 /\ LockInit)
    BY DEF TableInit
  <1>2. [TableNext]_tableVars => [KeyNext]_allKeyVars /\ [LockNext]_allLockVars
    BY TableStepIsOfBoth
  <1>3. TableSpec => KeySpec /\ LockSpec
    BY <1>1, <1>2, PTL DEF TableSpec, KeySpec, LockSpec
  <1> QED BY <1>3, KeyPromised, ClaimsHonoured, RenewedLockIsHeld, PTL

================================================================================
