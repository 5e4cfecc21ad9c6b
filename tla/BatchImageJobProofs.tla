-------------------------- MODULE BatchImageJobProofs --------------------------
(***************************************************************************)
(* Proofs about BatchImageJob, for any number of calls, workers, retries    *)
(* and faults: types (BatchTypes), that a hold is not given up while the    *)
(* provider works on a job nobody cancelled (RunsArePaid), that a finished  *)
(* job stays finished (FinishedStays), and that what is charged and what is *)
(* completed agree (ChargesMatch).                                          *)
(***************************************************************************)
EXTENDS BatchImageJob, TLAPS

(***************************************************************************)
(* The inductive invariant says what a process relies on when it uses what  *)
(* it read some steps ago.  Submit: before its job has a name, the provider *)
(* has it at most between ProviderSubmit and NameRun, and whoever gave the  *)
(* hold up meanwhile has finished the job, so that NameRun is refused.  The *)
(* run: a worker that has gone past it knows that it has succeeded.  A release: it is *)
(* only begun when the job has finished without a charge.                   *)
(***************************************************************************)
BeforeName == {"created", "reserved", "items", "provider", "name"}

SubmitShape ==
    /\ submit = "start" => job.status = "none" /\ hold = "none"
    /\ submit \notin {"enqueue", "end"} => ~job.named
    /\ submit \notin {"name", "abort", "enqueue", "end"} => run.state = "none"
    /\ hold = "released" /\ submit \in BeforeName => job.status \in Released

AfterRun == {"index", "indexed", "capture", "unsettled", "mark", "exhausted", "fail"}

RunShape ==
    /\ job.status \in {"indexing", "settling", "completed"} => run.state = "succeeded" /\ job.named
    /\ job.status = "failed" /\ job.named => run.state # "live"
    /\ \A w \in Workers : /\ worker[w] \in AfterRun => run.state = "succeeded"
                          /\ worker[w] \in AfterRun \cup {"poll"} => job.named

Releasing(r) ==
    request[r].at = "release" \/ (request[r].at = "cancel" /\ request[r].status \in Released)

ReleaseShape ==
    /\ sweep = "release" => job.status \in Released
    /\ \A r \in Requests : Releasing(r) => job.status \in Released
    /\ \A w \in Workers : worker[w] = "release" => job.status \in Released

BatchInv == BatchTypeOK /\ SubmitShape /\ RunShape /\ ReleaseShape /\ UnpaidRunIsCancelled

--------------------------------------------------------------------------------
(* 1. Types. *)

LEMMA UpdatedType ==
    ASSUME BatchTypeOK, NEW s \in JobStatus
    PROVE  /\ Updated(s) \in [status : JobStatus, named : BOOLEAN, old : BOOLEAN,
                              retries : 0..MaxRetries]
           /\ Updated(s).status = s /\ Updated(s).named = job.named
  BY DEF Updated, BatchTypeOK

LEMMA FaultTypes ==
    ASSUME BatchTypeOK,
           \/ NoFault \/ Fault
           \/ Troubles("queue") \/ Troubles("lapse") \/ Troubles("death")
    PROVE  faults' \in 0..MaxFaults /\ trouble' \subseteq {"queue", "lapse", "death"}
  <1>1. faults \in Nat /\ faults <= MaxFaults /\ MaxFaults \in Nat
    BY BatchAssumption DEF BatchTypeOK
  <1>2. CASE NoFault BY <1>2 DEF NoFault, BatchTypeOK
  <1>3. CASE ~NoFault
    <2>1. Counted
      BY <1>3 DEF Fault, Troubles
    <2>2. faults' \in 0..MaxFaults
      BY <1>1, <2>1 DEF Counted
    <2>3. trouble \subseteq {"queue", "lapse", "death"}
      BY DEF BatchTypeOK
    <2>4. trouble' \subseteq {"queue", "lapse", "death"}
      BY <1>3, <2>3 DEF Fault, Troubles
    <2> QED BY <2>2, <2>4
  <1> QED BY <1>2, <1>3

Queues == [ready : Nat, delayed : BOOLEAN, active : BOOLEAN, inflight : BOOLEAN]

LEMMA QueueUpdates ==
    ASSUME NEW q \in Queues, NEW n \in Nat, NEW b \in BOOLEAN
    PROVE  /\ [q EXCEPT !.ready = n, !.inflight = b] \in Queues
           /\ [q EXCEPT !.active = b, !.ready = n] \in Queues
           /\ [q EXCEPT !.ready = n, !.active = b] \in Queues
           /\ [q EXCEPT !.delayed = b, !.ready = n] \in Queues
           /\ q.ready \in Nat
  BY DEF Queues

LEMMA QueueType ==
    ASSUME BatchTypeOK
    PROVE  /\ queue \in Queues /\ queue.ready + 1 \in Nat
           /\ queue.ready > 0 => queue.ready - 1 \in Nat
  <1>1. queue \in Queues
    BY DEF BatchTypeOK, Queues
  <1>2. queue.ready \in Nat
    BY <1>1, QueueUpdates
  <1>3. queue.ready + 1 \in Nat /\ (queue.ready > 0 => queue.ready - 1 \in Nat)
    BY <1>2
  <1> QED BY <1>1, <1>3

LEMMA QueueTypes ==
    ASSUME BatchTypeOK, EnqueueOrLose
    PROVE  /\ queue' \in [ready : Nat, delayed : BOOLEAN, active : BOOLEAN, inflight : BOOLEAN]
           /\ faults' \in 0..MaxFaults /\ trouble' \subseteq {"queue", "lapse", "death"}
  <1>1. CASE Enqueue
    <2>1. queue \in Queues /\ queue.ready + 1 \in Nat
      BY QueueType
    <2>2. [queue EXCEPT !.ready = @ + 1, !.inflight = TRUE] \in Queues
      BY <2>1, QueueUpdates
    <2>3. queue' \in Queues
      BY <1>1, <2>1, <2>2 DEF Enqueue
    <2> QED BY <1>1, <2>3, FaultTypes DEF Enqueue, Queues
  <1>2. CASE UNCHANGED queue /\ Troubles("queue")
    BY <1>2, FaultTypes DEF BatchTypeOK
  <1> QED BY <1>1, <1>2 DEF EnqueueOrLose

LEMMA HoldTypes ==
    ASSUME BatchTypeOK, Release \/ ReleaseFails
    PROVE  /\ hold' \in {"none", "reserved", "captured", "released"}
           /\ faults' \in 0..MaxFaults /\ trouble' \subseteq {"queue", "lapse", "death"}
  BY FaultTypes DEF BatchTypeOK, Release, ReleaseFails

LEMMA StatusTypes ==
    /\ Released \subseteq Finished /\ Finished \subseteq JobStatus /\ Unsubmitted \subseteq JobStatus
    /\ {"none", "submitted", "running", "indexing", "settling", "created", "uploading",
        "failed", "cancelled", "completed"} = JobStatus
  BY DEF JobStatus, Released, Finished, Unsubmitted

LEMMA SubmitTypes ==
    ASSUME BatchTypeOK, CreateJob \/ SubmitStep \/ Heartbeat \/ SubmitDies
    PROVE  BatchTypeOK'
  <1> USE StatusTypes, FaultTypes DEF BatchTypeOK, OthersOfSubmit, SubmitAt
  <1>1. CASE CreateJob BY <1>1, UpdatedType DEF CreateJob
  <1>2. CASE ReserveHold BY <1>2 DEF ReserveHold
  <1>3. CASE CreateItems BY <1>3 DEF CreateItems
  <1>4. CASE BeginUpload BY <1>4, UpdatedType DEF BeginUpload, Move, CannotMove
  <1>5. CASE ProviderSubmit BY <1>5 DEF ProviderSubmit
  <1>6. CASE NameRun
    <2>1. job' \in [status : JobStatus, named : BOOLEAN, old : BOOLEAN, retries : 0..MaxRetries]
      <3>1. ASSUME NEW j \in [status : JobStatus, named : BOOLEAN, old : BOOLEAN,
                              retries : 0..MaxRetries]
            PROVE  [j EXCEPT !.named = TRUE] \in [status : JobStatus, named : BOOLEAN,
                                                  old : BOOLEAN, retries : 0..MaxRetries]
        OBVIOUS
      <3> QED BY <1>6, <3>1, UpdatedType DEF NameRun, CannotMove
    <2> QED BY <1>6, <2>1 DEF NameRun
  <1>7. CASE AbortRun
    <2>1. run' \in [state : {"none", "live", "succeeded"} \cup Released, asked : BOOLEAN]
      <3>1. [run EXCEPT !.asked = TRUE] \in [state : {"none", "live", "succeeded"} \cup Released,
                                            asked : BOOLEAN]
        OBVIOUS
      <3> QED BY <1>7, <3>1 DEF AbortRun
    <2>2. submit' \in SubmitAt /\ faults' \in 0..MaxFaults
          /\ trouble' \subseteq {"queue", "lapse", "death"}
      BY <1>7 DEF AbortRun
    <2> QED BY <1>7, <2>1, <2>2 DEF AbortRun
  <1>8. CASE EnqueueJob BY <1>8, QueueTypes DEF EnqueueJob
  <1>9. CASE ReleaseFailedSubmit BY <1>9, HoldTypes DEF ReleaseFailedSubmit
  <1>10. CASE RecordFailure BY <1>10, UpdatedType DEF RecordFailure
  <1>11. CASE Heartbeat
    <2>1. [job EXCEPT !.old = FALSE] \in [status : JobStatus, named : BOOLEAN, old : BOOLEAN,
                                          retries : 0..MaxRetries]
      OBVIOUS
    <2> QED BY <1>11, <2>1 DEF Heartbeat
  <1>12. CASE SubmitDies BY <1>12 DEF SubmitDies, Abandoned
  <1> QED BY <1>1, <1>2, <1>3, <1>4, <1>5, <1>6, <1>7, <1>8, <1>9, <1>10, <1>11, <1>12
          DEF SubmitStep

LEMMA RequestTypes ==
    ASSUME BatchTypeOK, NEW r \in Requests, ReadJob(r) \/ RequestStep(r) \/ RequestDies(r)
    PROVE  BatchTypeOK'
  <1> USE StatusTypes, FaultTypes DEF BatchTypeOK, OthersOfRequest, RequestAt
  <1>1. CASE ReadJob(r) BY <1>1 DEF ReadJob, Reads
  <1>2. CASE CancelFinished(r) BY <1>2 DEF CancelFinished, Goes
  <1>3. CASE CancelRun(r)
    <2>1. run' \in [state : {"none", "live", "succeeded"} \cup Released, asked : BOOLEAN]
      <3>1. [run EXCEPT !.asked = TRUE] \in [state : {"none", "live", "succeeded"} \cup Released,
                                            asked : BOOLEAN]
        OBVIOUS
      <3> QED BY <1>3, <3>1 DEF CancelRun
    <2>2. request' \in [Requests -> [at : RequestAt, status : JobStatus, named : BOOLEAN]]
      BY <1>3 DEF CancelRun, Goes
    <2> QED BY <1>3, <2>1, <2>2 DEF CancelRun
  <1>4. CASE CancelUnsubmitted(r)
    BY <1>4, UpdatedType DEF CancelUnsubmitted, Goes, Move, CannotMove
  <1>5. CASE ReleaseCancelled(r) BY <1>5, HoldTypes DEF ReleaseCancelled, Goes
  <1>6. CASE EnqueueRequest(r) BY <1>6, QueueTypes DEF EnqueueRequest, Goes
  <1>7. CASE RequestDies(r) BY <1>7 DEF RequestDies, Abandoned, Goes
  <1> QED BY <1>1, <1>2, <1>3, <1>4, <1>5, <1>6, <1>7 DEF RequestStep

LEMMA SweepTypes ==
    ASSUME BatchTypeOK, SweepStep \/ SweepDies
    PROVE  BatchTypeOK'
  <1> USE StatusTypes, FaultTypes DEF BatchTypeOK, OthersOfSweep
  <1>1. CASE ListStale BY <1>1 DEF ListStale
  <1>2. CASE FailStale BY <1>2, UpdatedType DEF FailStale
  <1>3. CASE ReleaseStale BY <1>3, HoldTypes DEF ReleaseStale
  <1>4. CASE EnqueueStale BY <1>4, QueueTypes DEF EnqueueStale
  <1>5. CASE SweepDies BY <1>5 DEF SweepDies, Abandoned
  <1> QED BY <1>1, <1>2, <1>3, <1>4, <1>5 DEF SweepStep

LEMMA LeaveTypes ==
    ASSUME BatchTypeOK, NEW w \in Workers, Leave(w)
    PROVE  worker' \in [Workers -> WorkerAt] /\ lock' \in Workers \cup {Nobody}
  BY DEF BatchTypeOK, Leave, WorkerAt

LEMMA RequeueTypes ==
    ASSUME BatchTypeOK, NEW w \in Workers, Requeue(w)
    PROVE  /\ worker' \in [Workers -> WorkerAt] /\ lock' \in Workers \cup {Nobody}
           /\ queue' \in [ready : Nat, delayed : BOOLEAN, active : BOOLEAN, inflight : BOOLEAN]
  BY LeaveTypes DEF BatchTypeOK, Requeue, Delay

LEMMA ContinueTypes ==
    ASSUME BatchTypeOK, NEW w \in Workers, NEW at \in WorkerAt, Continue(w, at)
    PROVE  /\ worker' \in [Workers -> WorkerAt] /\ lock' \in Workers \cup {Nobody}
           /\ queue' \in [ready : Nat, delayed : BOOLEAN, active : BOOLEAN, inflight : BOOLEAN]
  BY DEF BatchTypeOK, Continue

LEMMA WorkerTypes ==
    ASSUME BatchTypeOK, NEW w \in Workers, WorkerStep(w) \/ WorkerDies(w)
    PROVE  BatchTypeOK'
  <1> USE StatusTypes, FaultTypes, RequeueTypes, ContinueTypes DEF BatchTypeOK, OthersOfWorker
  <1>at. {"idle", "reserved", "locked", "process", "poll", "index", "indexed", "release",
          "settle", "capture", "unsettled", "mark", "exhausted", "fail", "ack"} = WorkerAt
    BY DEF WorkerAt
  <1> USE <1>at
  <1>1. CASE ReserveJob(w)
    <2>1. queue \in Queues /\ queue.ready - 1 \in Nat
      BY <1>1, QueueType DEF ReserveJob
    <2>2. queue' \in Queues
      BY <1>1, <2>1, QueueUpdates DEF ReserveJob
    <2> QED BY <1>1, <2>2 DEF ReserveJob, Queues
  <1>2. CASE LockJob(w)
    <2>1. queue' \in Queues
      <3>1. queue \in Queues BY QueueType
      <3> QED BY <1>2, <3>1 DEF LockJob, Delay, Queues
    <2>2. worker' \in [Workers -> WorkerAt] /\ lock' \in Workers \cup {Nobody}
      BY <1>2 DEF LockJob
    <2>3. faults' \in 0..MaxFaults /\ trouble' \subseteq {"queue", "lapse", "death"}
      BY <1>2 DEF LockJob
    <2> QED BY <1>2, <2>1, <2>2, <2>3 DEF LockJob, Queues
  <1>3. CASE ChooseProcessor(w) BY <1>3 DEF ChooseProcessor
  <1>4. CASE ReadForProvider(w) BY <1>4 DEF ReadForProvider
  <1>5. CASE Poll(w) BY <1>5, UpdatedType DEF Poll, Move, CannotMove, GiveUp
  <1>6. CASE IndexOutput(w) BY <1>6, UpdatedType DEF IndexOutput, Move, CannotMove, GiveUp
  <1>7. CASE BeginSettling(w) BY <1>7, UpdatedType DEF BeginSettling, Move, CannotMove, GiveUp
  <1>8. CASE ReleaseFinished(w) BY <1>8, HoldTypes DEF ReleaseFinished
  <1>9. CASE ReadForSettlement(w) BY <1>9 DEF ReadForSettlement
  <1>10. CASE CaptureHold(w) BY <1>10 DEF CaptureHold
  <1>11. CASE RecordUnsettled(w)
    <2>1. job.retries \in Nat /\ job.retries <= MaxRetries /\ MaxRetries \in Nat
      BY BatchAssumption
    <2>2. (IF job.retries < MaxRetries THEN job.retries + 1 ELSE job.retries) \in 0..MaxRetries
      BY <2>1
    <2>3. job' \in [status : JobStatus, named : BOOLEAN, old : BOOLEAN, retries : 0..MaxRetries]
      <3>1. [job EXCEPT !.old = FALSE,
                        !.retries = IF @ < MaxRetries THEN @ + 1 ELSE @]
              \in [status : JobStatus, named : BOOLEAN, old : BOOLEAN, retries : 0..MaxRetries]
        BY <2>2
      <3> QED BY <1>11, <3>1 DEF RecordUnsettled
    <2>4. /\ worker' \in [Workers -> WorkerAt] /\ lock' \in Workers \cup {Nobody}
          /\ queue' \in [ready : Nat, delayed : BOOLEAN, active : BOOLEAN, inflight : BOOLEAN]
      BY <1>11 DEF RecordUnsettled
    <2>5. faults' \in 0..MaxFaults /\ trouble' \subseteq {"queue", "lapse", "death"}
      BY <1>11 DEF RecordUnsettled
    <2> QED BY <1>11, <2>3, <2>4, <2>5 DEF RecordUnsettled
  <1>12. CASE MarkSettled(w) BY <1>12, UpdatedType DEF MarkSettled, GiveUp
  <1>13. CASE ReleaseUnsettled(w) BY <1>13, HoldTypes DEF ReleaseUnsettled
  <1>14. CASE FailUnsettled(w) BY <1>14, UpdatedType DEF FailUnsettled, Move, CannotMove, GiveUp
  <1>15. CASE Ack(w)
    <2>1. worker' \in [Workers -> WorkerAt] /\ lock' \in Workers \cup {Nobody}
      BY <1>15, LeaveTypes DEF Ack
    <2>2. queue' \in [ready : Nat, delayed : BOOLEAN, active : BOOLEAN, inflight : BOOLEAN]
      BY <1>15 DEF Ack
    <2>3. faults' \in 0..MaxFaults /\ trouble' \subseteq {"queue", "lapse", "death"}
      BY <1>15 DEF Ack
    <2> QED BY <1>15, <2>1, <2>2, <2>3 DEF Ack
  <1>16. CASE WorkerDies(w)
    <2>1. worker' \in [Workers -> WorkerAt]
      BY <1>16 DEF WorkerDies
    <2>2. faults' \in 0..MaxFaults /\ trouble' \subseteq {"queue", "lapse", "death"}
      BY <1>16 DEF WorkerDies
    <2> QED BY <1>16, <2>1, <2>2 DEF WorkerDies
  <1> QED BY <1>1, <1>2, <1>3, <1>4, <1>5, <1>6, <1>7, <1>8, <1>9, <1>10, <1>11, <1>12,
             <1>13, <1>14, <1>15, <1>16 DEF WorkerStep

LEMMA OtherTypes ==
    ASSUME BatchTypeOK, MoveDueDelayed \/ RecoverStaleActive \/ LockExpires \/ RunEnds
    PROVE  BatchTypeOK'
  <1>0. queue \in Queues /\ queue.ready + 1 \in Nat
    BY QueueType
  <1> USE FaultTypes DEF BatchTypeOK, OthersOfQueue
  <1>1. CASE MoveDueDelayed
    <2>1. queue' \in Queues
      BY <1>1, <1>0, QueueUpdates DEF MoveDueDelayed
    <2> QED BY <1>1, <2>1 DEF MoveDueDelayed, Queues
  <1>2. CASE RecoverStaleActive
    <2>1. queue' \in Queues
      BY <1>2, <1>0, QueueUpdates DEF RecoverStaleActive
    <2> QED BY <1>2, <2>1 DEF RecoverStaleActive, Queues
  <1>3. CASE LockExpires BY <1>3 DEF LockExpires
  <1>4. CASE RunEnds BY <1>4, StatusTypes DEF RunEnds
  <1> QED BY <1>1, <1>2, <1>3, <1>4

LEMMA TypesKept ==
    ASSUME BatchTypeOK, [BatchNext]_batchVars
    PROVE  BatchTypeOK'
  <1>1. CASE UNCHANGED batchVars BY <1>1 DEF batchVars, BatchTypeOK
  <1> QED BY <1>1, SubmitTypes, RequestTypes, SweepTypes, WorkerTypes, OtherTypes DEF BatchNext

LEMMA InitialTypes == BatchInit => BatchTypeOK
  BY BatchAssumption DEF BatchInit, BatchTypeOK, JobStatus, SubmitAt, RequestAt, WorkerAt

\* Every variable keeps its type.
THEOREM BatchTypes == BatchSpec => []BatchTypeOK
  BY InitialTypes, TypesKept, PTL DEF BatchSpec

--------------------------------------------------------------------------------
(* 2. The inductive invariant, and what is final. *)

\* What a step shows besides the types.
Finishes ==
    /\ job.status \in Finished => job'.status \in Finished
    /\ job.status = "completed" => job'.status = "completed"

ShapesKept == SubmitShape' /\ RunShape' /\ ReleaseShape' /\ UnpaidRunIsCancelled' /\ Finishes

LEMMA Moved ==
    ASSUME BatchTypeOK, NEW s \in JobStatus, Move(s)
    PROVE  /\ job.status \notin Finished /\ MayMove(job.status, s)
           /\ job'.status = s /\ job'.named = job.named
  BY UpdatedType DEF Move, MayMove

LEMMA SubmitShapes ==
    ASSUME BatchInv, CreateJob \/ SubmitStep \/ Heartbeat \/ SubmitDies
    PROVE  ShapesKept
  <1> USE StatusTypes
      DEF BatchInv, SubmitShape, RunShape, ReleaseShape, Releasing, UnpaidRunIsCancelled,
          BeforeName, ShapesKept, Finishes, OthersOfSubmit, Released, Finished
  <1>1. CASE CreateJob BY <1>1, UpdatedType DEF CreateJob
  <1>2. CASE ReserveHold BY <1>2 DEF ReserveHold
  <1>3. CASE CreateItems BY <1>3 DEF CreateItems
  <1>4. CASE BeginUpload BY <1>4, Moved DEF BeginUpload, CannotMove, MayMove
  <1>5. CASE ProviderSubmit BY <1>5 DEF ProviderSubmit, BatchTypeOK
  <1>6. CASE NameRun BY <1>6, UpdatedType DEF NameRun, CannotMove, MayMove, BatchTypeOK
  <1>7. CASE AbortRun BY <1>7 DEF AbortRun, BatchTypeOK
  <1>8. CASE EnqueueJob BY <1>8 DEF EnqueueJob
  <1>9. CASE ReleaseFailedSubmit BY <1>9 DEF ReleaseFailedSubmit, Release, ReleaseFails
  <1>10. CASE RecordFailure BY <1>10, UpdatedType DEF RecordFailure
  <1>11. CASE Heartbeat BY <1>11 DEF Heartbeat, BatchTypeOK
  <1>12. CASE SubmitDies BY <1>12 DEF SubmitDies
  <1> QED BY <1>1, <1>2, <1>3, <1>4, <1>5, <1>6, <1>7, <1>8, <1>9, <1>10, <1>11, <1>12
          DEF SubmitStep

LEMMA RequestShapes ==
    ASSUME BatchInv, NEW r \in Requests, ReadJob(r) \/ RequestStep(r) \/ RequestDies(r)
    PROVE  ShapesKept
  <1> USE StatusTypes
      DEF BatchInv, SubmitShape, RunShape, ReleaseShape, Releasing, UnpaidRunIsCancelled,
          BeforeName, ShapesKept, Finishes, OthersOfRequest, Released, Finished
  <1>1. CASE ReadJob(r) BY <1>1 DEF ReadJob, Reads, BatchTypeOK
  <1>2. CASE CancelFinished(r) BY <1>2 DEF CancelFinished, Goes, BatchTypeOK
  <1>3. CASE CancelRun(r) BY <1>3 DEF CancelRun, Goes, BatchTypeOK
  <1>4. CASE CancelUnsubmitted(r)
    <2>1. \/ /\ job.status \notin Finished \cup {"none"} /\ job'.status = "cancelled"
             /\ job'.named = job.named
          \/ UNCHANGED job
      BY <1>4, Moved DEF CancelUnsubmitted, CannotMove, MayMove, Unsubmitted
    <2>2. job.status \in Released => job'.status \in Released
      BY <2>1
    <2>3. \A q \in Requests : Releasing(q)' => job'.status \in Released
      BY <1>4, <2>1, <2>2, Moved DEF CancelUnsubmitted, Goes, CannotMove, BatchTypeOK
    <2>4. UNCHANGED <<hold, run, submit, sweep, worker>>
      BY <1>4 DEF CancelUnsubmitted
    <2>5. SubmitShape' /\ UnpaidRunIsCancelled' /\ Finishes
      BY <2>1, <2>4
    <2>6. RunShape'
      BY <2>1, <2>4
    <2>7. ReleaseShape'
      BY <2>2, <2>3, <2>4
    <2> QED BY <2>5, <2>6, <2>7
  <1>5. CASE ReleaseCancelled(r)
    BY <1>5 DEF ReleaseCancelled, Goes, Release, ReleaseFails, BatchTypeOK
  <1>6. CASE EnqueueRequest(r) BY <1>6 DEF EnqueueRequest, Goes, BatchTypeOK
  <1>7. CASE RequestDies(r) BY <1>7 DEF RequestDies, Goes, BatchTypeOK
  <1> QED BY <1>1, <1>2, <1>3, <1>4, <1>5, <1>6, <1>7 DEF RequestStep

LEMMA SweepShapes ==
    ASSUME BatchInv, SweepStep \/ SweepDies
    PROVE  ShapesKept
  <1> USE StatusTypes
      DEF BatchInv, SubmitShape, RunShape, ReleaseShape, Releasing, UnpaidRunIsCancelled,
          BeforeName, ShapesKept, Finishes, OthersOfSweep, Released, Finished
  <1>1. CASE ListStale BY <1>1 DEF ListStale, BatchTypeOK
  <1>2. CASE FailStale BY <1>2, UpdatedType DEF FailStale, Unsubmitted
  <1>3. CASE ReleaseStale BY <1>3 DEF ReleaseStale, Release, ReleaseFails
  <1>4. CASE EnqueueStale BY <1>4 DEF EnqueueStale
  <1>5. CASE SweepDies BY <1>5 DEF SweepDies
  <1> QED BY <1>1, <1>2, <1>3, <1>4, <1>5 DEF SweepStep

LEMMA WorkerShapes ==
    ASSUME BatchInv, NEW w \in Workers, WorkerStep(w) \/ WorkerDies(w)
    PROVE  ShapesKept
  <1> USE StatusTypes
      DEF BatchInv, SubmitShape, RunShape, ReleaseShape, Releasing, UnpaidRunIsCancelled,
          BeforeName, ShapesKept, Finishes, OthersOfWorker, Released, Finished, AfterRun,
          Continue, Requeue, Leave
  <1> worker \in [Workers -> WorkerAt]
    BY DEF BatchTypeOK
  <1>1. CASE ReserveJob(w) BY <1>1 DEF ReserveJob
  <1>2. CASE LockJob(w) BY <1>2 DEF LockJob
  <1>3. CASE ChooseProcessor(w) BY <1>3 DEF ChooseProcessor
  <1>4. CASE ReadForProvider(w) BY <1>4 DEF ReadForProvider
  <1>5. CASE Poll(w) BY <1>5, Moved DEF Poll, CannotMove, GiveUp, MayMove
  <1>6. CASE IndexOutput(w) BY <1>6, Moved DEF IndexOutput, CannotMove, GiveUp
  <1>7. CASE BeginSettling(w) BY <1>7, Moved DEF BeginSettling, CannotMove, GiveUp, MayMove
  <1>8. CASE ReleaseFinished(w) BY <1>8 DEF ReleaseFinished, Release, ReleaseFails
  <1>9. CASE ReadForSettlement(w) BY <1>9 DEF ReadForSettlement
  <1>10. CASE CaptureHold(w) BY <1>10 DEF CaptureHold
  <1>11. CASE RecordUnsettled(w)
    <2>1. job'.status = job.status /\ job'.named = job.named
      BY <1>11 DEF RecordUnsettled, BatchTypeOK
    <2>2. UNCHANGED <<hold, run, submit, request, sweep>> /\ run.state = "succeeded" /\ job.named
      BY <1>11 DEF RecordUnsettled
    <2>3. \A v \in Workers : worker'[v] = worker[v] \/ worker'[v] \in {"exhausted", "ack", "idle"}
      BY <1>11 DEF RecordUnsettled
    <2>4. RunShape'
      BY <2>1, <2>2, <2>3
    <2>5. ReleaseShape'
      BY <2>1, <2>2, <2>3
    <2> QED BY <2>1, <2>2, <2>4, <2>5
  <1>12. CASE MarkSettled(w) BY <1>12, UpdatedType DEF MarkSettled, GiveUp
  <1>13. CASE ReleaseUnsettled(w)
    <2>1. UNCHANGED <<job, run, submit, request, sweep>> /\ run.state = "succeeded" /\ job.named
      BY <1>13 DEF ReleaseUnsettled
    <2>2. hold' \in {hold, "released"}
      BY <1>13 DEF ReleaseUnsettled, Release, ReleaseFails
    <2>3. \A v \in Workers : worker'[v] = worker[v] \/ worker'[v] \in {"fail", "ack", "idle"}
      BY <1>13 DEF ReleaseUnsettled
    <2>4. SubmitShape'
      BY <2>1, <2>2
    <2>5. RunShape'
      BY <2>1, <2>3
    <2>6. ReleaseShape'
      BY <2>1, <2>3
    <2> QED BY <2>1, <2>2, <2>4, <2>5, <2>6
  <1>14. CASE FailUnsettled(w) BY <1>14, Moved DEF FailUnsettled, CannotMove, GiveUp
  <1>15. CASE Ack(w) BY <1>15 DEF Ack
  <1>16. CASE WorkerDies(w) BY <1>16 DEF WorkerDies
  <1> QED BY <1>1, <1>2, <1>3, <1>4, <1>5, <1>6, <1>7, <1>8, <1>9, <1>10, <1>11, <1>12,
             <1>13, <1>14, <1>15, <1>16 DEF WorkerStep

LEMMA OtherShapes ==
    ASSUME BatchInv, MoveDueDelayed \/ RecoverStaleActive \/ LockExpires \/ RunEnds
    PROVE  ShapesKept
  <1> USE DEF BatchInv, SubmitShape, RunShape, ReleaseShape, Releasing, UnpaidRunIsCancelled,
          BeforeName, ShapesKept, Finishes, OthersOfQueue, AfterRun
  <1>1. CASE MoveDueDelayed BY <1>1 DEF MoveDueDelayed
  <1>2. CASE RecoverStaleActive BY <1>2 DEF RecoverStaleActive
  <1>3. CASE LockExpires BY <1>3 DEF LockExpires
  <1>4. CASE RunEnds BY <1>4 DEF RunEnds, Released, BatchTypeOK
  <1> QED BY <1>1, <1>2, <1>3, <1>4

LEMMA StepKeeps ==
    ASSUME BatchInv, [BatchNext]_batchVars
    PROVE  BatchInv' /\ Finishes
  <1>1. CASE UNCHANGED batchVars
    BY <1>1 DEF batchVars, BatchInv, BatchTypeOK, SubmitShape, RunShape, ReleaseShape, Releasing,
                UnpaidRunIsCancelled, Finishes
  <1>2. CASE BatchNext
    <2>1. ShapesKept
      BY <1>2, SubmitShapes, RequestShapes, SweepShapes, WorkerShapes, OtherShapes DEF BatchNext
    <2> QED BY <2>1, TypesKept DEF BatchInv, ShapesKept
  <1> QED BY <1>1, <1>2

LEMMA InitialInv == BatchInit => BatchInv
  BY InitialTypes DEF BatchInit, BatchInv, SubmitShape, RunShape, ReleaseShape, Releasing,
                      UnpaidRunIsCancelled, AfterRun, Released

LEMMA BatchInvariance == BatchSpec => []BatchInv
  BY InitialInv, StepKeeps, PTL DEF BatchSpec

\* While the provider works on a job that has a name, its hold is given up only when
\* the user cancelled the job, whatever Submit, the recovery and the workers had read.
THEOREM RunsArePaid == BatchSpec => []UnpaidRunIsCancelled
  <1>1. BatchInv => UnpaidRunIsCancelled
    BY DEF BatchInv
  <1> QED BY <1>1, BatchInvariance, PTL

\* No step of any process takes a job out of the states in which it has finished, or
\* makes a completed one anything else.
THEOREM FinishedStays == BatchSpec => FinishedIsFinal
  <1>1. BatchInv /\ [BatchNext]_batchVars => [Finishes]_batchVars
    BY StepKeeps
  <1>2. Finishes <=> /\ job.status \in Finished => job'.status \in Finished
                     /\ job.status = "completed" => job'.status = "completed"
    BY DEF Finishes
  <1> QED BY <1>1, <1>2, BatchInvariance, PTL DEF BatchSpec, FinishedIsFinal

--------------------------------------------------------------------------------
(* 3. The charge.  As long as no lock lapses, the worker that has it is the   *)
(* only one past LockJob, so that the status it acted on is still the status. *)

InTime == "lapse" \notin trouble

Holding == WorkerAt \ {"idle", "reserved"}

LockShape == InTime => \A w \in Workers : worker[w] \in Holding => lock = w

ChargeShape ==
    /\ submit \in {"start", "created"} => hold = "none"
    /\ \A w \in Workers :
          /\ worker[w] = "mark" => hold = "captured"
          /\ worker[w] = "fail" => hold = "released"
          /\ InTime /\ worker[w] = "index" => job.status = "indexing"
          /\ InTime /\ worker[w] = "capture" => job.status = "settling"
    /\ ChargeMatchesJob

ChargeInv == BatchInv /\ LockShape /\ ChargeShape

\* Submit, Cancel and the recovery leave the workers and the lock alone.
LEMMA OthersKeepLock ==
    ASSUME LockShape, InTime' => InTime, UNCHANGED <<worker, lock>>
    PROVE  LockShape'
  BY DEF LockShape

LEMMA TroubleGrows ==
    ASSUME BatchTypeOK, BatchNext
    PROVE  InTime' => InTime
  <1> USE DEF InTime, NoFault, Fault, Troubles, Counted
  <1>1. CASE CreateJob \/ SubmitStep \/ Heartbeat \/ SubmitDies
    BY <1>1 DEF SubmitStep, CreateJob, ReserveHold, CreateItems, BeginUpload, ProviderSubmit,
                NameRun, AbortRun, EnqueueJob, EnqueueOrLose, Enqueue, ReleaseFailedSubmit,
                Release, ReleaseFails, RecordFailure, Heartbeat, SubmitDies, Abandoned
  <1>2. CASE \E r \in Requests : ReadJob(r) \/ RequestStep(r) \/ RequestDies(r)
    BY <1>2 DEF RequestStep, ReadJob, CancelFinished, CancelRun, CancelUnsubmitted,
                ReleaseCancelled, Release, ReleaseFails, EnqueueRequest, EnqueueOrLose, Enqueue,
                RequestDies, Abandoned
  <1>3. CASE SweepStep \/ SweepDies
    BY <1>3 DEF SweepStep, ListStale, FailStale, ReleaseStale, Release, ReleaseFails,
                EnqueueStale, EnqueueOrLose, Enqueue, SweepDies, Abandoned
  <1>4. CASE \E w \in Workers : WorkerStep(w) \/ WorkerDies(w)
    BY <1>4 DEF WorkerStep, ReserveJob, LockJob, ChooseProcessor, ReadForProvider, Poll,
                IndexOutput, BeginSettling, ReleaseFinished, Release, ReleaseFails,
                ReadForSettlement, CaptureHold, RecordUnsettled, MarkSettled, ReleaseUnsettled,
                FailUnsettled, Ack, GiveUp, WorkerDies
  <1>5. CASE MoveDueDelayed \/ RecoverStaleActive \/ LockExpires \/ RunEnds
    BY <1>5 DEF MoveDueDelayed, RecoverStaleActive, LockExpires, RunEnds
  <1> QED BY <1>1, <1>2, <1>3, <1>4, <1>5 DEF BatchNext

LEMMA LockKept ==
    ASSUME ChargeInv, BatchNext
    PROVE  LockShape'
  <1> USE TroubleGrows, OthersKeepLock DEF ChargeInv, BatchInv
  <1> worker \in [Workers -> WorkerAt]
    BY DEF BatchTypeOK
  <1>1. CASE CreateJob \/ SubmitStep \/ Heartbeat \/ SubmitDies
    BY <1>1 DEF SubmitStep, CreateJob, ReserveHold, CreateItems, BeginUpload, ProviderSubmit,
                NameRun, AbortRun, EnqueueJob, ReleaseFailedSubmit, RecordFailure, Heartbeat,
                SubmitDies, OthersOfSubmit
  <1>2. CASE \E r \in Requests : ReadJob(r) \/ RequestStep(r) \/ RequestDies(r)
    BY <1>2 DEF RequestStep, ReadJob, CancelFinished, CancelRun, CancelUnsubmitted,
                ReleaseCancelled, EnqueueRequest, RequestDies, OthersOfRequest
  <1>3. CASE SweepStep \/ SweepDies
    BY <1>3 DEF SweepStep, ListStale, FailStale, ReleaseStale, EnqueueStale, SweepDies,
                OthersOfSweep
  <1>4. ASSUME NEW w \in Workers, WorkerStep(w) \/ WorkerDies(w)
        PROVE  LockShape'
    <2> USE DEF LockShape, Holding, Continue, Requeue, Leave
    <2>1. CASE ReserveJob(w) BY <2>1 DEF ReserveJob
    <2>2. CASE LockJob(w) BY <2>2, BatchAssumption DEF LockJob
    <2>3. CASE \E at \in WorkerAt : worker[w] \in Holding /\ Continue(w, at) BY <2>3
    <2>4. CASE Leave(w) BY <2>4
    <2>5. CASE WorkerDies(w) BY <2>5 DEF WorkerDies
    <2> QED
      BY <1>4, <2>1, <2>2, <2>3, <2>4, <2>5
      DEF WorkerStep, ChooseProcessor, ReadForProvider, Poll, IndexOutput, BeginSettling,
          ReleaseFinished, ReadForSettlement, CaptureHold, RecordUnsettled, MarkSettled,
          ReleaseUnsettled, FailUnsettled, Ack, GiveUp, WorkerAt
  <1>5. CASE MoveDueDelayed \/ RecoverStaleActive \/ RunEnds
    BY <1>5 DEF MoveDueDelayed, RecoverStaleActive, RunEnds, OthersOfQueue
  <1>6. CASE LockExpires
    BY <1>6 DEF LockExpires, OthersOfQueue, LockShape, Holding, InTime, NoFault, Troubles
  <1> QED BY <1>1, <1>2, <1>3, <1>4, <1>5, <1>6 DEF BatchNext

LEMMA OnlyHolder ==
    ASSUME ChargeInv, InTime, NEW v \in Workers, NEW w \in Workers,
           worker[v] \in Holding, worker[w] \in Holding
    PROVE  v = w
  BY DEF ChargeInv, LockShape

\* What may happen to the status and the hold under a worker that settles.
LEMMA ChargeKeptByOthers ==
    ASSUME ChargeInv, InTime' => InTime, UNCHANGED worker,
           submit' \in {"start", "created"} => submit \in {"start", "created"} /\ UNCHANGED hold,
           hold' = hold \/ (hold = "reserved" /\ hold' = "released")
                        \/ (submit = "created" /\ hold' = "reserved"),
           \/ job'.status = job.status
           \/ /\ job.status \notin {"indexing", "settling", "completed"}
              /\ job'.status # "completed"
    PROVE  ChargeShape'
  BY DEF ChargeInv, ChargeShape, ChargeMatchesJob, InTime

LEMMA ChargeKeptBySubmit ==
    ASSUME ChargeInv, CreateJob \/ SubmitStep \/ Heartbeat \/ SubmitDies, InTime' => InTime
    PROVE  ChargeShape'
  <1> USE ChargeKeptByOthers, StatusTypes DEF OthersOfSubmit
  <1>0. BatchTypeOK /\ SubmitShape /\ RunShape
        /\ (submit \in {"start", "created"} => hold = "none")
    BY DEF ChargeInv, BatchInv, ChargeShape
  <1> USE <1>0
  <1>1. CASE CreateJob BY <1>1, UpdatedType DEF CreateJob, SubmitShape
  <1>2. CASE ReserveHold BY <1>2 DEF ReserveHold
  <1>3. CASE CreateItems BY <1>3 DEF CreateItems
  <1>4. CASE BeginUpload
    BY <1>4, Moved DEF BeginUpload, CannotMove, MayMove, Unsubmitted
  <1>5. CASE ProviderSubmit BY <1>5 DEF ProviderSubmit
  <1>6. CASE NameRun
    BY <1>6, UpdatedType DEF NameRun, CannotMove, MayMove, Unsubmitted, BatchTypeOK
  <1>7. CASE AbortRun BY <1>7 DEF AbortRun
  <1>8. CASE EnqueueJob BY <1>8 DEF EnqueueJob
  <1>9. CASE ReleaseFailedSubmit BY <1>9 DEF ReleaseFailedSubmit, Release, ReleaseFails
  <1>10. CASE RecordFailure
    BY <1>10, UpdatedType DEF RecordFailure, SubmitShape, RunShape
  <1>11. CASE Heartbeat BY <1>11 DEF Heartbeat, BatchTypeOK
  <1>12. CASE SubmitDies BY <1>12 DEF SubmitDies
  <1> QED BY <1>1, <1>2, <1>3, <1>4, <1>5, <1>6, <1>7, <1>8, <1>9, <1>10, <1>11, <1>12
          DEF SubmitStep

LEMMA ChargeKeptByRequest ==
    ASSUME ChargeInv, InTime' => InTime, NEW r \in Requests,
           ReadJob(r) \/ RequestStep(r) \/ RequestDies(r)
    PROVE  ChargeShape'
  <1> USE ChargeKeptByOthers, StatusTypes DEF OthersOfRequest
  <1>0. BatchTypeOK /\ (submit \in {"start", "created"} => hold = "none")
    BY DEF ChargeInv, BatchInv, ChargeShape
  <1> USE <1>0
  <1>1. CASE ReadJob(r) BY <1>1 DEF ReadJob
  <1>2. CASE CancelFinished(r) BY <1>2 DEF CancelFinished
  <1>3. CASE CancelRun(r) BY <1>3 DEF CancelRun
  <1>4. CASE CancelUnsubmitted(r)
    BY <1>4, Moved DEF CancelUnsubmitted, CannotMove, MayMove, Unsubmitted
  <1>5. CASE ReleaseCancelled(r) BY <1>5 DEF ReleaseCancelled, Release, ReleaseFails
  <1>6. CASE EnqueueRequest(r) BY <1>6 DEF EnqueueRequest
  <1>7. CASE RequestDies(r) BY <1>7 DEF RequestDies
  <1> QED BY <1>1, <1>2, <1>3, <1>4, <1>5, <1>6, <1>7 DEF RequestStep

LEMMA ChargeKeptBySweep ==
    ASSUME ChargeInv, SweepStep \/ SweepDies, InTime' => InTime
    PROVE  ChargeShape'
  <1> USE ChargeKeptByOthers, StatusTypes DEF OthersOfSweep
  <1>0. BatchTypeOK /\ (submit \in {"start", "created"} => hold = "none")
    BY DEF ChargeInv, BatchInv, ChargeShape
  <1> USE <1>0
  <1>1. CASE ListStale BY <1>1 DEF ListStale, BatchTypeOK
  <1>2. CASE FailStale BY <1>2, UpdatedType DEF FailStale, Unsubmitted
  <1>3. CASE ReleaseStale BY <1>3 DEF ReleaseStale, Release, ReleaseFails
  <1>4. CASE EnqueueStale BY <1>4 DEF EnqueueStale
  <1>5. CASE SweepDies BY <1>5 DEF SweepDies
  <1> QED BY <1>1, <1>2, <1>3, <1>4, <1>5 DEF SweepStep

\* A worker that only takes, locks or leaves the job.
LEMMA ChargeKeptAside ==
    ASSUME ChargeInv, InTime' => InTime, UNCHANGED <<job, hold, submit>>,
           \A v \in Workers : worker'[v] = worker[v] \/ worker'[v] \in {"idle", "reserved", "locked"}
    PROVE  ChargeShape'
  BY DEF ChargeInv, ChargeShape, ChargeMatchesJob, InTime

\* A worker that has the job: the others do not matter as long as it is in time.
LEMMA ChargeKeptByHolder ==
    ASSUME ChargeInv, InTime' => InTime, NEW w \in Workers, worker[w] \in Holding,
           \A v \in Workers : v # w => worker'[v] = worker[v],
           UNCHANGED submit,
           hold' = hold \/ (hold = "reserved" /\ hold' \in {"captured", "released"}),
           worker'[w] = "mark" => hold' = "captured",
           worker'[w] = "fail" => hold' = "released",
           InTime /\ worker'[w] = "index" => job'.status = "indexing",
           InTime /\ worker'[w] = "capture" => job'.status = "settling",
           ChargeMatchesJob'
    PROVE  ChargeShape'
  <1>1. submit' \in {"start", "created"} => hold' = "none"
    BY DEF ChargeInv, ChargeShape
  <1>2. ASSUME NEW v \in Workers, v # w
        PROVE  /\ worker'[v] = "mark" => hold' = "captured"
               /\ worker'[v] = "fail" => hold' = "released"
               /\ InTime' => worker'[v] \notin {"index", "capture"}
    <2>1. InTime => worker[v] \notin Holding
      BY <1>2, OnlyHolder
    <2>2. worker[v] \in {"mark", "fail"} => hold' = hold
      BY DEF ChargeInv, ChargeShape
    <2> QED BY <1>2, <2>1, <2>2 DEF ChargeInv, ChargeShape, Holding, WorkerAt
  <1> QED BY <1>1, <1>2 DEF ChargeShape

LEMMA ChargeKeptByWorker ==
    ASSUME ChargeInv, InTime' => InTime, NEW w \in Workers, WorkerStep(w) \/ WorkerDies(w)
    PROVE  ChargeShape'
  <1>0. /\ BatchTypeOK /\ RunShape /\ ChargeMatchesJob
        /\ worker \in [Workers -> WorkerAt]
        /\ worker[w] = "mark" => hold = "captured"
        /\ worker[w] = "fail" => hold = "released"
        /\ InTime /\ worker[w] = "index" => job.status = "indexing"
        /\ InTime /\ worker[w] = "capture" => job.status = "settling"
    BY DEF ChargeInv, BatchInv, BatchTypeOK, ChargeShape
  <1> USE <1>0, StatusTypes, ChargeKeptByHolder, ChargeKeptAside
      DEF ChargeMatchesJob, OthersOfWorker, Continue, Requeue, Leave, Holding, WorkerAt
  <1>1. CASE ReserveJob(w) BY <1>1 DEF ReserveJob
  <1>2. CASE LockJob(w) BY <1>2 DEF LockJob
  <1>3. CASE ChooseProcessor(w) BY <1>3 DEF ChooseProcessor, InTime
  <1>4. CASE ReadForProvider(w) BY <1>4 DEF ReadForProvider, InTime
  <1>5. CASE Poll(w) BY <1>5, Moved DEF Poll, CannotMove, GiveUp, MayMove, RunShape, InTime
  <1>6. CASE IndexOutput(w)
    <2>1. UNCHANGED <<hold, submit>> /\ worker[w] \in Holding
          /\ (\A v \in Workers : v # w => worker'[v] = worker[v])
          /\ worker'[w] \in {"indexed", "release", "idle"}
      BY <1>6 DEF IndexOutput, GiveUp
    <2>2. \/ /\ job.status # "completed" /\ job'.status = "failed"
             /\ InTime => job.status = "indexing"
          \/ job'.status = job.status
      BY <1>6, Moved DEF IndexOutput, CannotMove, GiveUp, Finished
    <2>3. ChargeMatchesJob'
      BY <2>1, <2>2 DEF InTime
    <2> QED BY <2>1, <2>3
  <1>7. CASE BeginSettling(w) BY <1>7, Moved DEF BeginSettling, CannotMove, GiveUp, MayMove
  <1>8. CASE ReleaseFinished(w) BY <1>8 DEF ReleaseFinished, Release, ReleaseFails
  <1>9. CASE ReadForSettlement(w) BY <1>9 DEF ReadForSettlement
  <1>10. CASE CaptureHold(w)
    <2>1. UNCHANGED <<job, submit>> /\ worker[w] \in Holding
          /\ (\A v \in Workers : v # w => worker'[v] = worker[v])
          /\ worker'[w] \in {"mark", "unsettled"}
          /\ (worker'[w] = "mark" => hold' = "captured")
      BY <1>10 DEF CaptureHold
    <2>2. hold' = hold \/ (hold = "reserved" /\ hold' = "captured")
      BY <1>10 DEF CaptureHold
    <2>3. InTime => job.status = "settling"
      BY <1>10 DEF CaptureHold
    <2>4. ChargeMatchesJob'
      BY <2>1, <2>2, <2>3 DEF InTime
    <2> QED BY <2>1, <2>2, <2>4
  <1>11. CASE RecordUnsettled(w)
    <2>1. UNCHANGED <<hold, submit>> /\ worker[w] \in Holding
          /\ (\A v \in Workers : v # w => worker'[v] = worker[v])
          /\ worker'[w] \in {"exhausted", "ack", "idle"}
      BY <1>11 DEF RecordUnsettled
    <2>2. job'.status = job.status
      BY <1>11 DEF RecordUnsettled, BatchTypeOK
    <2>3. ChargeMatchesJob'
      BY <2>1, <2>2 DEF InTime
    <2> QED BY <2>1, <2>3
  <1>12. CASE MarkSettled(w) BY <1>12, UpdatedType DEF MarkSettled, GiveUp
  <1>13. CASE ReleaseUnsettled(w)
    <2>1. UNCHANGED <<job, submit>> /\ worker[w] \in Holding
          /\ (\A v \in Workers : v # w => worker'[v] = worker[v])
          /\ worker'[w] \in {"fail", "ack", "idle"}
          /\ (worker'[w] = "fail" => hold' = "released")
      BY <1>13 DEF ReleaseUnsettled, Release
    <2>2. hold' = hold \/ (hold = "reserved" /\ hold' = "released")
      BY <1>13 DEF ReleaseUnsettled, Release, ReleaseFails
    <2>3. ChargeMatchesJob'
      BY <2>1, <2>2 DEF InTime
    <2> QED BY <2>1, <2>2, <2>3
  <1>14. CASE FailUnsettled(w) BY <1>14, Moved DEF FailUnsettled, CannotMove, GiveUp
  <1>15. CASE Ack(w) BY <1>15 DEF Ack
  <1>16. CASE WorkerDies(w) BY <1>16 DEF WorkerDies
  <1> QED BY <1>1, <1>2, <1>3, <1>4, <1>5, <1>6, <1>7, <1>8, <1>9, <1>10, <1>11, <1>12,
             <1>13, <1>14, <1>15, <1>16 DEF WorkerStep

LEMMA ChargeStep ==
    ASSUME ChargeInv, [BatchNext]_batchVars
    PROVE  ChargeInv'
  <1>1. BatchInv'
    BY StepKeeps DEF ChargeInv
  <1>2. CASE UNCHANGED batchVars
    BY <1>1, <1>2 DEF batchVars, ChargeInv, LockShape, ChargeShape, ChargeMatchesJob, InTime
  <1>3. CASE BatchNext
    <2>1. InTime' => InTime
      BY <1>3, TroubleGrows DEF ChargeInv, BatchInv
    <2>2. LockShape'
      BY <1>3, LockKept
    <2>3. ChargeShape'
      <3>1. CASE MoveDueDelayed \/ RecoverStaleActive \/ LockExpires \/ RunEnds
        BY <2>1, <3>1, ChargeKeptByOthers
        DEF MoveDueDelayed, RecoverStaleActive, LockExpires, RunEnds, OthersOfQueue, ChargeInv,
            ChargeShape
      <3> QED BY <1>3, <2>1, <3>1, ChargeKeptBySubmit, ChargeKeptByRequest, ChargeKeptBySweep,
                 ChargeKeptByWorker DEF BatchNext
    <2> QED BY <1>1, <2>2, <2>3 DEF ChargeInv
  <1> QED BY <1>2, <1>3

LEMMA InitialCharge == BatchInit => ChargeInv
  BY InitialInv DEF BatchInit, ChargeInv, LockShape, Holding, ChargeShape, ChargeMatchesJob

\* A completed job has its hold captured, and a job with its hold captured is settling
\* or completed unless a lock lapsed, although capture and row are two transactions.
THEOREM ChargesMatch == BatchSpec => []ChargeMatchesJob
  <1>1. ChargeInv => ChargeMatchesJob
    BY DEF ChargeInv, ChargeShape
  <1> QED BY <1>1, InitialCharge, ChargeStep, PTL DEF BatchSpec

================================================================================
