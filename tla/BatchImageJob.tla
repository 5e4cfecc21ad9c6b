------------------------------ MODULE BatchImageJob ------------------------------
(***************************************************************************)
(* One batch image job and the credit held for it: Submit and Cancel of    *)
(* batch_image_public.go, the recovery of batch_image_billing_recovery.go, *)
(* and the workers of batch_image_worker.go, which run                     *)
(* batch_image_processor.go and batch_image_settlement.go on the jobs of   *)
(* the queue (batch_image_queue.go).  The row of the job is                *)
(* batch_image_repo.go, the hold what CreditLedger makes of it, here only  *)
(* its status.                                                             *)
(*                                                                         *)
(* A step is one statement or transaction, one script of the queue, or one *)
(* call of the provider; whatever a process has read stays in its record   *)
(* until it is used.  Left out: what is only shown (events, error codes,   *)
(* hiding a record), deleting inputs and outputs, errors of configuration  *)
(* (an unknown provider or account), keys of the queue that expire, and    *)
(* answers that are lost after the call took effect.                       *)
(***************************************************************************)
EXTENDS Integers, FiniteSets

CONSTANTS
    Requests,   \* calls of Cancel, and of Submit with the key of this job
    Workers,
    Nobody,     \* holds no lock
    MaxRetries, \* batchImageSettlementMaxRetries
    MaxFaults   \* bound on failing calls, deaths and lapses

ASSUME BatchAssumption == /\ Nobody \notin Workers
                          /\ MaxRetries \in Nat \ {0}
                          /\ MaxFaults \in Nat

VARIABLES
    job,     \* the row of batch_image_jobs
    hold,    \* status of its row of batch_image_credit_holds
    run,     \* the job of the provider
    queue, lock,
    submit,  \* where the call of Submit that creates the job is
    request, \* where the other calls are
    sweep,   \* where ReleaseStaleUnsubmittedOnce is
    worker,  \* where the workers are
    faults,
    trouble  \* faults nothing makes good: lost entries, lapsed locks

batchVars == <<job, hold, run, queue, lock, submit, request, sweep, worker, faults, trouble>>

Unsubmitted == {"created", "uploading"}
Released    == {"failed", "cancelled"} \* finished without a charge
Finished    == Released \cup {"completed"}
JobStatus   == {"none", "submitted", "running", "indexing", "settling"}
                 \cup Unsubmitted \cup Finished

\* isBatchImageProcessorDoneStatus
Done == Finished \cup {"settling"}

SubmitAt  == {"start", "created", "reserved", "items", "provider", "name", "abort", "enqueue",
              "release", "conflict", "record", "unreleased", "retry", "end"}
RequestAt == {"start", "cancel", "release", "retry", "enqueue", "end"}
WorkerAt  == {"idle", "reserved", "locked", "process", "poll", "index", "indexed", "release",
              "settle", "capture", "unsettled", "mark", "exhausted", "fail", "ack"}

BatchInit ==
    /\ job     = [status |-> "none", named |-> FALSE, \* provider_job_name is set
                  old |-> FALSE,                      \* not updated since the cutoff of sweep
                  retries |-> 0]
    /\ hold    = "none"
    /\ run     = [state |-> "none", asked |-> FALSE]  \* asked: to cancel
    /\ queue   = [ready |-> 0, delayed |-> FALSE, active |-> FALSE, inflight |-> FALSE]
    /\ lock    = Nobody
    /\ submit  = "start"
    /\ request = [r \in Requests |-> [at |-> "start", status |-> "none", named |-> FALSE]]
    /\ sweep   = "idle"
    /\ worker  = [w \in Workers |-> "idle"]
    /\ faults  = 0
    /\ trouble = {}

---------------------------------------------------------------------------
(* Calls, and how they fail. *)

NoFault == UNCHANGED <<faults, trouble>>

Counted == faults < MaxFaults /\ faults' = faults + 1

Fault == Counted /\ UNCHANGED trouble

Troubles(kind) == Counted /\ trouble' = trouble \cup {kind}

\* CanTransitionBatchImageJob
MayMove(from, to) ==
    /\ from \notin Finished
    /\ \/ to = "failed"
       \/ from = "created" /\ to = "uploading"
       \/ from \in Unsubmitted /\ to = "submitted"
       \/ from \in Unsubmitted \cup {"submitted", "running"} /\ to = "cancelled"
       \/ from \in {"submitted", "running"} /\ to \in {"running", "indexing"}
       \/ from = "indexing" /\ to = "settling"

\* Every update of the row moves updated_at.
Updated(status) == [job EXCEPT !.status = status, !.old = FALSE]

\* TransitionBatchImageJobStatus
Move(to)    == MayMove(job.status, to) /\ job' = Updated(to)
CannotMove(to) == ~MayMove(job.status, to) /\ UNCHANGED job

\* ReleaseBatchImageBalance; a release done before changes nothing.
Release ==
    /\ hold \in {"reserved", "released"}
    /\ hold' = "released"
    /\ NoFault

ReleaseFails ==
    /\ UNCHANGED hold
    /\ \/ hold \in {"none", "captured"} /\ NoFault
       \/ Fault

\* Enqueue, with the inflight key that keeps a queued job from being queued again
Enqueue ==
    /\ queue' = IF queue.inflight THEN queue
                ELSE [queue EXCEPT !.ready = @ + 1, !.inflight = TRUE]
    /\ NoFault

EnqueueOrLose == Enqueue \/ (UNCHANGED queue /\ Troubles("queue"))

---------------------------------------------------------------------------
(* Submit. *)

OthersOfSubmit == UNCHANGED <<lock, request, sweep, worker>>

CreateJob ==
    /\ submit = "start"
    /\ submit' = "created"
    /\ job' = Updated("created")
    /\ NoFault /\ OthersOfSubmit /\ UNCHANGED <<hold, run, queue>>

\* The balance may be too low.
ReserveHold ==
    /\ submit = "created"
    /\ \/ submit' = "reserved" /\ hold' = "reserved"
       \/ submit' = "record" /\ UNCHANGED hold
    /\ NoFault /\ OthersOfSubmit /\ UNCHANGED <<job, run, queue>>

CreateItems ==
    /\ submit = "reserved"
    /\ \/ submit' = "items" /\ NoFault
       \/ submit' = "release" /\ Fault
    /\ OthersOfSubmit /\ UNCHANGED <<job, hold, run, queue>>

BeginUpload ==
    /\ submit = "items"
    /\ \/ Move("uploading") /\ submit' = "provider" /\ NoFault
       \/ CannotMove("uploading") /\ submit' = "conflict" /\ NoFault
       \/ UNCHANGED job /\ submit' = "release" /\ Fault
    /\ OthersOfSubmit /\ UNCHANGED <<hold, run, queue>>

\* runSubmitHeartbeat: an update that fails is tried at the next tick.
Heartbeat ==
    /\ submit = "provider"
    /\ job.old /\ job.status \in Unsubmitted
    /\ job' = [job EXCEPT !.old = FALSE]
    /\ NoFault /\ OthersOfSubmit /\ UNCHANGED <<hold, run, queue, submit>>

ProviderSubmit ==
    /\ submit = "provider"
    /\ \/ submit' = "name" /\ run' = [run EXCEPT !.state = "live"]
       \/ submit' = "release" /\ UNCHANGED run
    /\ NoFault /\ OthersOfSubmit /\ UNCHANGED <<job, hold, queue>>

\* UpdateBatchImageJobProviderSubmit
NameRun ==
    /\ submit = "name"
    /\ \/ /\ MayMove(job.status, "submitted")
          /\ job' = [Updated("submitted") EXCEPT !.named = TRUE]
          /\ submit' = "enqueue"
          /\ NoFault
       \/ CannotMove("submitted") /\ submit' = "abort" /\ NoFault
       \/ UNCHANGED job /\ submit' = "abort" /\ Fault
    /\ OthersOfSubmit /\ UNCHANGED <<hold, run, queue>>

\* abortOrphanProviderJob
AbortRun ==
    /\ submit = "abort"
    /\ submit' = "end"
    /\ \/ run' = [run EXCEPT !.asked = TRUE] /\ NoFault
       \/ UNCHANGED run /\ Fault
    /\ OthersOfSubmit /\ UNCHANGED <<job, hold, queue>>

\* The job goes to the workers: to be watched, or to have its hold released.
EnqueueJob ==
    /\ submit \in {"enqueue", "retry"}
    /\ submit' = "end"
    /\ EnqueueOrLose
    /\ OthersOfSubmit /\ UNCHANGED <<job, hold, run>>

\* releaseFailedSubmitHold; after a conflict the status is left as it is.
ReleaseFailedSubmit ==
    /\ submit \in {"release", "conflict"}
    /\ \/ Release /\ submit' = IF submit = "release" THEN "record" ELSE "end"
       \/ ReleaseFails /\ submit' = "unreleased"
    /\ OthersOfSubmit /\ UNCHANGED <<job, run, queue>>

\* RecordBatchImageJobSubmitFailure, whatever the status is
RecordFailure ==
    /\ submit \in {"record", "unreleased"}
    /\ submit' = IF submit = "record" THEN "end" ELSE "retry"
    /\ \/ job' = Updated("failed") /\ NoFault
       \/ UNCHANGED job /\ Fault
    /\ OthersOfSubmit /\ UNCHANGED <<hold, run, queue>>

SubmitStep ==
    \/ ReserveHold \/ CreateItems \/ BeginUpload \/ ProviderSubmit \/ NameRun
    \/ AbortRun \/ EnqueueJob \/ ReleaseFailedSubmit \/ RecordFailure

---------------------------------------------------------------------------
(* Cancel, and Submit for a job that exists. *)

OthersOfRequest == UNCHANGED <<lock, submit, sweep, worker>>

Goes(r, at) == request' = [request EXCEPT ![r].at = at]

Reads(r, at) == request' = [request EXCEPT ![r] = [at |-> at, status |-> job.status,
                                                  named |-> job.named]]

ReadJob(r) ==
    /\ request[r].at = "start"
    /\ job.status # "none"
    /\ \/ Reads(r, "cancel")
       \/ Reads(r, IF job.status = "submitted" THEN "enqueue" ELSE "end")
    /\ NoFault /\ OthersOfRequest /\ UNCHANGED <<job, hold, run, queue>>

\* Cancel of a job that was finished, or settling
CancelFinished(r) ==
    /\ request[r].at = "cancel"
    /\ request[r].status \in Done
    /\ Goes(r, IF request[r].status \in Released THEN "release" ELSE "end")
    /\ NoFault /\ OthersOfRequest /\ UNCHANGED <<job, hold, run, queue>>

\* Cancel of a job the provider works on; one worker will see how it ends.
CancelRun(r) ==
    /\ request[r].at = "cancel"
    /\ request[r].status \notin Done /\ request[r].named
    /\ \/ run' = [run EXCEPT !.asked = TRUE] /\ Goes(r, "enqueue") /\ NoFault
       \/ UNCHANGED run /\ Goes(r, "end") /\ Fault
    /\ OthersOfRequest /\ UNCHANGED <<job, hold, queue>>

\* Cancel of a job that had not reached the provider
CancelUnsubmitted(r) ==
    /\ request[r].at = "cancel"
    /\ request[r].status \notin Done /\ ~request[r].named
    /\ \/ Move("cancelled") /\ Goes(r, "release") /\ NoFault
       \/ CannotMove("cancelled") /\ Goes(r, "end") /\ NoFault
       \/ UNCHANGED job /\ Goes(r, "end") /\ Fault
    /\ OthersOfRequest /\ UNCHANGED <<hold, run, queue>>

ReleaseCancelled(r) ==
    /\ request[r].at = "release"
    /\ \/ Release /\ Goes(r, "end")
       \/ ReleaseFails /\ Goes(r, "retry")
    /\ OthersOfRequest /\ UNCHANGED <<job, run, queue>>

EnqueueRequest(r) ==
    /\ request[r].at \in {"enqueue", "retry"}
    /\ Goes(r, "end")
    /\ EnqueueOrLose
    /\ OthersOfRequest /\ UNCHANGED <<job, hold, run>>

RequestStep(r) ==
    \/ CancelFinished(r) \/ CancelRun(r) \/ CancelUnsubmitted(r)
    \/ ReleaseCancelled(r) \/ EnqueueRequest(r)

---------------------------------------------------------------------------
(* ReleaseStaleUnsubmittedOnce. *)

OthersOfSweep == UNCHANGED <<lock, submit, request, worker>>

\* The job was not updated for long: Submit died, is slow, or cannot update it.
ListStale ==
    /\ sweep = "idle"
    /\ job.status \in Unsubmitted /\ ~job.named
    /\ sweep' = "listed"
    /\ job' = [job EXCEPT !.old = TRUE]
    /\ NoFault /\ OthersOfSweep /\ UNCHANGED <<hold, run, queue>>

\* Mutant: what the listing found is not looked at again.
FailListed ==
    /\ sweep = "listed"
    /\ sweep' = "release"
    /\ job' = Updated("failed")
    /\ NoFault /\ OthersOfSweep /\ UNCHANGED <<hold, run, queue>>

\* FailStaleUnsubmittedBatchImageJob
FailStale ==
    LET applies == job.status \in Unsubmitted /\ ~job.named /\ job.old IN
    /\ sweep = "listed"
    /\ \/ applies /\ job' = Updated("failed") /\ sweep' = "release" /\ NoFault
       \/ ~applies /\ UNCHANGED job /\ sweep' = "idle" /\ NoFault
       \/ UNCHANGED job /\ sweep' = "idle" /\ Fault
    /\ OthersOfSweep /\ UNCHANGED <<hold, run, queue>>

\* Mutant: a release that fails is forgotten.
ReleaseStaleOnce ==
    /\ sweep = "release"
    /\ Release \/ ReleaseFails
    /\ sweep' = "idle"
    /\ OthersOfSweep /\ UNCHANGED <<job, run, queue>>

ReleaseStale ==
    /\ sweep = "release"
    /\ \/ Release /\ sweep' = "idle"
       \/ ReleaseFails /\ sweep' = "retry"
    /\ OthersOfSweep /\ UNCHANGED <<job, run, queue>>

EnqueueStale ==
    /\ sweep = "retry"
    /\ sweep' = "idle"
    /\ EnqueueOrLose
    /\ OthersOfSweep /\ UNCHANGED <<job, hold, run>>

SweepStep == ListStale \/ FailStale \/ ReleaseStale \/ EnqueueStale

---------------------------------------------------------------------------
(* The queue and its workers. *)

OthersOfWorker == UNCHANGED <<submit, request, sweep>>

\* The worker goes on with the job.
Continue(w, at) == worker' = [worker EXCEPT ![w] = at] /\ UNCHANGED <<queue, lock>>

\* It leaves the job, and the lock if it still has it.
Leave(w) ==
    /\ worker' = [worker EXCEPT ![w] = "idle"]
    /\ lock' = IF lock = w THEN Nobody ELSE lock

\* RequeueAfter
Delay == queue' = [queue EXCEPT !.active = FALSE, !.delayed = TRUE]

Requeue(w) == Leave(w) /\ Delay

\* A call fails, and the job is tried again later.
GiveUp(w) == Requeue(w) /\ Fault /\ UNCHANGED <<job, hold, run>>

ReserveJob(w) ==
    /\ worker[w] = "idle" /\ queue.ready > 0
    /\ worker' = [worker EXCEPT ![w] = "reserved"]
    /\ queue' = [queue EXCEPT !.ready = @ - 1, !.active = TRUE]
    /\ NoFault /\ OthersOfWorker /\ UNCHANGED <<job, hold, run, lock>>

LockJob(w) ==
    /\ worker[w] = "reserved"
    /\ \/ /\ lock = Nobody /\ lock' = w
          /\ worker' = [worker EXCEPT ![w] = "locked"]
          /\ UNCHANGED queue
       \/ /\ lock # Nobody /\ UNCHANGED lock
          /\ worker' = [worker EXCEPT ![w] = "idle"]
          /\ Delay
    /\ NoFault /\ OthersOfWorker /\ UNCHANGED <<job, hold, run>>

\* BatchImagePipelineProcessor.Process
ChooseProcessor(w) ==
    /\ worker[w] = "locked"
    /\ Continue(w, IF job.status = "settling" THEN "settle" ELSE "process")
    /\ NoFault /\ OthersOfWorker /\ UNCHANGED <<job, hold, run>>

\* BatchImageProviderProcessor.Process reads the job once more.
ReadForProvider(w) ==
    /\ worker[w] = "process"
    /\ CASE job.status \in Released -> Continue(w, "release")
         [] job.status \in Done \ Released -> Continue(w, "ack")
         [] job.status \notin Done /\ ~job.named -> Requeue(w)
         [] OTHER -> Continue(w, IF job.status = "indexing" THEN "index" ELSE "poll")
    /\ NoFault /\ OthersOfWorker /\ UNCHANGED <<job, hold, run>>

\* What a provider answers when its job has ended does not change again, so that
\* the answer and the transition it leads to are one step.
Poll(w) ==
    LET Becomes(status, at) ==
          \/ Move(status) /\ Continue(w, at)
          \/ CannotMove(status) /\ Requeue(w)
    IN
    /\ worker[w] = "poll"
    /\ \/ /\ NoFault /\ UNCHANGED <<hold, run>>
          /\ \/ run.state = "live" /\ Requeue(w) /\ (Move("running") \/ UNCHANGED job)
             \/ run.state = "succeeded" /\ Becomes("indexing", "index")
             \/ run.state \in Released /\ Becomes(run.state, "release")
       \/ GiveUp(w)
    /\ OthersOfWorker

\* BatchImageResultIndexer.Index: the items of the job are replaced, or the output
\* is bad, which includes that reading it broke off.
IndexOutput(w) ==
    /\ worker[w] = "index"
    /\ \/ /\ NoFault /\ UNCHANGED <<hold, run>>
          /\ \/ job.status = "indexing" /\ Continue(w, "indexed") /\ UNCHANGED job
             \/ job.status # "indexing" /\ Requeue(w) /\ UNCHANGED job
             \/ Move("failed") /\ Continue(w, "release")
             \/ CannotMove("failed") /\ Requeue(w)
       \/ GiveUp(w)
    /\ OthersOfWorker

BeginSettling(w) ==
    /\ worker[w] = "indexed"
    /\ \/ /\ Move("settling") \/ CannotMove("settling")
          /\ Requeue(w) /\ NoFault /\ UNCHANGED <<hold, run>>
       \/ GiveUp(w)
    /\ OthersOfWorker

\* releaseTerminalHold
ReleaseFinished(w) ==
    /\ worker[w] = "release"
    /\ \/ Release /\ Continue(w, "ack")
       \/ ReleaseFails /\ Requeue(w)
    /\ OthersOfWorker /\ UNCHANGED <<job, run>>

\* Settle
ReadForSettlement(w) ==
    /\ worker[w] = "settle"
    /\ CASE job.status = "completed" -> Continue(w, "ack")
         [] job.status = "settling" ->
              Continue(w, IF job.retries >= MaxRetries THEN "exhausted" ELSE "capture")
         [] OTHER -> Requeue(w)
    /\ NoFault /\ OthersOfWorker /\ UNCHANGED <<job, hold, run>>

\* Mutant: a capture that is refused passes for one done before.
CaptureOrPass(w) ==
    /\ worker[w] = "capture"
    /\ \/ hold' = "captured" /\ hold = "reserved" /\ Continue(w, "mark") /\ NoFault
       \/ UNCHANGED hold /\ Continue(w, "mark") /\ NoFault
       \/ UNCHANGED hold /\ Continue(w, "unsettled") /\ Fault
    /\ OthersOfWorker /\ UNCHANGED <<job, run>>

\* The cost is checked and the hold captured; a cost that was captured once passes
\* the checks again, and the capture changes nothing.
CaptureHold(w) ==
    /\ worker[w] = "capture"
    /\ \/ /\ hold \in {"reserved", "captured"} /\ hold' = "captured"
          /\ Continue(w, "mark") /\ NoFault
       \/ /\ UNCHANGED hold /\ Continue(w, "unsettled")
          /\ \/ hold # "captured" /\ NoFault
             \/ Fault
    /\ OthersOfWorker /\ UNCHANGED <<job, run>>

\* recordSettlementFailure; past MaxRetries the count makes no difference.  When the
\* ledger refused the capture, Process looks whether the job has finished meanwhile.
RecordUnsettled(w) ==
    LET LeaveUnsettled == Requeue(w) \/ (job.status \in Finished /\ Continue(w, "ack")) IN
    /\ worker[w] = "unsettled"
    /\ \/ /\ job' = [job EXCEPT !.old = FALSE,
                                !.retries = IF @ < MaxRetries THEN @ + 1 ELSE @]
          /\ IF job'.retries = MaxRetries THEN Continue(w, "exhausted") ELSE LeaveUnsettled
          /\ NoFault
       \/ UNCHANGED job /\ LeaveUnsettled /\ Fault
    /\ OthersOfWorker /\ UNCHANGED <<hold, run>>

\* MarkBatchImageJobSettled
MarkSettled(w) ==
    /\ worker[w] = "mark"
    /\ \/ /\ \/ /\ job.status = "settling" /\ job' = Updated("completed")
                /\ Continue(w, "ack")
             \/ job.status # "settling" /\ UNCHANGED job /\ Requeue(w)
          /\ NoFault /\ UNCHANGED <<hold, run>>
       \/ GiveUp(w)
    /\ OthersOfWorker

\* failExhaustedSettlement gives the hold up ...
ReleaseUnsettled(w) ==
    /\ worker[w] = "exhausted"
    /\ \/ Release /\ Continue(w, "fail")
       \/ /\ ReleaseFails
          /\ IF job.status \in Finished THEN Continue(w, "ack") ELSE Requeue(w)
    /\ OthersOfWorker /\ UNCHANGED <<job, run>>

\* ... and then the job.
FailUnsettled(w) ==
    /\ worker[w] = "fail"
    /\ \/ /\ \/ Move("failed") /\ Continue(w, "ack")
             \/ CannotMove("failed") /\ Requeue(w)
          /\ NoFault /\ UNCHANGED <<hold, run>>
       \/ GiveUp(w)
    /\ OthersOfWorker

Ack(w) ==
    /\ worker[w] = "ack"
    /\ Leave(w)
    /\ queue' = [queue EXCEPT !.active = FALSE, !.delayed = FALSE, !.inflight = FALSE]
    /\ NoFault /\ OthersOfWorker /\ UNCHANGED <<job, hold, run>>

WorkerStep(w) ==
    \/ ReserveJob(w) \/ LockJob(w) \/ ChooseProcessor(w) \/ ReadForProvider(w) \/ Poll(w)
    \/ IndexOutput(w) \/ BeginSettling(w) \/ ReleaseFinished(w) \/ ReadForSettlement(w)
    \/ CaptureHold(w) \/ RecordUnsettled(w) \/ MarkSettled(w) \/ ReleaseUnsettled(w)
    \/ FailUnsettled(w) \/ Ack(w)

OthersOfQueue == UNCHANGED <<job, hold, run, submit, request, sweep, worker>>

MoveDueDelayed ==
    /\ queue.delayed
    /\ queue' = [queue EXCEPT !.delayed = FALSE, !.ready = @ + 1]
    /\ NoFault /\ OthersOfQueue /\ UNCHANGED lock

\* A worker that is alive keeps the job from going stale, if it is in time.
RecoverStaleActive ==
    /\ queue.active
    /\ queue' = [queue EXCEPT !.active = FALSE, !.ready = @ + 1]
    /\ IF \A w \in Workers : worker[w] = "idle" THEN NoFault ELSE Troubles("lapse")
    /\ OthersOfQueue /\ UNCHANGED lock

\* A worker that died leaves a lock of its name, and may have started again.
LockExpires ==
    /\ lock # Nobody
    /\ lock' = Nobody
    /\ IF worker[lock] \in {"idle", "reserved"} THEN NoFault ELSE Troubles("lapse")
    /\ OthersOfQueue /\ UNCHANGED queue

---------------------------------------------------------------------------
(* The provider, and deaths. *)

RunEnds ==
    /\ run.state = "live"
    /\ \E state \in {"succeeded"} \cup Released : run' = [run EXCEPT !.state = state]
    /\ NoFault
    /\ UNCHANGED <<job, hold, queue, lock, submit, request, sweep, worker>>

\* Submit, Cancel and the recovery leave what they began to nobody once the job is
\* past the reach of the recovery.
Abandoned == IF job.status \in Unsubmitted THEN Fault ELSE Troubles("death")

SubmitDies ==
    /\ submit \notin {"start", "end"}
    /\ submit' = "end"
    /\ Abandoned /\ OthersOfSubmit /\ UNCHANGED <<job, hold, run, queue>>

RequestDies(r) ==
    /\ request[r].at \notin {"start", "end"}
    /\ Goes(r, "end")
    /\ Abandoned /\ OthersOfRequest /\ UNCHANGED <<job, hold, run, queue>>

SweepDies ==
    /\ sweep # "idle"
    /\ sweep' = "idle"
    /\ Abandoned /\ OthersOfSweep /\ UNCHANGED <<job, hold, run, queue>>

\* Its lock and its entry in the active set stay.
WorkerDies(w) ==
    /\ worker[w] # "idle"
    /\ Continue(w, "idle")
    /\ Fault /\ OthersOfWorker /\ UNCHANGED <<job, hold, run>>

BatchNext ==
    \/ CreateJob \/ SubmitStep \/ Heartbeat \/ SubmitDies
    \/ \E r \in Requests : ReadJob(r) \/ RequestStep(r) \/ RequestDies(r)
    \/ SweepStep \/ SweepDies
    \/ \E w \in Workers : WorkerStep(w) \/ WorkerDies(w)
    \/ MoveDueDelayed \/ RecoverStaleActive \/ LockExpires
    \/ RunEnds

BatchSpec == BatchInit /\ [][BatchNext]_batchVars

(* Calls go on until they return, the loops of the workers, of the mover   *)
(* and of both recoveries run for ever, locks expire, and a provider ends  *)
(* its jobs.  Nobody has to call Submit or Cancel.                         *)
BatchFairness ==
    /\ WF_batchVars(SubmitStep)
    /\ WF_batchVars(SweepStep)
    /\ \A r \in Requests : WF_batchVars(RequestStep(r))
    /\ \A w \in Workers : WF_batchVars(WorkerStep(w))
    /\ WF_batchVars(MoveDueDelayed) /\ WF_batchVars(RecoverStaleActive)
    /\ WF_batchVars(LockExpires) /\ WF_batchVars(RunEnds)

FairBatchSpec == BatchSpec /\ BatchFairness

---------------------------------------------------------------------------
(* Properties. *)

\* The values the variables may have.
BatchTypeOK ==
    /\ job \in [status : JobStatus, named : BOOLEAN, old : BOOLEAN, retries : 0..MaxRetries]
    /\ hold \in {"none", "reserved", "captured", "released"}
    /\ run \in [state : {"none", "live", "succeeded"} \cup Released, asked : BOOLEAN]
    /\ queue \in [ready : Nat, delayed : BOOLEAN, active : BOOLEAN, inflight : BOOLEAN]
    /\ lock \in Workers \cup {Nobody}
    /\ submit \in SubmitAt
    /\ request \in [Requests -> [at : RequestAt, status : JobStatus, named : BOOLEAN]]
    /\ sweep \in {"idle", "listed", "release", "retry"}
    /\ worker \in [Workers -> WorkerAt]
    /\ faults \in 0..MaxFaults
    /\ trouble \subseteq {"queue", "lapse", "death"}

\* A job is completed only with its hold captured, and a job whose hold was captured
\* is completed or about to be, although the capture and the row of the job are two
\* transactions, either of which fails, and both are tried again.  The exception is
\* a worker whose lock lapsed: it may fail a job that another one has charged.
ChargeMatchesJob ==
    /\ job.status = "completed" => hold = "captured"
    /\ hold = "captured" => \/ job.status \in {"settling", "completed"}
                            \/ "lapse" \in trouble

\* The hold of a job that the provider works on is given up only when the user
\* cancelled the job: neither the recovery of jobs that were not submitted, however
\* slow Submit is, nor a worker leaves a run that nobody pays for.
UnpaidRunIsCancelled ==
    hold = "released" /\ job.named /\ run.state = "live" => job.status = "cancelled"

\* A finished job stays finished, and a completed one completed, whichever of Submit,
\* Cancel, the recovery and the workers still has an older status in hand.
FinishedIsFinal ==
    [][/\ job.status \in Finished => job'.status \in Finished
       /\ job.status = "completed" => job'.status = "completed"]_batchVars

\* Credit that is held is charged or given back in the end, also when a worker dies,
\* Submit dies before the provider has the job, and calls fail; only a lost entry of
\* the queue, a lapsed lock, or a death later on may leave it held.
EveryHoldEnds ==
    [](trouble = {}) => (hold = "reserved" ~> hold # "reserved")
================================================================================
