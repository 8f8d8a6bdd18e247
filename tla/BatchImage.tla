----------------------------- MODULE BatchImage -----------------------------
(***************************************************************************)
(* The life of batch image jobs and of the money held for them: Submit,    *)
(* Cancel and the retry of a submission (batch_image_public.go), the       *)
(* workers that poll the provider, index and settle                        *)
(* (batch_image_worker.go, _processor.go, _settlement.go), and the sweep   *)
(* that gives up submissions which never reached the provider              *)
(* (batch_image_billing_recovery.go).                                      *)
(***************************************************************************)
EXTENDS UsageBilling, BatchImageQueue

CONSTANTS
    MaxFaults,          \* bound: failing statements, lost answers, crashes, silent workers
    HeartbeatCost       \* bound: how many faults a worker that falls silent counts for

ASSUME FaultsAssumption == MaxFaults \in Nat /\ HeartbeatCost \in Nat \ {0} /\ Holders = Batches
ASSUME ProcessAssumption == Workers \intersect ({"submit", "cancel", "sweep"} \X Batches) = {}

VARIABLES
    pc,         \* next step of each process
    on,         \* the job each worker has reserved
    provider,   \* the provider's side of each job
    output,     \* what the successes in the provider's output cost
    silent,     \* workers whose heartbeats fail
    lapsed,     \* history: jobs whose lock lapsed while its worker lived
    faults

state == <<job, balance, frozen, dedup, archive, moved, ready, delayed, active, inflight, lock>>
vars  == <<job, balance, frozen, dedup, archive, moved, ready, delayed, active, inflight, lock,
           pc, on, provider, output, silent, lapsed, faults>>
hearts == <<silent, lapsed>>

Submitters == {"submit"} \X Batches
Cancellers == {"cancel"} \X Batches
Sweepers   == {"sweep"} \X Batches
Procs      == Submitters \union Cancellers \union Sweepers \union Workers

SubmitPcs == {"new", "reserve", "items", "upload", "submit", "name", "enqueue",
              "abort", "unfreeze", "unfreezeQuiet", "failed", "failedShown", "over"}
CancelPcs == {"idle", "transition", "cancelProvider", "refund", "retry"}
SweepPcs  == {"idle", "refund", "retry"}
WorkPcs   == {"idle", "lock", "pipeline", "process", "toRunning", "toIndexing", "index", "toSettling",
              "toFailed", "toCancelled", "refund", "settle", "capture", "mark", "record", "exhaust",
              "exhausted", "reread", "requeue", "ack"}

Finals == {"succeeded", "failed", "cancelled"}

TypeOK ==
    /\ JobsTypeOK /\ LedgerTypeOK /\ QueueTypeOK
    /\ pc \in [Procs -> SubmitPcs \union CancelPcs \union SweepPcs \union WorkPcs]
    /\ on \in [Workers -> Batches \union {Nil}]
    /\ provider \in [Batches -> {"none", "open"} \union Finals]
    /\ output \in [Batches -> Costs \union {0}]
    /\ silent \subseteq Workers /\ lapsed \subseteq Batches
    /\ faults \in 0..MaxFaults

Init ==
    /\ JobsInit /\ LedgerInit /\ QueueInit
    /\ pc = [p \in Procs |-> IF p \in Submitters THEN "new" ELSE "idle"]
    /\ on = [w \in Workers |-> Nil]
    /\ provider = [b \in Batches |-> "none"]
    /\ output = [b \in Batches |-> 0]
    /\ silent = {} /\ lapsed = {} /\ faults = 0

-----------------------------------------------------------------------------
(* Control.                                                                *)

At(p, l)   == pc[p] = l
Goto(p, l) == pc' = [pc EXCEPT ![p] = l]
Faults(n)  == faults + n <= MaxFaults /\ faults' = faults + n
Fault      == Faults(1)
Env        == UNCHANGED <<on, provider, output, silent, lapsed>>

(* How a call of p on the database or on Redis can end: answered, or with  *)
(* its answer lost, or without effect because of the operation's own       *)
(* condition or of a failure.                                              *)
Answered(p, yes, no) == (Goto(p, yes) /\ UNCHANGED faults) \/ (Goto(p, no) /\ Fault)

Refused(p, ok, no) ==
    /\ IF ok THEN Fault ELSE UNCHANGED faults
    /\ Goto(p, no) /\ Env /\ UNCHANGED state

JobCall(p, ok, effect, yes, no) ==
    \/ ok /\ effect /\ Answered(p, yes, no) /\ Env /\ UNCHANGED ledger /\ UNCHANGED queue
    \/ Refused(p, ok, no)

LedgerCall(p, ok, effect, yes, no) ==
    \/ ok /\ effect /\ Answered(p, yes, no) /\ Env /\ UNCHANGED job /\ UNCHANGED queue
    \/ Refused(p, ok, no)

EnqueueCall(p, b, next) ==
    \/ Enqueue(b) /\ Goto(p, next) /\ Env /\ UNCHANGED <<job, faults>> /\ UNCHANGED ledger
    \/ Refused(p, TRUE, next)

TransitionCall(p, b, to, yes, no) == JobCall(p, TransitionOK(b, to), Transition(b, to), yes, no)
ReleaseCall(p, b, yes, no)        == LedgerCall(p, ReleaseOK(b), Release(b), yes, no)

(* A step that only reads and decides. *)
Decide(p, l) == Goto(p, l) /\ Env /\ UNCHANGED <<state, faults>>

-----------------------------------------------------------------------------
(* Submit.                                                                 *)

SubmitCreate(b) ==
    LET p == <<"submit", b>> IN
    At(p, "new") /\ JobCall(p, TRUE, CreateJob(b), "reserve", "over")

SubmitReserve(b) ==
    LET p == <<"submit", b>> IN
    At(p, "reserve") /\ LedgerCall(p, ReserveOK(b), Reserve(b), "items", "failed")

SubmitItems(b) ==
    LET p == <<"submit", b>> IN
    /\ At(p, "items")
    /\ Decide(p, "upload") \/ Refused(p, TRUE, "unfreeze")

(* A job that was cancelled meanwhile keeps its status. *)
SubmitUpload(b) ==
    LET p == <<"submit", b>> IN
    /\ At(p, "upload")
    /\ \/ TransitionOK(b, "uploading") /\ TransitionCall(p, b, "uploading", "submit", "unfreeze")
       \/ ~TransitionOK(b, "uploading") /\ Decide(p, "unfreezeQuiet")

(* provider.Submit *)
SubmitProvider(b) ==
    LET p == <<"submit", b>> IN
    /\ At(p, "submit")
    /\ \/ provider' = [provider EXCEPT ![b] = "open"] /\ Goto(p, "name")
          /\ UNCHANGED <<state, on, output, faults>> /\ UNCHANGED hearts
       \/ Decide(p, "unfreeze")

SubmitName(b) ==
    LET p == <<"submit", b>> IN
    At(p, "name") /\ JobCall(p, TransitionOK(b, "submitted"), ProviderSubmit(b), "enqueue", "abort")

(* abortOrphanProviderJob *)
SubmitAbort(b) ==
    LET p == <<"submit", b>> IN
    /\ At(p, "abort")
    /\ \/ provider' = [provider EXCEPT ![b] = IF @ = "open" THEN "cancelled" ELSE @]
       \/ UNCHANGED provider
    /\ Goto(p, "over")
    /\ UNCHANGED <<state, on, output, faults>> /\ UNCHANGED hearts

SubmitEnqueue(b) ==
    LET p == <<"submit", b>> IN
    At(p, "enqueue") /\ EnqueueCall(p, b, "over")

(* releaseFailedSubmitHold *)
SubmitUnfreeze(b) ==
    LET p == <<"submit", b>> IN
    \/ At(p, "unfreeze") /\ ReleaseCall(p, b, "failed", "failedShown")
    \/ At(p, "unfreezeQuiet") /\ ReleaseCall(p, b, "over", "failedShown")

SubmitFail(b) ==
    LET p == <<"submit", b>> IN
    \/ At(p, "failed") /\ JobCall(p, TRUE, SubmitFailure(b, TRUE), "over", "over")
    \/ At(p, "failedShown") /\ JobCall(p, TRUE, SubmitFailure(b, FALSE), "enqueue", "enqueue")

(* Submit again with the same idempotency key. *)
Resubmit(b) ==
    /\ Status(b) = "submitted"
    /\ Enqueue(b)
    /\ Env /\ UNCHANGED <<job, pc, faults>> /\ UNCHANGED ledger

Submit(b) ==
    \/ SubmitCreate(b) \/ SubmitReserve(b) \/ SubmitItems(b) \/ SubmitUpload(b) \/ SubmitProvider(b)
    \/ SubmitName(b) \/ SubmitAbort(b) \/ SubmitEnqueue(b) \/ SubmitUnfreeze(b) \/ SubmitFail(b)

-----------------------------------------------------------------------------
(* Cancel and DeleteRecord.                                                *)

Cancel(b) ==
    LET p == <<"cancel", b>> IN
    /\ At(p, "idle")
    /\ Status(b) \notin {"none", "settling", "completed"} /\ ~job[b].hidden
    /\ Decide(p, IF Status(b) \in Terminal THEN "refund"
                 ELSE IF job[b].named THEN "cancelProvider" ELSE "transition")

(* Mutant of CancelTransition: the hold is left to the worker. *)
CancelUnpaid(b) ==
    LET p == <<"cancel", b>> IN
    At(p, "transition") /\ TransitionCall(p, b, "cancelled", "idle", "idle")

CancelTransition(b) ==
    LET p == <<"cancel", b>> IN
    At(p, "transition") /\ TransitionCall(p, b, "cancelled", "refund", "idle")

CancelRefund(b) ==
    LET p == <<"cancel", b>> IN
    At(p, "refund") /\ ReleaseCall(p, b, "idle", "retry")

CancelProvider(b) ==
    LET p == <<"cancel", b>> IN
    /\ At(p, "cancelProvider")
    /\ \/ provider' = [provider EXCEPT ![b] = IF @ = "open" THEN "cancelled" ELSE @]
          /\ Goto(p, "retry") /\ UNCHANGED <<state, on, output, faults>> /\ UNCHANGED hearts
       \/ Decide(p, "idle")

CancelEnqueue(b) ==
    LET p == <<"cancel", b>> IN
    At(p, "retry") /\ EnqueueCall(p, b, "idle")

DeleteRecord(b) ==
    /\ UserDelete(b)
    /\ Env /\ UNCHANGED <<pc, faults>> /\ UNCHANGED ledger /\ UNCHANGED queue

-----------------------------------------------------------------------------
(* ReleaseStaleUnsubmittedOnce, for one job.  updated_at grows old only    *)
(* once the submission is over: it is renewed while the provider is called.*)

SweepFail(b) ==
    LET p == <<"sweep", b>> IN
    /\ At(p, "idle") /\ At(<<"submit", b>>, "over") /\ Unnamed(b)
    /\ JobCall(p, TRUE, FailStale(b), "refund", "idle")

SweepRefund(b) ==
    LET p == <<"sweep", b>> IN
    At(p, "refund") /\ ReleaseCall(p, b, "idle", "retry")

SweepEnqueue(b) ==
    LET p == <<"sweep", b>> IN
    At(p, "retry") /\ EnqueueCall(p, b, "idle")

Sweep(b) == SweepFail(b) \/ SweepRefund(b) \/ SweepEnqueue(b)

-----------------------------------------------------------------------------
(* The worker: RunOnce.                                                    *)

WorkReserve(w, b) ==
    /\ At(w, "idle")
    /\ ReserveNext(b)
    /\ \/ Goto(w, "lock") /\ on' = [on EXCEPT ![w] = b] /\ UNCHANGED faults
       \/ UNCHANGED <<pc, on>> /\ Fault
    /\ UNCHANGED <<job, provider, output>> /\ UNCHANGED hearts /\ UNCHANGED ledger

WorkLock(w) ==
    /\ At(w, "lock")
    /\ \/ TryAcquireJobLock(w, on[w]) /\ Goto(w, "pipeline")
          /\ Env /\ UNCHANGED <<job, faults>> /\ UNCHANGED ledger
       \/ Refused(w, lock[on[w]] = Nil, "requeue")

(* BatchImagePipelineProcessor.Process *)
WorkPipeline(w) ==
    /\ At(w, "pipeline")
    /\ \/ Decide(w, IF Status(on[w]) = "settling" THEN "settle" ELSE "process")
       \/ Refused(w, TRUE, "requeue")

(* BatchImageProviderProcessor.Process *)
ProviderAnswer(b) ==
    CASE provider[b] = "succeeded" -> {"toIndexing"}
      [] provider[b] = "failed"    -> {"toFailed"}
      [] provider[b] = "cancelled" -> {"toCancelled"}
      [] OTHER -> {"requeue", IF Status(b) = "running" THEN "requeue" ELSE "toRunning"}

WorkProcess(w) ==
    LET b == on[w] IN
    /\ At(w, "process")
    /\ \/ Status(b) \in {"failed", "cancelled"} /\ Decide(w, "refund")
       \/ Status(b) \in {"completed", "settling"} /\ Decide(w, "ack")
       \/ Status(b) \notin Terminal \union {"settling"} /\ ~job[b].named /\ Decide(w, "requeue")
       \/ Status(b) = "indexing" /\ Decide(w, "index")
       \/ /\ Status(b) \in {"submitted", "running"}
          /\ (\E l \in ProviderAnswer(b) : Decide(w, l)) \/ Refused(w, TRUE, "requeue")

WorkTransition(w) ==
    LET b == on[w] IN
    \/ At(w, "toRunning") /\ TransitionCall(w, b, "running", "requeue", "requeue")
    \/ At(w, "toIndexing") /\ TransitionCall(w, b, "indexing", "index", "requeue")
    \/ At(w, "toSettling") /\ TransitionCall(w, b, "settling", "requeue", "requeue")
    \/ At(w, "toFailed") /\ TransitionCall(w, b, "failed", "refund", "requeue")
    \/ At(w, "toCancelled") /\ TransitionCall(w, b, "cancelled", "refund", "requeue")

(* indexAndSettle: an output that cannot be read fails the job; one that   *)
(* is missing is tried again.                                              *)
WorkIndex(w) ==
    LET b == on[w] IN
    /\ At(w, "index")
    /\ \/ ReplaceOK(b) /\ ReplaceItems(b, output[b]) /\ Answered(w, "toSettling", "toFailed")
          /\ Env /\ UNCHANGED ledger /\ UNCHANGED queue
       \/ Decide(w, "toFailed")
       \/ Refused(w, ReplaceOK(b), "requeue")

(* Mutant of WorkRefund: a failed release is acknowledged. *)
WorkRefundOnce(w) == At(w, "refund") /\ ReleaseCall(w, on[w], "ack", "ack")

(* releaseTerminalHold *)
WorkRefund(w) == At(w, "refund") /\ ReleaseCall(w, on[w], "ack", "requeue")

(* Settle *)
WorkSettle(w) ==
    LET b == on[w] IN
    /\ At(w, "settle")
    /\ Decide(w, CASE Status(b) = "completed" -> "ack"
                   [] Status(b) \notin {"completed", "settling"} -> "requeue"
                   [] Status(b) = "settling" /\ Exhausted(b) -> "exhaust"
                   [] OTHER -> IF job[b].cost > Hold THEN "record" ELSE "capture")

WorkCapture(w) ==
    LET b == on[w] IN
    At(w, "capture") /\ LedgerCall(w, CaptureOK(b, job[b].cost), Capture(b, job[b].cost), "mark", "record")

WorkMark(w) ==
    At(w, "mark") /\ JobCall(w, MarkOK(on[w]), MarkSettled(on[w]), "ack", "requeue")

(* Mutant of WorkRecord: the last try is not made. *)
WorkRecordEarly(w) ==
    /\ At(w, "record")
    /\ JobCall(w, TRUE, SettlementFailed(on[w]), "exhaust", "reread")

(* recordSettlementFailure *)
WorkRecord(w) ==
    LET b == on[w] IN
    /\ At(w, "record")
    /\ JobCall(w, TRUE, SettlementFailed(b),
               IF job[b].retry + 1 >= MaxRetries THEN "exhaust" ELSE "reread", "reread")

(* failExhaustedSettlement; the failure it records when the release fails  *)
(* counts past the limit.                                                  *)
WorkExhaust(w) ==
    \/ At(w, "exhaust") /\ ReleaseCall(w, on[w], "exhausted", "reread")
    \/ At(w, "exhausted") /\ TransitionCall(w, on[w], "failed", "reread", "requeue")

WorkReread(w) ==
    At(w, "reread") /\ Decide(w, IF Status(on[w]) \in Terminal THEN "ack" ELSE "requeue")

(* The end of RunOnce; when Redis fails, the job stays active and locked   *)
(* until both lapse.                                                       *)
WorkEnd(w) ==
    /\ \/ At(w, "requeue") /\ RequeueAfter(w, on[w]) /\ UNCHANGED faults
       \/ At(w, "ack") /\ Ack(w, on[w]) /\ UNCHANGED faults
       \/ pc[w] \in {"requeue", "ack"} /\ UNCHANGED queue /\ Fault
    /\ Goto(w, "idle") /\ on' = [on EXCEPT ![w] = Nil] /\ silent' = silent \ {w}
    /\ UNCHANGED <<job, provider, output, lapsed>> /\ UNCHANGED ledger

Work(w) ==
    \/ \E b \in Batches : WorkReserve(w, b)
    \/ WorkLock(w) \/ WorkPipeline(w) \/ WorkProcess(w) \/ WorkTransition(w) \/ WorkIndex(w)
    \/ WorkRefund(w) \/ WorkSettle(w) \/ WorkCapture(w) \/ WorkMark(w) \/ WorkRecord(w)
    \/ WorkExhaust(w) \/ WorkReread(w) \/ WorkEnd(w)

-----------------------------------------------------------------------------
(* The runtime's other loops.  One ticker renews a worker's place in the   *)
(* active set and its lock, and only logs what fails (runJobHeartbeat): a  *)
(* worker whose heartbeats fail can lose both, and goes on.                *)

MoveDue(b) ==
    MoveDueDelayedToReady(b) /\ Env /\ UNCHANGED <<job, pc, faults>> /\ UNCHANGED ledger

HeartbeatsFail(w) ==
    /\ on[w] # Nil /\ w \notin silent
    /\ silent' = silent \union {w} /\ Faults(HeartbeatCost)
    /\ UNCHANGED <<state, pc, on, provider, output, lapsed>>

RecoverActive(b) ==
    /\ \A w \in Workers \ silent : on[w] # b
    /\ RecoverStaleActive(b) /\ Env /\ UNCHANGED <<job, pc, faults>> /\ UNCHANGED ledger

(* The worker that holds the job's lock and lives. *)
Holding(w, b) == on[w] = b /\ lock[b] = w

LockLapses(b) ==
    /\ \A w \in Workers \ silent : ~Holding(w, b)
    /\ LockExpires(b)
    /\ lapsed' = IF \E w \in silent : Holding(w, b) THEN lapsed \union {b} ELSE lapsed
    /\ UNCHANGED <<job, pc, on, provider, output, silent, faults>> /\ UNCHANGED ledger

(* The process, or only the request, ends at any point. *)
Crash(p) ==
    /\ pc[p] \notin {"new", "idle", "over"}
    /\ Goto(p, IF p \in Submitters THEN "over" ELSE "idle")
    /\ on' = IF p \in Workers THEN [on EXCEPT ![p] = Nil] ELSE on
    /\ silent' = silent \ {p}
    /\ Fault /\ UNCHANGED <<state, provider, output, lapsed>>

(* The provider's batch job ends. *)
ProviderEnds(b) ==
    /\ provider[b] = "open"
    /\ \/ provider' = [provider EXCEPT ![b] = "succeeded"] /\ \E c \in Costs : output' = [output EXCEPT ![b] = c]
       \/ provider' = [provider EXCEPT ![b] = "failed"] /\ UNCHANGED output
    /\ UNCHANGED <<state, pc, on, faults>> /\ UNCHANGED hearts

ArchiveDedup == Cleanup /\ Env /\ UNCHANGED <<job, pc, faults>> /\ UNCHANGED queue

JobNext(b) ==
    \/ Submit(b) \/ Resubmit(b)
    \/ Cancel(b) \/ CancelTransition(b) \/ CancelRefund(b) \/ CancelProvider(b) \/ CancelEnqueue(b)
    \/ DeleteRecord(b)
    \/ Sweep(b)
    \/ MoveDue(b) \/ RecoverActive(b) \/ LockLapses(b) \/ ProviderEnds(b)

Next ==
    \/ \E b \in Batches : JobNext(b)
    \/ \E w \in Workers : Work(w) \/ HeartbeatsFail(w)
    \/ \E p \in Procs : Crash(p)
    \/ ArchiveDedup

(* Fairness: the worker loops, the mover, both recovery loops and expiring *)
(* locks go on, and the provider's batch jobs end.  Nothing is assumed of  *)
(* the clients' requests, nor that heartbeats ever fail.                   *)
Fairness ==
    /\ \A w \in Workers : WF_vars(Work(w))
    /\ \A b \in Batches :
         /\ WF_vars(MoveDue(b)) /\ WF_vars(RecoverActive(b)) /\ WF_vars(LockLapses(b))
         /\ WF_vars(Sweep(b)) /\ WF_vars(ProviderEnds(b))

Spec == Init /\ [][Next]_vars /\ Fairness

-----------------------------------------------------------------------------
Held(b)     == moved[<<"hold", b>>] > 0
Captured(b) == moved[<<"capture", b>>] > 0
Returned(b) == moved[<<"release", b>>] > 0
Open(b)     == Held(b) /\ ~Captured(b) /\ ~Returned(b)

(* Every billing request moves money at most once, whoever repeats it and  *)
(* whether its row is still in the table or archived                       *)
(* (claimUsageBillingRequest, CleanupUsageBillingDedup).                   *)
MovedOnce == \A r \in Requests : moved[r] <= 1

(* Capture and release take from the pool without looking whose money it   *)
(* is; only the order of the job's life makes it the job's own: what is    *)
(* captured or returned was frozen for this job, and a completed job has   *)
(* paid (captureUsageBillingBatchImageBalance, Settle).                    *)
OwnMoneyOnly ==
    \A b \in Batches :
      /\ Captured(b) \/ Returned(b) => Held(b)
      /\ Status(b) = "completed" => Captured(b)

(* A hold is captured or returned, not both, whatever cancels, crashes and *)
(* retries overlap.  There are two ways to both: a settlement that ran out *)
(* of retries returns the hold without asking whether an earlier try       *)
(* captured it (failExhaustedSettlement), and a worker that lost the job's *)
(* lock may fail the job that its successor has captured and not yet       *)
(* completed (CanTransitionBatchImageJob lets settling become failed).     *)
SettledOneWay ==
    \A b \in Batches : Captured(b) /\ Returned(b) => Exhausted(b) \/ b \in lapsed

(* A job whose in-flight key blocks every new Enqueue is somewhere in the  *)
(* queue, whichever workers died, stalled or were taken for dead: the key  *)
(* never outlives the job's last place (the queue's scripts, RunOnce).     *)
NeverLost ==
    \A b \in inflight : ready[b] > 0 \/ b \in delayed \/ b \in active

(* A job that another worker has moved on to its settlement is not failed  *)
(* by a worker that still indexes it: settling ends in failed only when    *)
(* the retries are used up (indexAndSettle).  Only the conflict that the   *)
(* item table reports is taken for it; any other error of the indexing     *)
(* writes failed, whatever the status is by then.                          *)
SettlingIsNotFailed ==
    [][\A b \in Batches : Status(b) = "settling" /\ Status(b)' = "failed" => Exhausted(b)]_vars

(* Two workers whose heartbeats arrive never process the same job, whoever *)
(* crashed, stalled or was taken for dead before, and however often the    *)
(* job was handed out (TryAcquireJobLock, runJobHeartbeat).                *)
OneWorkerPerJob ==
    \A w, v \in Workers \ silent :
      w # v /\ on[w] # Nil /\ on[w] = on[v] => pc[w] \in {"lock", "requeue"} \/ pc[v] \in {"lock", "requeue"}

Quiet(b) ==
    /\ b \notin inflight
    /\ At(<<"submit", b>>, "over") /\ At(<<"cancel", b>>, "idle") /\ At(<<"sweep", b>>, "idle")

(* Where nothing failed, a job that ended without completing has its money *)
(* back, or the release was used up before the money was frozen (Cancel    *)
(* between CreateBatchImageJob and the reservation).                       *)
EndedJobIsReturned ==
    \A b \in Batches :
      /\ faults = 0 /\ Quiet(b) /\ Status(b) \in {"failed", "cancelled"} /\ Open(b)
      => Claimed(<<"release", b>>)

(* Money held for a job that is in the queue is captured or returned,      *)
(* whichever worker dies on the way (RunOnce, RecoverStaleActive), unless  *)
(* the release was used up before the money was frozen, or a worker that   *)
(* lost the job's lock had its successor acknowledge what it left undone.  *)
QueuedHoldIsSettled ==
    \A b \in Batches : b \in inflight ~> (~Open(b) \/ Claimed(<<"release", b>>) \/ b \in lapsed)

=============================================================================
