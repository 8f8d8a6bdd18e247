--------------------------- MODULE BatchImageJobs ---------------------------
(***************************************************************************)
(* The table of batch image jobs (service/batch_image.go,                  *)
(* repository/batch_image_repo.go): the statuses, which may follow which,  *)
(* and the statements that change a row.  Each locks the row or is a       *)
(* single UPDATE, so each is one step.                                     *)
(***************************************************************************)
EXTENDS Integers

CONSTANTS
    Batches,        \* the jobs
    Costs,          \* what a job's successful images may cost
    MaxRetries      \* batchImageSettlementMaxRetries

ASSUME JobsAssumption == Costs \subseteq Nat /\ MaxRetries \in Nat \ {0}

VARIABLE
    job     \* per job: status; named: provider_job_name is set; hidden:
            \* user_deleted_at is set; cost of the indexed successes; failed
            \* settlements, counted up to MaxRetries

Unsubmitted == {"created", "uploading"}
Terminal    == {"completed", "failed", "cancelled"}
Statuses    == {"none", "submitted", "running", "indexing", "settling"} \union Unsubmitted \union Terminal

JobsTypeOK ==
    job \in [Batches -> [status: Statuses, named: BOOLEAN, hidden: BOOLEAN, cost: Costs \union {0},
                         retry: 0..MaxRetries]]

NoJob == [status |-> "none", named |-> FALSE, hidden |-> FALSE, cost |-> 0, retry |-> 0]
JobsInit == job = [b \in Batches |-> NoJob]

-----------------------------------------------------------------------------
(* CanTransitionBatchImageJob, without the deletion of outputs. *)
CanTransition(from, to) ==
    /\ from \notin Terminal \union {"none"}
    /\ \/ to = "failed"
       \/ <<from, to>> \in
            {<<"created", "uploading">>, <<"created", "submitted">>, <<"created", "cancelled">>,
             <<"uploading", "submitted">>, <<"uploading", "cancelled">>,
             <<"submitted", "running">>, <<"submitted", "indexing">>, <<"submitted", "cancelled">>,
             <<"running", "running">>, <<"running", "indexing">>, <<"running", "cancelled">>,
             <<"indexing", "settling">>, <<"settling", "completed">>}

Status(b) == job[b].status

CreateJob(b) == job' = [job EXCEPT ![b].status = "created"]

(* TransitionBatchImageJobStatus *)
TransitionOK(b, to) == CanTransition(Status(b), to)
Transition(b, to)   == job' = [job EXCEPT ![b].status = to]

(* UpdateBatchImageJobProviderSubmit *)
ProviderSubmit(b)   == job' = [job EXCEPT ![b].status = "submitted", ![b].named = TRUE]

(* RecordBatchImageJobSubmitFailure with markFailed writes the status      *)
(* whatever it is; hidePreUpstreamSubmitFailure then hides the job unless  *)
(* the submission had named it.                                            *)
SubmitFailure(b, hide) == job' = [job EXCEPT ![b].status = "failed", ![b].hidden = @ \/ hide]

(* Mutant of FailStale: a status the table does not have. *)
FailStaleExpired(b) == job' = [job EXCEPT ![b].status = "expired"]

(* FailStaleUnsubmittedBatchImageJob, apart from the age of the row *)
Unnamed(b)   == Status(b) \in Unsubmitted /\ ~job[b].named
FailStale(b) == job' = [job EXCEPT ![b].status = "failed"]

(* ReplaceBatchImageItemsForJob *)
ReplaceOK(b)       == Status(b) = "indexing"
ReplaceItems(b, c) == job' = [job EXCEPT ![b].cost = c]

(* MarkBatchImageJobSettled *)
MarkOK(b)      == Status(b) = "settling"
MarkSettled(b) == job' = [job EXCEPT ![b].status = "completed"]

(* isBatchImageSettlementRetryExhausted *)
Exhausted(b) == job[b].retry >= MaxRetries

(* SetBatchImageJobSettlementFailed; more than the limit is not counted. *)
SettlementFailed(b) == job' = [job EXCEPT ![b].retry = IF Exhausted(b) THEN @ ELSE @ + 1]

(* MarkBatchImageJobUserDeleted, by DeleteRecord *)
UserDelete(b) ==
    /\ Status(b) \in Terminal /\ ~job[b].hidden
    /\ job' = [job EXCEPT ![b].hidden = TRUE]

=============================================================================
