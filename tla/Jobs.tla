--------------------------------- MODULE Jobs ---------------------------------
(***************************************************************************)
(* Failed jobs (app/services/job_management.py), for one job: a JSON value *)
(* failed_job:{id} with its retry count, and the list jobs:retry_queue.    *)
(* A retry reads the job, sets it with a higher count, then pushes.        *)
(***************************************************************************)
EXTENDS Integers, FiniteSets

CONSTANTS
    JobCalls,       \* API calls that may overlap
    MaxRetries,     \* max_retries of the job
    MaxRecords,     \* bound: times the job is recorded as failed
    MaxCancels      \* bound: cancellations

ASSUME JobsAssumption ==
    /\ IsFiniteSet(JobCalls)
    /\ MaxRetries \in Nat \ {0} /\ MaxRecords \in Nat /\ MaxCancels \in Nat

JobStatuses == { "none", "failed", "retrying", "cancelled" }
NoJob == [status |-> "none", retries |-> 0, canRetry |-> FALSE]
JobIdle == [op |-> "idle", copy |-> NoJob]

VARIABLES
    job,            \* failed_job:{id}
    retryQueue,     \* entries for the job in jobs:retry_queue, ever
    jobCall,        \* the calls in flight
    records,        \* times it was recorded as failed
    cancels         \* bound

jobsVars == << job, retryQueue, jobCall, records, cancels >>

JobsInit ==
    /\ job = NoJob /\ retryQueue = 0
    /\ jobCall = [c \in JobCalls |-> JobIdle]
    /\ records = 0 /\ cancels = 0

JobGoes(c, w) == jobCall' = [jobCall EXCEPT ![c] = w]
-----------------------------------------------------------------------------
(* record_failed_job sets the job with the retries it is told. *)
RecordFailedJob(n) ==
    /\ records < MaxRecords /\ records' = records + 1
    /\ job' = [status |-> "failed", retries |-> n, canRetry |-> n < MaxRetries]
    /\ UNCHANGED << retryQueue, jobCall, cancels >>

\* Mutant: can_retry is compared with the count before this retry.
Retried_OneMore(j) ==
    [status |-> "retrying", retries |-> j.retries + 1, canRetry |-> j.retries <= MaxRetries]

Retried(j) ==
    [status |-> "retrying", retries |-> j.retries + 1, canRetry |-> j.retries + 1 < MaxRetries]

(* retry_job, also for each job retry_all_failed found: read and check, *)
ReadToRetry(c) ==
    /\ jobCall[c] = JobIdle /\ job.canRetry
    /\ JobGoes(c, [op |-> "retry", copy |-> Retried(job)])
    /\ UNCHANGED << job, retryQueue, records, cancels >>

(* set the copy, *)
SetRetrying(c) ==
    /\ jobCall[c].op = "retry"
    /\ job' = jobCall[c].copy
    /\ JobGoes(c, [op |-> "push", copy |-> NoJob])
    /\ UNCHANGED << retryQueue, records, cancels >>

(* and push; a push that fails is answered as failed, the count stays. *)
QueueRetry(c, ok) ==
    /\ jobCall[c].op = "push"
    /\ retryQueue' = IF ok THEN retryQueue + 1 ELSE retryQueue
    /\ JobGoes(c, JobIdle)
    /\ UNCHANGED << job, records, cancels >>

(* cancel_job: read, and set with can_retry off - which a retry in flight   *)
(* turns on again. *)
ReadToCancel(c) ==
    /\ jobCall[c] = JobIdle /\ job # NoJob /\ cancels < MaxCancels
    /\ cancels' = cancels + 1
    /\ JobGoes(c, [op |-> "cancel", copy |-> [job EXCEPT !.status = "cancelled", !.canRetry = FALSE]])
    /\ UNCHANGED << job, retryQueue, records >>

SetCancelledJob(c) ==
    /\ jobCall[c].op = "cancel"
    /\ job' = jobCall[c].copy
    /\ JobGoes(c, JobIdle)
    /\ UNCHANGED << retryQueue, records, cancels >>

JobsNext ==
    \/ \E n \in 0 .. MaxRetries : RecordFailedJob(n)
    \/ \E c \in JobCalls :
        \/ ReadToRetry(c) \/ SetRetrying(c)
        \/ \E ok \in BOOLEAN : QueueRetry(c, ok)
        \/ ReadToCancel(c) \/ SetCancelledJob(c)

JobDocs == [status : JobStatuses, retries : 0 .. MaxRetries, canRetry : BOOLEAN]

JobsTypeOK ==
    /\ job \in JobDocs /\ retryQueue \in Nat
    /\ jobCall \in [JobCalls -> [op : { "idle", "retry", "push", "cancel" }, copy : JobDocs]]
    /\ records \in 0 .. MaxRecords /\ cancels \in 0 .. MaxCancels

\* The numbers of calls with 1, 2, ... retries or more before them: all calls at
\* most, and ever fewer.  There are (n + m choose m) of these staircases, for n
\* calls and m as max_retries.
Staircases ==
    { f \in [1 .. MaxRetries -> 0 .. Cardinality(JobCalls)] :
        \A i, k \in 1 .. MaxRetries : i <= k => f[k] <= f[i] }

MostRetries == Cardinality(Staircases) - 1

(* max_retries is no bound on the retries when calls overlap: a call sets    *)
(* back the count that others have raised since it read it, and they retry   *)
(* again.  A job recorded once is queued (n + m choose m) - 1 times at most, *)
(* however the calls interleave with each other and with cancellations. *)
RetriesBounded == retryQueue <= records * MostRetries

JobsSpec == JobsInit /\ [][JobsNext]_jobsVars
=============================================================================
