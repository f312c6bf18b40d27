------------------------------- MODULE Recovery -------------------------------
(***************************************************************************)
(* Traces of pipeline runs (app/observability/pipeline_trace.py) and their *)
(* recovery (app/observability/recovery.py, the beat task                  *)
(* auto_recover_failed_pipelines), for one lead.  A trace is a JSON value  *)
(* that each record reads, changes and sets.  What a task does to the lead *)
(* is one action here: it happens under the row lock (module LeadWorkers). *)
(***************************************************************************)
EXTENDS Integers, Sequences, FiniteSets, SequencesExt

CONSTANTS
    Procs,          \* Celery workers with pipeline tasks
    Beats,          \* deliveries of the beat task that may overlap
    FirstStatus,    \* where the lead stands, its step in the queue
    MaxPerRun,      \* max_retries_per_run
    MaxRuns,        \* bound: pipeline run ids
    MaxFailures,    \* bound: steps that fail
    MaxRequests     \* bound: calls of the retry endpoints

Runs == 1 .. MaxRuns
Steps == { "enrich", "score", "qualify", "outreach", "followup_1" }

(* PIPELINE_STEPS: what a step depends on.  The later steps write no trace *)
(* and follow no traced step, so no recovery comes to them. *)
DependsOn ==
    [enrich |-> {}, score |-> {"enrich"}, qualify |-> {"score"},
     outreach |-> {"qualify"}, followup_1 |-> {"outreach"}]

(* The status a task wants, the one it leaves, and the task it publishes.  *)
Wants == [enrich |-> "LEAD_FOUND", score |-> "ENRICHED", qualify |-> "SCORED",
          outreach |-> "EMAIL_READY", followup_1 |-> "OUTREACH_SENT"]
Leaves == [enrich |-> "ENRICHED", score |-> "SCORED", qualify |-> "EMAIL_READY",
           outreach |-> "OUTREACH_SENT", followup_1 |-> "IN_SEQUENCE"]
Follows == [enrich |-> {"score"}, score |-> {"qualify"}, qualify |-> {"outreach"},
            outreach |-> {"followup_1"}, followup_1 |-> {}]
Statuses == { Wants[s] : s \in Steps } \cup { "IN_SEQUENCE" }
Active == { "LEAD_FOUND", "ENRICHED", "SCORED", "EMAIL_READY" }

ASSUME RecoveryAssumption ==
    /\ FirstStatus \in Statuses
    /\ IsFiniteSet(Beats) /\ Beats # {}
    /\ MaxPerRun \in Nat /\ MaxRuns \in Nat \ {0}
    /\ MaxFailures \in Nat /\ MaxRequests \in Nat

(* A trace: its status and its entries; NoTrace while the key is not there. *)
Records == { "started", "success", "error", "locked", "skipped" }
NoTrace == [status |-> "none", entries |-> << >>]
NewTrace == [status |-> "running", entries |-> << >>]

Message == [step : Steps, run : Runs]
Idle == [stage |-> "idle", step |-> "enrich", run |-> 1, record |-> "started", doc |-> NoTrace]
AtRest == [stage |-> "idle", run |-> 1]

VARIABLES
    status,         \* the committed status of the lead
    tasks,          \* messages of the broker
    stepKeys,       \* pipeline:{lead}:{step}:{run}
    trace,          \* trace:{lead}:{run}
    listed,         \* trace_runs:{lead}
    proc,           \* the workers
    beat,           \* the deliveries of the beat task
    recoveries,     \* auto_recovery_count:{lead}:{run}
    runs,           \* run ids handed out
    started,        \* history: automatic recoveries of each run,
    uncounted,      \* and those whose count could not be incremented
    touched, torn,  \* history: first touches, those whose commit failed
    followed,       \* history: the first followup had its turn
    early,          \* history: a step was started before the one it depends on succeeded
    dropped,        \* history: a first touch was committed, its followup not published
    failures, requests   \* bounds

traceVars == << trace, listed >>
beatVars == << beat, recoveries, started, uncounted >>
historyVars == << touched, torn, followed, early, dropped >>
recoveryVars == << status, tasks, stepKeys, traceVars, proc, beatVars, runs, historyVars,
                   failures, requests >>

RecoveryInit ==
    /\ status = FirstStatus
    /\ tasks = { [step |-> s, run |-> 1] : s \in { x \in Steps : Wants[x] = FirstStatus } }
    /\ stepKeys = {}
    /\ trace = [r \in Runs |-> NoTrace]
    /\ listed = {}
    /\ proc = [p \in Procs |-> Idle]
    /\ beat = [b \in Beats |-> AtRest]
    /\ recoveries = [r \in Runs |-> 0]
    /\ runs = 1
    /\ started = [r \in Runs |-> 0] /\ uncounted = [r \in Runs |-> 0]
    /\ touched = 0 /\ torn = 0 /\ followed = FALSE /\ early = FALSE /\ dropped = FALSE
    /\ failures = 0 /\ requests = 0

Sets(p, w) == proc' = [proc EXCEPT ![p] = w]
-----------------------------------------------------------------------------
(* Traces: GET, then SET of the changed copy. *)

(* The last STARTED entry of the step becomes what it ended as; without one *)
(* an error is appended and a success forgotten; skips are always appended. *)
Ended(entries, s, record) ==
    LET open == { i \in DOMAIN entries : entries[i] = [step |-> s, is |-> "started"] }
        entry == [step |-> s, is |-> record]
    IN  IF open # {} THEN [entries EXCEPT ![CHOOSE i \in open : \A j \in open : j <= i] = entry]
        ELSE IF record = "error" THEN Append(entries, entry) ELSE entries

\* Mutant: a skipped step closes its entry as a success.
Recorded_SkipSucceeds(doc, s, record) ==
    LET old == IF doc = NoTrace THEN NewTrace ELSE doc
    IN  CASE record = "started" ->
                [old EXCEPT !.entries = Append(@, [step |-> s, is |-> record])]
          [] record = "error" -> [status |-> "failed", entries |-> Ended(old.entries, s, record)]
          [] OTHER -> [old EXCEPT !.entries = Ended(@, s, "success")]

Recorded(doc, s, record) ==
    LET old == IF doc = NoTrace THEN NewTrace ELSE doc
        entry == [step |-> s, is |-> record]
    IN  CASE record \in { "started", "locked", "skipped" } ->
                [old EXCEPT !.entries = Append(@, entry)]
          [] record = "success" ->
                IF doc = NoTrace THEN NoTrace
                ELSE [old EXCEPT !.entries = Ended(@, s, record)]
          [] record = "error" ->
                [status |-> "failed", entries |-> Ended(old.entries, s, record)]

GetTrace(p) ==
    /\ proc[p].stage = "get"
    /\ Sets(p, [proc[p] EXCEPT !.stage = "set", !.doc = trace[proc[p].run]])
    /\ UNCHANGED << status, tasks, stepKeys, traceVars, beatVars, runs, historyVars, failures, requests >>

(* Where the task goes on once its record is written: an error that was an  *)
(* exception is retried by Celery with the same arguments; a success of a   *)
(* discovery step is published, that of an outreach has been.               *)
SetTrace(p) ==
    LET w == proc[p]
    IN  /\ w.stage = "set"
        /\ trace' = [trace EXCEPT ![w.run] = Recorded(w.doc, w.step, w.record)]
        /\ listed' = IF w.doc = NoTrace /\ w.record = "started" THEN listed \cup {w.run} ELSE listed
        /\ \/ w.record = "started" /\ Sets(p, [w EXCEPT !.stage = "run", !.doc = NoTrace])
              /\ UNCHANGED tasks
           \/ w.record = "success" /\ w.step # "outreach" /\ UNCHANGED tasks
              /\ Sets(p, [w EXCEPT !.stage = "publish", !.doc = NoTrace])
           \/ w.record = "success" /\ w.step = "outreach" /\ Sets(p, Idle) /\ UNCHANGED tasks
           \/ w.record \in { "error", "locked", "skipped" } /\ Sets(p, Idle) /\ UNCHANGED tasks
           \/ w.record = "error" /\ Sets(p, Idle)
              /\ tasks' = tasks \cup { [step |-> w.step, run |-> w.run] }
        /\ UNCHANGED << status, stepKeys, beatVars, runs, historyVars, failures, requests >>
-----------------------------------------------------------------------------
(* A worker takes a message and sets the key of the step; a step whose key  *)
(* is there is recorded as skipped.  Followups write no trace.              *)
TakeStep(p, m) ==
    LET done == << m.step, m.run >> \in stepKeys
        traced == m.step # "followup_1"
        next == IF traced THEN "get" ELSE IF done THEN "idle" ELSE "run"
    IN  /\ proc[p].stage = "idle" /\ m \in tasks
        /\ tasks' = tasks \ {m}
        /\ stepKeys' = stepKeys \cup { << m.step, m.run >> }
        /\ Sets(p, IF next = "idle" THEN Idle
                   ELSE [stage |-> next, step |-> m.step, run |-> m.run, doc |-> NoTrace,
                         record |-> IF done THEN "skipped" ELSE "started"])
        /\ UNCHANGED << status, traceVars, beatVars, runs, historyVars, failures, requests >>

(* A step ends; followups neither record nor are they retried to effect.    *)
(* Outreach steps publish before they record their success.                 *)
PublishesFirst == { "outreach", "followup_1" }
Ends(p, record) ==
    Sets(p, IF record = "success" /\ proc[p].step \in PublishesFirst
            THEN [proc[p] EXCEPT !.stage = "publish", !.record = record]
            ELSE IF proc[p].step = "followup_1" THEN Idle
            ELSE [proc[p] EXCEPT !.stage = "get", !.record = record])

\* Mutant: the status of the lead is not compared.
RunStep_AnyStatus(p) ==
    LET s == proc[p].step
    IN  /\ proc[p].stage = "run"
        /\ status' = Leaves[s]
        /\ touched' = IF s = "outreach" THEN touched + 1 ELSE touched
        /\ Ends(p, "success")
        /\ UNCHANGED << tasks, stepKeys, traceVars, beatVars, runs, torn, followed, early, dropped, failures, requests >>

(* The step on the locked row: wrong status, done, or failed - outreach also *)
(* after its mail, whose transaction is rolled back.                         *)
RunStep(p) ==
    LET s == proc[p].step
    IN  /\ proc[p].stage = "run"
        /\ followed' = (followed \/ (s = "followup_1" /\ status = Wants[s]))
        /\ \/ /\ status # Wants[s]
              /\ Ends(p, "skipped")
              /\ UNCHANGED << status, touched, torn, failures >>
           \/ /\ status = Wants[s]
              /\ status' = Leaves[s]
              /\ touched' = IF s = "outreach" THEN touched + 1 ELSE touched
              /\ Ends(p, "success")
              /\ UNCHANGED << torn, failures >>
           \/ /\ status = Wants[s] /\ failures < MaxFailures
              /\ \E n \in IF s = "outreach" THEN { 0, 1 } ELSE { 0 } :
                    touched' = touched + n /\ torn' = torn + n
              /\ failures' = failures + 1
              /\ Ends(p, "error")
              /\ UNCHANGED status
        /\ UNCHANGED << tasks, stepKeys, traceVars, beatVars, runs, early, dropped, requests >>

(* Another worker holds the lock of the step for longer than the attempts. *)
LockNotAcquired(p) ==
    /\ proc[p].stage = "run"
    /\ \E q \in Procs \ {p} : proc[q].stage # "idle" /\ proc[q].step = proc[p].step
    /\ Ends(p, "locked")
    /\ UNCHANGED << status, tasks, stepKeys, traceVars, beatVars, runs, historyVars, failures, requests >>

(* The next task is published; an outreach then records its success.       *)
Published(p) == Sets(p, IF proc[p].step = "outreach" THEN [proc[p] EXCEPT !.stage = "get"] ELSE Idle)

\* Mutant: the next task is not published.
PublishNext_Forgotten(p) ==
    /\ proc[p].stage = "publish"
    /\ Published(p)
    /\ UNCHANGED << status, tasks, stepKeys, traceVars, beatVars, runs, historyVars, failures, requests >>

PublishNext(p) ==
    /\ proc[p].stage = "publish"
    /\ tasks' = tasks \cup { [step |-> s, run |-> proc[p].run] : s \in Follows[proc[p].step] }
    /\ Published(p)
    /\ UNCHANGED << status, stepKeys, traceVars, beatVars, runs, historyVars, failures, requests >>

(* After the commit, before it has published and recorded its success, a    *)
(* step fails - the exception is recorded as an error - or its worker is    *)
(* lost and the message delivered again; either way its step key is set.    *)
CommittedStepFails(p) ==
    LET w == proc[p]
    IN  /\ w.stage = "publish" \/ (w.stage = "get" /\ w.record = "success")
        /\ failures < MaxFailures /\ failures' = failures + 1
        /\ dropped' = (dropped \/ (w.stage = "publish" /\ w.step = "outreach"))
        /\ \/ Ends(p, "error") /\ UNCHANGED tasks
           \/ Sets(p, Idle) /\ tasks' = tasks \cup { [step |-> w.step, run |-> w.run] }
        /\ UNCHANGED << status, stepKeys, traceVars, beatVars, runs, touched, torn, followed, early, requests >>
-----------------------------------------------------------------------------
(* Recovery. *)

Succeeded(doc) == { e.step : e \in { x \in ToSet(doc.entries) : x.is = "success" } }

(* steps_to_retry of analyze_failed_run: each failed step - or skipped for  *)
(* its lock - and then the steps that depend on it and have not succeeded.  *)
StepsToRetry(doc) ==
    LET insert(list, s) == IF s \in ToSet(list) THEN list ELSE Append(list, s)
        dependents(s) == { x \in Steps : s \in DependsOn[x] } \ Succeeded(doc)
        plan(list, e) ==
            IF e.is \in { "error", "locked" }
            THEN FoldSet(LAMBDA x, l : insert(l, x), insert(list, e.step), dependents(e.step))
            ELSE list
    IN  FoldLeft(plan, << >>, doc.entries)

(* The tasks retry_pipeline_run starts: those whose dependencies succeeded  *)
(* in the trace or have been started a moment before.                       *)
StartedSteps(doc) ==
    LET start(ready, s) ==
            IF DependsOn[s] \subseteq Succeeded(doc) \cup ready THEN ready \cup {s} ELSE ready
    IN  FoldLeft(start, {}, StepsToRetry(doc))

(* retry_pipeline_run: the step keys of the old run go, a new run starts.   *)
RetryPipelineRun(r) ==
    /\ StepsToRetry(trace[r]) # << >> /\ runs < MaxRuns
    /\ runs' = runs + 1
    /\ stepKeys' = { k \in stepKeys : k[2] # r }
    /\ tasks' = tasks \cup { m \in Message : m.run = runs + 1 /\ m.step \in StartedSteps(trace[r]) }
    /\ early' = (early \/ \E s \in StartedSteps(trace[r]) : ~(DependsOn[s] \subseteq Succeeded(trace[r])))
    /\ UNCHANGED << touched, torn, followed, dropped >>

\* Mutant: the count is not compared.
AutoRecoverRead_Uncounted(b, r) ==
    /\ beat[b] = AtRest
    /\ status \in Active /\ r \in listed /\ trace[r].status = "failed"
    /\ beat' = [beat EXCEPT ![b] = [stage |-> "retry", run |-> r]]
    /\ UNCHANGED << status, tasks, stepKeys, traceVars, proc, recoveries, started, uncounted, runs, historyVars, failures, requests >>

(* auto_recover_failed_pipelines, for one trace: status and count are read, *)
AutoRecoverRead(b, r) ==
    /\ beat[b] = AtRest
    /\ status \in Active /\ r \in listed /\ trace[r].status = "failed"
    /\ recoveries[r] < MaxPerRun
    /\ beat' = [beat EXCEPT ![b] = [stage |-> "retry", run |-> r]]
    /\ UNCHANGED << status, tasks, stepKeys, traceVars, proc, recoveries, started, uncounted, runs, historyVars, failures, requests >>

(* the run is retried, *)
AutoRecoverRetry(b) ==
    LET r == beat[b].run
    IN  /\ beat[b].stage = "retry"
        /\ \/ /\ RetryPipelineRun(r)
              /\ started' = [started EXCEPT ![r] = @ + 1]
              /\ beat' = [beat EXCEPT ![b].stage = "count"]
           \/ /\ StepsToRetry(trace[r]) = << >>
              /\ beat' = [beat EXCEPT ![b] = AtRest]
              /\ UNCHANGED << tasks, stepKeys, started, runs, historyVars >>
        /\ UNCHANGED << status, traceVars, proc, recoveries, uncounted, failures, requests >>

(* and only then the count is incremented. *)
AutoRecoverCount(b) ==
    /\ beat[b].stage = "count"
    /\ recoveries' = [recoveries EXCEPT ![beat[b].run] = @ + 1]
    /\ beat' = [beat EXCEPT ![b] = AtRest]
    /\ UNCHANGED << status, tasks, stepKeys, traceVars, proc, started, uncounted, runs, historyVars, failures, requests >>

(* - unless Redis fails it, or the worker is lost. *)
AutoRecoverUncounted(b) ==
    /\ beat[b].stage = "count" /\ failures < MaxFailures
    /\ uncounted' = [uncounted EXCEPT ![beat[b].run] = @ + 1]
    /\ failures' = failures + 1
    /\ beat' = [beat EXCEPT ![b] = AtRest]
    /\ UNCHANGED << status, tasks, stepKeys, traceVars, proc, recoveries, started, runs, historyVars, requests >>

(* The retry endpoints: a run without a count, and a single step.           *)
RetryRunCalled(r) ==
    /\ requests < MaxRequests /\ requests' = requests + 1
    /\ RetryPipelineRun(r)
    /\ UNCHANGED << status, traceVars, proc, beatVars, failures >>

RetryStepCalled(s) ==
    /\ requests < MaxRequests /\ requests' = requests + 1
    /\ runs < MaxRuns /\ runs' = runs + 1
    /\ tasks' = tasks \cup { [step |-> s, run |-> runs + 1] }
    /\ UNCHANGED << status, stepKeys, traceVars, proc, beatVars, historyVars, failures >>

RecoveryNext ==
    \/ \E p \in Procs :
        \/ \E m \in tasks : TakeStep(p, m)
        \/ GetTrace(p) \/ SetTrace(p) \/ RunStep(p) \/ LockNotAcquired(p)
        \/ PublishNext(p) \/ CommittedStepFails(p)
    \/ \E b \in Beats :
        \/ \E r \in Runs : AutoRecoverRead(b, r)
        \/ AutoRecoverRetry(b) \/ AutoRecoverCount(b) \/ AutoRecoverUncounted(b)
    \/ \E r \in Runs : RetryRunCalled(r)
    \/ \E s \in Steps : RetryStepCalled(s)

RecoveryTypeOK ==
    /\ status \in Statuses /\ tasks \subseteq Message /\ stepKeys \subseteq Steps \X Runs
    /\ \A r \in Runs : /\ trace[r].status \in { "none", "running", "failed" }
                        /\ trace[r].entries \in Seq([step : Steps, is : Records])
    /\ listed \subseteq Runs /\ runs \in Runs
    /\ \A p \in Procs : /\ proc[p].stage \in { "idle", "get", "set", "run", "publish" }
                         /\ proc[p].step \in Steps /\ proc[p].run \in Runs
                         /\ proc[p].record \in Records
    /\ beat \in [Beats -> [stage : { "idle", "retry", "count" }, run : Runs]]
    /\ recoveries \in [Runs -> Nat] /\ started \in [Runs -> Nat] /\ uncounted \in [Runs -> Nat]
    /\ { followed, early, dropped } \subseteq BOOLEAN /\ failures \in 0 .. MaxFailures /\ requests \in 0 .. MaxRequests

(* A run is recovered automatically at most max_retries_per_run times, and  *)
(* once more per further overlapping delivery of the beat task, which reads *)
(* the count before and increments it after the recovery, and per increment *)
(* that fails. *)
RecoveriesBounded ==
    \A r \in Runs : started[r] <= MaxPerRun + Cardinality(Beats) - 1 + uncounted[r]

(* Though a recovery clears the step keys of the old run, whose retries may *)
(* still be queued, and starts a new run beside it, the lead gets a second  *)
(* first touch only if the transaction of an earlier one was rolled back.   *)
TouchRepeatedOnlyWhenTorn == touched <= 1 + torn

(* Recovery decides by the traces: a success in a trace is the truth, the   *)
(* lead has got past the step, whatever copies of the trace were set late.  *)
Rank == [LEAD_FOUND |-> 0, ENRICHED |-> 1, SCORED |-> 2, EMAIL_READY |-> 3,
         OUTREACH_SENT |-> 4, IN_SEQUENCE |-> 5]
TracesAreTrue ==
    \A r \in Runs : \A s \in Succeeded(trace[r]) : Rank[status] > Rank[Wants[s]]

(* After the first touch the followup has its turn: when nothing is queued  *)
(* or at work and it had none, a recovery had started it, or a step before  *)
(* it, too early - it then found the wrong status, and its step key was set *)
(* when the touch was followed by it in that run - or start_outreach failed *)
(* between its commit and its publish.  No failure elsewhere, no retry, no  *)
(* recovery of a run whose steps are in order costs the followup. *)
FollowupLostOnlyByEarlyStartOrDrop ==
    status = "OUTREACH_SENT" /\ tasks = {} /\ (\A p \in Procs : proc[p].stage = "idle")
        /\ ~early /\ ~dropped
            => followed

RecoverySpec == RecoveryInit /\ [][RecoveryNext]_recoveryVars
=============================================================================
