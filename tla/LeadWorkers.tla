----------------------------- MODULE LeadWorkers -----------------------------
(***************************************************************************)
(* The Celery tasks of workers/discovery_tasks.py, outreach_tasks.py and   *)
(* analysis_tasks.py that change one lead, run by several worker processes *)
(* against one row of PostgreSQL and the keys of Redis:                    *)
(*                                                                         *)
(*   enrich_lead -> score_lead -> qualify_lead_task -> start_outreach      *)
(*   start_outreach -> schedule_followup -> send_followup (1, 2, 3)        *)
(*   analyze_reply -> qualify_lead -> handle_qualification_result          *)
(*                                              -> create_handoff          *)
(*   pause_outreach                                                        *)
(*                                                                         *)
(* and, beside them, the endpoints that start a task, and the requests      *)
(* that write back a whole row they read without its lock: send_campaign    *)
(* and enrich_all_leads of api/leads.py.                                    *)
(* All tasks but schedule_followup have the same shape: set the key of the *)
(* pipeline step (or skip), take the distributed lock of the step (or give *)
(* up), SELECT FOR UPDATE, work, commit, publish the next task, leave.     *)
(*                                                                         *)
(* A distributed lock may be free again at any moment: its TTL (300 s) is  *)
(* shorter than a task may run (600 s).  RedisLock has the lock itself.    *)
(***************************************************************************)
EXTENDS LeadStateMachine, FiniteSets

CONSTANTS Workers,       \* worker processes
          Requests,      \* bulk requests that may be in progress at a time
          Intents,       \* what the response agent may detect
          LastFollowup,  \* the sequence has followups 1 .. LastFollowup
          MaxRetries,    \* max_retries of the tasks
          MaxRuns,       \* bound on run ids
          EnterAt,       \* the status of the lead at the start
          MaxCalls,      \* bound on POST /leads/{id}/enrich, /score and /outreach
          MaxReplies,    \* bound on replies received
          MaxPauses,     \* bound on calls of pause_outreach
          MaxRequests,   \* bound on calls of send_campaign and enrich_all_leads
          MaxFaults,     \* bound on crashes, kills, exceptions and redeliveries
          NoOne          \* not a worker, not a request

ASSUME WorkersAssumption ==
    /\ Intents \subseteq ReplyIntent
    /\ EnterAt \in { "LEAD_FOUND", "EMAIL_READY" }
    /\ { LastFollowup, MaxRuns } \subseteq Nat \ {0}
    /\ { MaxCalls, MaxRetries, MaxReplies, MaxPauses, MaxRequests, MaxFaults } \subseteq Nat
    /\ NoOne \notin Workers \cup Requests /\ Workers \cap Requests = {}

Tasks == { "enrich_lead", "score_lead", "qualify_lead_task", "start_outreach",
           "schedule_followup", "send_followup", "analyze_reply", "qualify_lead",
           "handle_qualification", "create_handoff", "pause_outreach" }

\* Runs are numbered; 0 is a missing pipeline_run_id.
NoRun == 0
Runs == 0 .. MaxRuns

\* The keyword arguments of a task, with the number of retries so far; seq is 0
\* and intent "none" where the task has no such argument.
Messages == [ task: Tasks, run: Runs, seq: 0 .. LastFollowup,
              intent: Intents \cup {"none"}, tries: 0 .. MaxRetries ]

Message(task, run) ==
    [ task |-> task, run |-> run, seq |-> 0, intent |-> "none", tries |-> 0 ]

\* A pipeline step, and the distributed lock of the same name.
StepOf(m) == << m.task, m.seq >>
Steps == Tasks \X (0 .. LastFollowup)
MailSteps == { "start_outreach", "send_followup" } \X (0 .. LastFollowup)

\* Where a worker is: what it will do next.  An agent's answer is taken with
\* the step before it.
Stages == { "idle", "lock", "read", "mail", "commit", "publish", "leave" }

VARIABLES
    row,      \* the committed row of the lead
    rowLock,  \* who holds the row lock
    queue,    \* messages waiting (two waiting copies of one message are one)
    work,     \* per worker: stage, message, run id, its copy of the lead
    keys,     \* the pipeline step keys that are set, << step, run >>
    locks,    \* per step: who holds the distributed lock
    lastRun,  \* the last run id generated
    api,      \* per bulk request: what it does, its stage, the row it read
    left,     \* what is left of the bounds
    mails,    \* history: mails sent by tasks, per step and run
    log       \* history: what else became of the lead

vars == << row, rowLock, queue, work, keys, locks, lastRun, api, left, mails, log >>

\* Of log: lost are the first touches whose sender failed before its commit;
\* taken the first touches by campaigns; stale the requests that committed over
\* another status than they had read; stopped tells whether a committed status
\* was ever past the outreach; done are the << step, run >> worked to the end.
Histories == [ lost: Nat, taken: Nat, stale: Nat, stopped: BOOLEAN,
               done: SUBSET (Steps \X Runs) ]

Idle == [ stage |-> "idle", msg |-> Message("pause_outreach", NoRun), run |-> NoRun,
          copy |-> NewLead ]

NoRequest == [ op |-> "enrich_all_leads", stage |-> "idle", read |-> NewLead ]

TypeOK ==
    /\ row \in Lead
    /\ rowLock \in Workers \cup Requests \cup {NoOne}
    /\ queue \subseteq Messages
    /\ work \in [ Workers -> [ stage: Stages, msg: Messages, run: Runs, copy: Lead ] ]
    /\ keys \subseteq Steps \X Runs
    /\ locks \in [ Steps -> Workers \cup {NoOne} ]
    /\ lastRun \in Runs
    /\ api \in [ Requests -> [ op: { "send_campaign", "enrich_all_leads" },
                               stage: { "idle", "update", "commit" }, read: Lead ] ]
    /\ left \in [ calls: Nat, replies: Nat, pauses: Nat, requests: Nat, faults: Nat ]
    /\ mails \in [ MailSteps \X Runs -> Nat ]
    /\ log \in Histories

-----------------------------------------------------------------------------
(* The tables by which the tasks differ *)

InOutreach == { "OUTREACH_SENT", "IN_SEQUENCE" }

\* The statuses a lead has before its first touch.
Untouched == { "LEAD_FOUND", "ENRICHED", "SCORED", "EMAIL_READY" }

\* Nothing is mailed to a lead that has another status than these.
Stops(status) == status \notin Untouched \cup InOutreach

\* The status check after the read; a task without one accepts every status.
Accepts(task, status) ==
    CASE task = "enrich_lead"                         -> status = "LEAD_FOUND"
      [] task = "score_lead"                          -> status = "ENRICHED"
      [] task = "qualify_lead_task"                   -> status = "SCORED"
      [] task = "start_outreach"                      -> status = "EMAIL_READY"
      [] task \in { "send_followup", "pause_outreach" } -> status \in InOutreach
      [] task = "create_handoff" -> status \in { "INTEREST_DETECTED", "QUALIFIED" }
      [] OTHER                                        -> TRUE

\* The status a commit of the task may write: score and qualification decide
\* about the archive.
Targets(m) ==
    CASE m.task = "enrich_lead"       -> { "ENRICHED" }
      [] m.task = "score_lead"        -> { "SCORED", "ARCHIVED" }
      [] m.task = "qualify_lead_task" -> { "EMAIL_READY", "ARCHIVED" }
      [] m.task = "start_outreach"    -> { "OUTREACH_SENT" }
      [] m.task = "send_followup"     -> { "IN_SEQUENCE" }
      [] m.task = "analyze_reply"     -> { "REPLY_RECEIVED" }
      [] m.task = "create_handoff"    -> { "HANDED_TO_MANAGER" }
      [] m.task = "pause_outreach"    -> { "COOLDOWN" }
      [] m.task = "handle_qualification" ->
            IF m.intent \in PositiveIntents THEN { "INTEREST_DETECTED" } ELSE { "REFUSED" }

\* After the status check, for an agent that answers and gates that pass.
AfterRead(m, status) ==
    CASE m.task \in { "start_outreach", "send_followup" }     -> "mail"
      [] m.task \in { "enrich_lead", "score_lead", "qualify_lead_task",
                       "create_handoff", "pause_outreach" }   -> "commit"
      [] m.task = "qualify_lead"                              -> "publish"
      [] m.task = "analyze_reply" ->
            IF status \in InOutreach THEN "commit" ELSE "publish"
      [] m.task = "handle_qualification" ->
            IF m.intent \in PositiveIntents \cup NegativeIntents THEN "commit" ELSE "leave"

\* The tasks that ask an agent (or a gate) and may get no result: before they
\* change anything, but after the commit of a reply.
MayStopAfterRead(m, status) ==
    \/ m.task \in { "enrich_lead", "score_lead", "start_outreach", "send_followup",
                     "create_handoff", "qualify_lead" }
    \/ m.task = "analyze_reply" /\ status \notin InOutreach

\* Only the first followup changes the status, and only from OUTREACH_SENT.
AfterMail(m, status) ==
    IF m.task = "send_followup" /\ ~ (m.seq = 1 /\ status = "OUTREACH_SENT")
    THEN "publish" ELSE "commit"

\* Nothing follows the archive.
AfterCommit(task, target) ==
    CASE task = "analyze_reply"                          -> { "publish", "leave" }
      [] \/ task \in { "create_handoff", "pause_outreach" }
         \/ target = "ARCHIVED"                          -> { "leave" }
      [] OTHER                                           -> { "publish" }

\* Mutant: a followup is scheduled after the last one too.
Published_NoLast(m, run) ==
    CASE m.task = "start_outreach" ->
            { [ Message("schedule_followup", run) EXCEPT !.seq = 1 ] }
      [] m.task = "send_followup" ->
            { [ Message("schedule_followup", run) EXCEPT !.seq = m.seq + 1 ] }
      [] OTHER -> {}

\* The messages a task publishes.  The run id goes with them, so does the
\* intent where there is one.
Published(m, run) ==
    CASE m.task = "enrich_lead"       -> { Message("score_lead", run) }
      [] m.task = "score_lead"        -> { Message("qualify_lead_task", run) }
      [] m.task = "qualify_lead_task" -> { Message("start_outreach", run) }
      [] m.task = "start_outreach" ->
            { [ Message("schedule_followup", run) EXCEPT !.seq = 1 ] }
      [] m.task = "send_followup" /\ m.seq < LastFollowup ->
            { [ Message("schedule_followup", run) EXCEPT !.seq = m.seq + 1 ] }
      [] m.task = "analyze_reply" ->
            { [ Message("qualify_lead", run) EXCEPT !.intent = intent ] : intent \in Intents }
      [] m.task = "qualify_lead" ->
            { [ Message("handle_qualification", run) EXCEPT !.intent = m.intent ] }
      [] m.task = "handle_qualification" /\ m.intent \in PositiveIntents ->
            { Message("create_handoff", run) }
      [] OTHER -> {}

-----------------------------------------------------------------------------
(* A worker's way through a task *)

At(w, stage) == work[w].stage = stage
To(w, stage) == work' = [ work EXCEPT ![w].stage = stage ]
Free(who)    == IF rowLock = who THEN NoOne ELSE rowLock
StepKey(w)   == << StepOf(work[w].msg), work[w].run >>
LockOf(w)    == locks[StepOf(work[w].msg)]

\* Mutant: the key of the step is never set.
Deliver_NoKey(w, m) ==
    LET fresh == m.run = NoRun /\ m.task # "pause_outreach"
        run   == IF fresh THEN lastRun + 1 ELSE m.run
    IN  /\ At(w, "idle") /\ m.task # "schedule_followup" /\ run \in Runs
        /\ queue' = queue \ {m}
        /\ lastRun' = IF fresh THEN run ELSE lastRun
        /\ work' = [ work EXCEPT ![w] =
                       [ Idle EXCEPT !.stage = "lock", !.msg = m, !.run = run ] ]
        /\ UNCHANGED << row, rowLock, keys, locks, api, left, mails, log >>

\* Take a message.  A task without a run id makes a new one, each time it is
\* delivered (that of pause_outreach is only logged).  check_pipeline_step sets
\* the key before any of the work is done, and if it is set already the message
\* is acknowledged at once.
Deliver(w, m) ==
    LET pause == m.task = "pause_outreach"
        fresh == m.run = NoRun /\ ~ pause
        run   == IF fresh THEN lastRun + 1 ELSE m.run
        key   == << StepOf(m), run >>
    IN  /\ At(w, "idle")
        /\ m.task # "schedule_followup"
        /\ run \in Runs
        /\ queue' = queue \ {m}
        /\ lastRun' = IF fresh THEN run ELSE lastRun
        /\ IF key \in keys
           THEN UNCHANGED << work, keys >>
           ELSE /\ work' = [ work EXCEPT ![w] =
                               [ Idle EXCEPT !.stage = "lock", !.msg = m, !.run = run ] ]
                /\ keys' = IF pause THEN keys ELSE keys \cup { key }
        /\ UNCHANGED << row, rowLock, locks, api, left, mails, log >>

Lock(w) ==
    /\ At(w, "lock") /\ LockOf(w) = NoOne
    /\ locks' = [ locks EXCEPT ![StepOf(work[w].msg)] = w ]
    /\ To(w, "read")
    /\ UNCHANGED << row, rowLock, queue, keys, lastRun, api, left, mails, log >>

\* The lock is taken ("retry": True in the result makes nobody try again), or the
\* campaign of a first touch is paused.
GiveUp(w) ==
    /\ At(w, "lock")
    /\ LockOf(w) # NoOne \/ work[w].msg.task = "start_outreach"
    /\ work' = [ work EXCEPT ![w] = Idle ]
    /\ UNCHANGED << row, rowLock, queue, keys, locks, lastRun, api, left, mails, log >>

\* Mutant: get() instead of get_for_update().
Read_NoRowLock(w) ==
    LET m == work[w].msg
        next == IF Accepts(m.task, row.status) THEN AfterRead(m, row.status) ELSE "leave"
    IN  /\ At(w, "read")
        /\ work' = [ work EXCEPT ![w].copy = row, ![w].stage = next ]
        /\ UNCHANGED << row, rowLock, queue, keys, locks, lastRun, api, left, mails, log >>

\* get_for_update waits for the row lock, then reads.
Read(w) ==
    LET m == work[w].msg
        next == IF ~ Accepts(m.task, row.status) THEN { "leave" }
                ELSE { AfterRead(m, row.status) } \cup
                     (IF MayStopAfterRead(m, row.status) THEN { "leave" } ELSE {})
    IN  /\ At(w, "read") /\ rowLock = NoOne
        /\ rowLock' = w
        /\ \E stage \in next : work' = [ work EXCEPT ![w].copy = row, ![w].stage = stage ]
        /\ UNCHANGED << row, queue, keys, locks, lastRun, api, left, mails, log >>

\* Mutant: the mail service commits the task's session.
SendMail_EndsTransaction(w) ==
    /\ At(w, "mail")
    /\ mails' = [ mails EXCEPT ![StepKey(w)] = @ + 1 ]
    /\ rowLock' = Free(w)
    /\ To(w, AfterMail(work[w].msg, work[w].copy.status))
    /\ UNCHANGED << row, queue, keys, locks, lastRun, api, left, log >>

SendMail(w) ==
    /\ At(w, "mail")
    /\ mails' = [ mails EXCEPT ![StepKey(w)] = @ + 1 ]
    /\ To(w, AfterMail(work[w].msg, work[w].copy.status))
    /\ UNCHANGED << row, rowLock, queue, keys, locks, lastRun, api, left, log >>

\* The orchestrator changes the copy, the repository writes all of it.
Commit(w) ==
    /\ At(w, "commit")
    /\ \E target \in Targets(work[w].msg) :
         /\ CanTransition(work[w].copy.status, target)
         /\ row' = Moved(work[w].copy, target)
         /\ log' = [ log EXCEPT !.stopped = @ \/ Stops(target) ]
         /\ \E stage \in AfterCommit(work[w].msg.task, target) : To(w, stage)
    /\ rowLock' = Free(w)
    /\ UNCHANGED << queue, keys, locks, lastRun, api, left, mails >>

Unlocked(w) ==
    IF LockOf(w) = w THEN [ locks EXCEPT ![StepOf(work[w].msg)] = NoOne ] ELSE locks

\* Mutant: an early return keeps the session.
Finish_SessionKept(w) ==
    LET out == IF At(w, "publish") THEN Published(work[w].msg, work[w].run) ELSE {}
    IN  /\ At(w, "publish") \/ At(w, "leave")
        /\ IF out = {} THEN UNCHANGED queue ELSE \E m \in out : queue' = queue \cup {m}
        /\ rowLock' = IF At(w, "publish") THEN Free(w) ELSE rowLock
        /\ locks' = Unlocked(w)
        /\ work' = [ work EXCEPT ![w] = Idle ]
        /\ log' = [ log EXCEPT !.done = @ \cup { StepKey(w) } ]
        /\ UNCHANGED << row, keys, lastRun, api, left, mails >>

\* The end: the next task is published, session and lock are left, the message
\* is acknowledged.
Finish(w) ==
    LET out == IF At(w, "publish") THEN Published(work[w].msg, work[w].run) ELSE {}
    IN  /\ At(w, "publish") \/ At(w, "leave")
        /\ IF out = {} THEN UNCHANGED queue ELSE \E m \in out : queue' = queue \cup {m}
        /\ rowLock' = Free(w)
        /\ locks' = Unlocked(w)
        /\ work' = [ work EXCEPT ![w] = Idle ]
        /\ log' = [ log EXCEPT !.done = @ \cup { StepKey(w) } ]
        /\ UNCHANGED << row, keys, lastRun, api, left, mails >>

-----------------------------------------------------------------------------
(* Failures *)

Retried(m) ==
    IF m.tries < MaxRetries THEN { [ m EXCEPT !.tries = @ + 1 ] } ELSE {}

MailLost(w) == At(w, "commit") /\ work[w].msg.task = "start_outreach"

\* What is common to the ways a task ends before its end: the session is rolled
\* back, the worker takes another task.
Abandon(w, again, locksAfter) ==
    /\ rowLock' = Free(w)
    /\ locks' = locksAfter
    /\ queue' = queue \cup again
    /\ log' = [ log EXCEPT !.lost = IF MailLost(w) THEN @ + 1 ELSE @ ]
    /\ work' = [ work EXCEPT ![w] = Idle ]
    /\ UNCHANGED << row, keys, lastRun, api, mails >>

\* An exception leaves the lock in order; Celery retries with the same kwargs.
Fail(w) == Abandon(w, Retried(work[w].msg), Unlocked(w))

Fault == left.faults > 0 /\ left' = [ left EXCEPT !.faults = @ - 1 ]

\* The orchestrator raises ValueError.
CommitRefused(w) ==
    /\ At(w, "commit")
    /\ \E target \in Targets(work[w].msg) : ~ CanTransition(work[w].copy.status, target)
    /\ Fail(w) /\ UNCHANGED left

Raise(w) == ~ At(w, "idle") /\ Fault /\ Fail(w)

\* The worker process is lost: the message goes back to the queue
\* (task_reject_on_worker_lost), the lock stays until it expires.
Crash(w) == ~ At(w, "idle") /\ Fault /\ Abandon(w, { work[w].msg }, locks)

\* task_time_limit: the process is killed, the message acknowledged as failed.
Kill(w) == ~ At(w, "idle") /\ Fault /\ Abandon(w, {}, locks)

\* The broker's visibility timeout: a message not acknowledged yet is
\* delivered once more.
Redeliver(w) ==
    /\ ~ At(w, "idle") /\ Fault
    /\ queue' = queue \cup { work[w].msg }
    /\ UNCHANGED << row, rowLock, work, keys, locks, lastRun, api, mails, log >>

Expire(step) ==
    /\ locks[step] # NoOne
    /\ locks' = [ locks EXCEPT ![step] = NoOne ]
    /\ UNCHANGED << row, rowLock, queue, work, keys, lastRun, api, left, mails, log >>

-----------------------------------------------------------------------------
(* Around the workers *)

Rest == << row, rowLock, work, keys, locks, lastRun, mails, log >>

\* schedule_followup only passes its arguments on, with a countdown.  A
\* redelivery passes them on twice.
ScheduleFollowup(m) ==
    /\ m.task = "schedule_followup"
    /\ \/ queue' = (queue \ {m}) \cup { [ m EXCEPT !.task = "send_followup" ] }
          /\ UNCHANGED left
       \/ queue' = queue \cup { [ m EXCEPT !.task = "send_followup" ] } /\ Fault
    /\ UNCHANGED << Rest, api >>

\* The endpoints that start a task give no run id.  Only the one that starts an
\* outreach looks at the lead.
EndpointCalled(task) ==
    /\ task \in { "enrich_lead", "score_lead", "start_outreach" }
    /\ task = "start_outreach" => row.status \in { "QUALIFIED", "SCORED" }
    /\ left.calls > 0
    /\ left' = [ left EXCEPT !.calls = @ - 1 ]
    /\ queue' = queue \cup { Message(task, NoRun) }
    /\ UNCHANGED << Rest, api >>

\* A webhook has found the mail replied to; it gives no run id.  That of Resend
\* fails for a lead in one of the statuses it would change itself (the string it
\* writes has no .value for the repository to store), else it does the same.
ReplyArrives ==
    /\ left.replies > 0 /\ \E k \in DOMAIN mails : mails[k] > 0
    /\ left' = [ left EXCEPT !.replies = @ - 1 ]
    /\ queue' = queue \cup { Message("analyze_reply", NoRun) }
    /\ UNCHANGED << Rest, api >>

PauseCalled ==
    /\ left.pauses > 0
    /\ left' = [ left EXCEPT !.pauses = @ - 1 ]
    /\ queue' = queue \cup { Message("pause_outreach", NoRun) }
    /\ UNCHANGED << Rest, api >>

\* A bulk request reads the rows with a plain SELECT.
RequestRead(r, op) ==
    /\ api[r].stage = "idle" /\ left.requests > 0
    /\ left' = [ left EXCEPT !.requests = @ - 1 ]
    /\ api' = [ api EXCEPT ![r] = [ op |-> op, stage |-> "update", read |-> row ] ]
    /\ UNCHANGED << Rest, queue >>

\* send_campaign mails whoever has a domain, and updates the lead if its copy
\* allows the transition: those mails are the lead's first touches.
CampaignRead(r) == CanTransition(row.status, "OUTREACH_SENT") /\ RequestRead(r, "send_campaign")

\* enrich_all_leads looks up the domain of a lead that has none, in any status.
EnrichAllRead(r) == RequestRead(r, "enrich_all_leads")

\* The UPDATE of the whole row waits for the row lock.
RequestUpdate(r) ==
    /\ api[r].stage = "update" /\ rowLock = NoOne
    /\ rowLock' = r
    /\ api' = [ api EXCEPT ![r].stage = "commit" ]
    /\ UNCHANGED << row, queue, work, keys, locks, lastRun, left, mails, log >>

Touches(r) == IF api[r].op = "send_campaign" THEN 1 ELSE 0

\* One commit at the end.
RequestCommit(r) ==
    LET read == api[r].read
    IN  /\ api[r].stage = "commit"
        /\ row' = IF api[r].op = "send_campaign" THEN Moved(read, "OUTREACH_SENT") ELSE read
        /\ rowLock' = NoOne
        /\ api' = [ api EXCEPT ![r] = NoRequest ]
        /\ log' = [ log EXCEPT !.taken = @ + Touches(r),
                               !.stale = IF row.status = read.status THEN @ ELSE @ + 1 ]
        /\ UNCHANGED << queue, work, keys, locks, lastRun, left, mails >>

\* The server is lost or the commit fails: a rollback, the mails have gone.
RequestFails(r) ==
    /\ api[r].stage # "idle" /\ Fault
    /\ rowLock' = Free(r)
    /\ api' = [ api EXCEPT ![r] = NoRequest ]
    /\ log' = [ log EXCEPT !.taken = @ + Touches(r), !.lost = @ + Touches(r) ]
    /\ UNCHANGED << row, queue, work, keys, locks, lastRun, mails >>

-----------------------------------------------------------------------------
\* Either nothing has happened to the lead since it was stored, or discovery has
\* just qualified it and published start_outreach with its run id.
Init ==
    /\ row = [ NewLead EXCEPT !.status = EnterAt ]
    /\ rowLock = NoOne
    /\ lastRun = IF EnterAt = "EMAIL_READY" THEN 1 ELSE 0
    /\ queue = { Message("start_outreach", run) : run \in 1 .. lastRun }
    /\ work = [ w \in Workers |-> Idle ]
    /\ keys = {}
    /\ locks = [ step \in Steps |-> NoOne ]
    /\ api = [ r \in Requests |-> NoRequest ]
    /\ left = [ calls |-> MaxCalls, replies |-> MaxReplies, pauses |-> MaxPauses,
                requests |-> MaxRequests, faults |-> MaxFaults ]
    /\ mails = [ k \in MailSteps \X Runs |-> 0 ]
    /\ log = [ lost |-> 0, taken |-> 0, stale |-> 0, stopped |-> FALSE, done |-> {} ]

Handle(w) ==
    \/ Lock(w) \/ GiveUp(w) \/ Read(w) \/ SendMail(w)
    \/ Commit(w) \/ CommitRefused(w) \/ Finish(w)

Next ==
    \/ \E m \in queue : \/ ScheduleFollowup(m)
                        \/ \E w \in Workers : Deliver(w, m)
    \/ \E w \in Workers : Handle(w) \/ Raise(w) \/ Crash(w) \/ Kill(w) \/ Redeliver(w)
    \/ \E step \in Steps : Expire(step)
    \/ \E task \in Tasks : EndpointCalled(task)
    \/ ReplyArrives
    \/ PauseCalled
    \/ \E r \in Requests : \/ CampaignRead(r) \/ EnrichAllRead(r)
                           \/ RequestUpdate(r) \/ RequestCommit(r) \/ RequestFails(r)

\* A worker that is alive goes on with its task, and there is always a worker
\* to take a message; nothing is assumed of expiry, replies and callers.
Fairness ==
    /\ \A w \in Workers : WF_vars(Handle(w))
    /\ WF_vars(\E m \in queue, w \in Workers : Deliver(w, m))
    /\ WF_vars(\E m \in queue : ScheduleFollowup(m))
    /\ \A r \in Requests : WF_vars(RequestUpdate(r) \/ RequestCommit(r))

Spec == Init /\ [][Next]_vars
FairSpec == Spec /\ Fairness

-----------------------------------------------------------------------------
(* Properties *)

AllIdle == queue = {} /\ \A w \in Workers : At(w, "idle")

\* A task moves the committed row along the graph: between its SELECT FOR
\* UPDATE and its commit no other task, no redelivered copy of it and no bulk
\* request changes the row it decided on, though the distributed locks may
\* expire and the tasks use different ones.
TasksFollowGraph ==
    [][ row' # row /\ UNCHANGED api => CanTransition(row.status, row'.status) ]_vars

\* No task mails a lead whose status, as committed at that moment, does not call
\* for the mail.
NoStaleMail ==
    [][ \A k \in DOMAIN mails :
          mails'[k] # mails[k] => Accepts(k[1][1], row.status) ]_vars

\* Once a reply, a pause or the archive has been committed, no task mails the
\* lead any more, whatever was scheduled, retried or redelivered - unless a bulk
\* request has written an old row over a newer one.
NoMailAfterStop == [][ mails' # mails => ~ log.stopped \/ log.stale > 0 ]_vars

\* The key of the pipeline step makes each mail of a run go out at most once,
\* over retries, redeliveries, crashes and repeated scheduling.
MailedOncePerRun == \A k \in DOMAIN mails : mails[k] <= 1

\* The first-touch mails sent, each as its run and its number within the run.
FirstTouches ==
    UNION { {run} \X (1 .. mails[<< << "start_outreach", 0 >>, run >>]) : run \in Runs }

\* Over all runs and campaigns, a lead gets a second first-touch mail only if
\* the sender of one was lost between the mail and its commit, or if a bulk
\* request wrote an old row over a newer one - one mail for each of these.
FirstTouchesBounded == Cardinality(FirstTouches) + log.taken <= 1 + log.lost + log.stale

\* Every message is worked off or dropped: no two tasks wait for each other's
\* locks, and a lock abandoned by a crash stops nobody.
WorkDrains == <>[]AllIdle

\* check_pipeline_step documents its answer as "already processed": the step of
\* a message that is going to be skipped should have been worked to its end, or
\* should be in work.  The code breaks it: the key outlives a failure of the step.
KeysMeanProcessed ==
    \A m \in queue :
        LET key == << StepOf(m), m.run >>
        IN  key \in keys =>
               \/ key \in log.done
               \/ \E w \in Workers : ~ At(w, "idle") /\ StepKey(w) = key

\* create_handoff checks the status "must be INTEREST_DETECTED or QUALIFIED":
\* a lead that passes the check should be one the handoff can move.  The code
\* breaks it: INTEREST_DETECTED has no edge to HANDED_TO_MANAGER.
HandoffCheckSuffices ==
    \A w \in Workers :
        At(w, "commit") /\ work[w].msg.task = "create_handoff"
            => CanTransition(work[w].copy.status, "HANDED_TO_MANAGER")

\* engine.py: "All LeadStatus changes MUST go through this orchestrator", which
\* refuses what is not an edge of the graph.  The code breaks it: a campaign
\* writes back the whole row it read before.
RowFollowsGraph ==
    [][ row'.status # row.status => CanTransition(row.status, row'.status) ]_vars
=============================================================================
