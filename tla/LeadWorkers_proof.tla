------------------------- MODULE LeadWorkers_proof -------------------------
(***************************************************************************)
(* Proofs about LeadWorkers, for any number of workers, requests,          *)
(* followups, runs, retries, replies, calls and faults.                    *)
(***************************************************************************)
EXTENDS LeadWorkers, FiniteSetTheorems, TLAPS

-----------------------------------------------------------------------------
(* Facts about the graph, the messages and the tables *)

\* Every edge of the graph leads to a status.
LEMMA EdgesTyped ==
    ASSUME NEW from \in LeadStatus, NEW to, CanTransition(from, to)
    PROVE  to \in LeadStatus
  BY DEF CanTransition, Transitions, LeadStatus

\* A transition keeps a lead a lead, and puts it in the target status.
LEMMA MovedLead ==
    ASSUME NEW l \in Lead, NEW to \in LeadStatus
    PROVE  Moved(l, to) \in Lead /\ Moved(l, to).status = to
  BY DEF Moved, Lead

\* A lead as it is stored is a lead.
LEMMA NewLeadTyped == NewLead \in Lead
  <1>1. "LEAD_FOUND" \in LeadStatus
    BY DEF LeadStatus
  <1>2. NoDate \in Time
    BY MaxTimeAssumption DEF Time, NoDate
  <1> QED BY <1>1, <1>2 DEF NewLead, Lead

\* What is published for a task and a run is a message.
LEMMA MessageTyped ==
    ASSUME NEW task \in Tasks, NEW run \in Runs
    PROVE  Message(task, run) \in Messages
  BY WorkersAssumption DEF Message, Messages

\* A worker without a task is in its type.
LEMMA IdleTyped ==
    Idle \in [ stage: Stages, msg: Messages, run: Runs, copy: Lead ]
  <1>1. NoRun \in Runs
    BY WorkersAssumption DEF NoRun, Runs
  <1>2. Message("pause_outreach", NoRun) \in Messages
    BY <1>1, MessageTyped DEF Tasks
  <1> QED BY <1>1, <1>2, NewLeadTyped DEF Idle, Stages

\* Every message belongs to a pipeline step.
LEMMA StepTyped ==
    ASSUME NEW m \in Messages
    PROVE  StepOf(m) \in Steps
  BY DEF StepOf, Steps, Messages

\* The next task has a sequence number within the sequence.
LEMMA PublishedTyped ==
    ASSUME NEW m \in Messages, NEW run \in Runs
    PROVE  Published(m, run) \subseteq Messages
  <1>0. /\ m.seq \in 0 .. LastFollowup /\ LastFollowup \in Nat \ {0}
        /\ m.intent \in Intents \cup {"none"}
    BY WorkersAssumption DEF Messages
  <1>1. \A task \in Tasks : Message(task, run) \in Messages
    BY MessageTyped
  <1>2. \A task \in Tasks, seq \in 0 .. LastFollowup :
            [ Message(task, run) EXCEPT !.seq = seq ] \in Messages
    BY <1>1 DEF Messages
  <1>3. \A task \in Tasks, intent \in Intents \cup {"none"} :
            [ Message(task, run) EXCEPT !.intent = intent ] \in Messages
    BY <1>1 DEF Messages
  <1>4. /\ 1 \in 0 .. LastFollowup
        /\ m.seq < LastFollowup => m.seq + 1 \in 0 .. LastFollowup
    BY <1>0
  <1>5. { "score_lead", "qualify_lead_task", "start_outreach", "schedule_followup",
          "qualify_lead", "handle_qualification", "create_handoff" } \subseteq Tasks
    BY DEF Tasks
  <1> QED BY <1>0, <1>1, <1>2, <1>3, <1>4, <1>5 DEF Published

\* A retry is a message, with one more try counted.
LEMMA RetriedTyped ==
    ASSUME NEW m \in Messages
    PROVE  Retried(m) \subseteq Messages
  BY WorkersAssumption DEF Retried, Messages

-----------------------------------------------------------------------------
(* Type correctness *)

\* A worker never has a task that takes no key, only the tasks that mail get to
\* the mail, and the one that changes nothing does not get to a commit.
Assigned ==
    \A w \in Workers :
        /\ work[w].msg.task # "schedule_followup"
        /\ work[w].stage = "mail" => work[w].msg.task \in { "start_outreach", "send_followup" }
        /\ work[w].stage = "commit" => work[w].msg.task # "qualify_lead"

TypeInv == TypeOK /\ Assigned

WorkType == [ stage: Stages, msg: Messages, run: Runs, copy: Lead ]
LeftType == [ calls: Nat, replies: Nat, pauses: Nat, requests: Nat, faults: Nat ]

\* The histories with other counts are histories.
LEMMA HistoriesTyped ==
    ASSUME NEW h \in Histories, NEW n \in Nat, NEW m \in Nat
    PROVE  /\ [ h EXCEPT !.lost = n ] \in Histories
           /\ [ h EXCEPT !.taken = n, !.lost = m ] \in Histories
           /\ [ h EXCEPT !.taken = n, !.stale = m ] \in Histories
  BY DEF Histories

\* A worker that goes to another stage of its task.
LEMMA ToTyped ==
    ASSUME TypeInv, NEW w \in Workers, NEW stage \in Stages \ {"mail"}, To(w, stage),
           stage = "commit" => work[w].msg.task # "qualify_lead"
    PROVE  work' \in [ Workers -> WorkType ] /\ Assigned'
  BY DEF TypeInv, TypeOK, Assigned, To, WorkType

\* A worker that takes another task.
LEMMA IdleAgainTyped ==
    ASSUME TypeInv, NEW w \in Workers, work' = [ work EXCEPT ![w] = Idle ]
    PROVE  work' \in [ Workers -> WorkType ] /\ Assigned'
  <1>1. Idle \in WorkType /\ Idle.stage = "idle" /\ Idle.msg.task = "pause_outreach"
    BY IdleTyped DEF Idle, WorkType, Message
  <1> QED BY <1>1 DEF TypeInv, TypeOK, Assigned, WorkType

\* A task that ends before its end keeps the types.
LEMMA AbandonTyped ==
    ASSUME TypeInv, NEW w \in Workers, NEW again \in SUBSET Messages,
           NEW locksAfter \in [ Steps -> Workers \cup {NoOne} ],
           Abandon(w, again, locksAfter),
           left' \in LeftType
    PROVE  TypeInv'
  <1>1. work' \in [ Workers -> WorkType ] /\ Assigned'
    BY IdleAgainTyped DEF Abandon
  <1>2. log' \in Histories /\ queue' \subseteq Messages /\ locks' = locksAfter
    <2>1. log \in Histories /\ log.lost \in Nat /\ log.lost + 1 \in Nat
      BY DEF TypeInv, TypeOK, Histories
    <2>2. \/ log' = [ log EXCEPT !.lost = log.lost + 1 ]
          \/ log' = [ log EXCEPT !.lost = log.lost ]
      BY DEF Abandon
    <2>3. log' \in Histories
      BY <2>1, <2>2, HistoriesTyped
    <2> QED BY <2>3 DEF Abandon, TypeInv, TypeOK
  <1>3. rowLock' \in Workers \cup Requests \cup {NoOne}
    BY DEF Abandon, Free, TypeInv, TypeOK
  <1>4. UNCHANGED << row, keys, lastRun, api, mails >>
    BY DEF Abandon
  <1> QED BY <1>1, <1>2, <1>3, <1>4 DEF TypeInv, TypeOK, WorkType, LeftType

\* A lock is let go by its holder only, and is then free.
LEMMA UnlockedTyped ==
    ASSUME TypeInv, NEW w \in Workers
    PROVE  Unlocked(w) \in [ Steps -> Workers \cup {NoOne} ]
  BY DEF Unlocked, TypeInv, TypeOK

\* A fault takes one of those left.
LEMMA FaultTyped ==
    ASSUME TypeInv, Fault
    PROVE  left' \in LeftType
  BY DEF TypeInv, TypeOK, Fault, LeftType

\* A delivery keeps the types: its run id is one of the runs.
LEMMA DeliverTyped ==
    ASSUME TypeInv, NEW m \in queue, NEW w \in Workers, Deliver(w, m)
    PROVE  TypeInv'
  <1> DEFINE pause == m.task = "pause_outreach"
             fresh == m.run = NoRun /\ ~ pause
             run   == IF fresh THEN lastRun + 1 ELSE m.run
             taken == [ Idle EXCEPT !.stage = "lock", !.msg = m, !.run = run ]
  <1>1. m \in Messages /\ run \in Runs /\ m.task # "schedule_followup"
    BY DEF TypeInv, TypeOK, Deliver
  <1>2. taken \in WorkType /\ taken.msg = m /\ taken.stage = "lock"
    BY <1>1, IdleTyped DEF WorkType, Stages
  <1>3. \/ work' = work
        \/ work' = [ work EXCEPT ![w] = taken ]
    BY DEF Deliver
  <1>4. work' \in [ Workers -> WorkType ] /\ Assigned'
    <2> HIDE DEF taken
    <2>1. work \in [ Workers -> WorkType ]
      BY DEF TypeInv, TypeOK, WorkType
    <2>2. CASE work' = work
      BY <2>1, <2>2 DEF TypeInv, Assigned
    <2>3. CASE work' = [ work EXCEPT ![w] = taken ]
      BY <1>1, <1>2, <2>1, <2>3 DEF TypeInv, Assigned
    <2> QED BY <1>3, <2>2, <2>3
  <1>5. keys' \subseteq Steps \X Runs
    <2>1. << StepOf(m), run >> \in Steps \X Runs
      BY <1>1, StepTyped
    <2>2. keys' \subseteq keys \cup { << StepOf(m), run >> }
      BY DEF Deliver
    <2> QED BY <2>1, <2>2 DEF TypeInv, TypeOK
  <1>6. lastRun' \in Runs /\ queue' \subseteq Messages
    BY <1>1 DEF Deliver, TypeInv, TypeOK
  <1>7. UNCHANGED << row, rowLock, locks, api, left, mails, log >>
    BY DEF Deliver
  <1> QED BY <1>4, <1>5, <1>6, <1>7 DEF TypeInv, TypeOK, WorkType

\* A read keeps the types, and leads to the stage of the task.
LEMMA ReadTyped ==
    ASSUME TypeInv, NEW w \in Workers, Read(w)
    PROVE  TypeInv'
  <1> DEFINE m == work[w].msg
  <1>1. m \in Messages /\ m.task \in Tasks /\ m.task # "schedule_followup"
    BY DEF TypeInv, TypeOK, Assigned, Messages
  <1>2. /\ AfterRead(m, row.status) \in Stages
        /\ AfterRead(m, row.status) = "mail" => m.task \in { "start_outreach", "send_followup" }
        /\ AfterRead(m, row.status) = "commit" => m.task # "qualify_lead"
    <2>1. CASE m.task \in { "start_outreach", "send_followup" }
      BY <2>1 DEF AfterRead, Stages
    <2>2. CASE m.task \in { "enrich_lead", "score_lead", "qualify_lead_task",
                            "create_handoff", "pause_outreach" }
      BY <2>2 DEF AfterRead, Stages
    <2>3. CASE m.task = "qualify_lead"
      BY <2>3 DEF AfterRead, Stages
    <2>4. CASE m.task = "analyze_reply"
      BY <2>4 DEF AfterRead, Stages
    <2>5. CASE m.task = "handle_qualification"
      BY <2>5 DEF AfterRead, Stages
    <2> QED BY <1>1, <2>1, <2>2, <2>3, <2>4, <2>5 DEF Tasks
  <1>3. PICK stage \in { "leave", AfterRead(m, row.status) } :
            work' = [ work EXCEPT ![w].copy = row, ![w].stage = stage ]
    BY DEF Read
  <1>4. work' \in [ Workers -> WorkType ] /\ Assigned'
    <2> DEFINE read == [ work[w] EXCEPT !.copy = row, !.stage = stage ]
    <2> HIDE DEF m
    <2>1. /\ stage \in Stages
          /\ stage = "mail" => m.task \in { "start_outreach", "send_followup" }
          /\ stage = "commit" => m.task # "qualify_lead"
      BY <1>2, <1>3 DEF Stages
    <2>2. work \in [ Workers -> WorkType ] /\ row \in Lead
      BY DEF TypeInv, TypeOK, WorkType
    <2>3. work[w] \in WorkType
      BY <2>2
    <2>4. read \in WorkType /\ read.stage = stage /\ read.msg = work[w].msg
      BY <2>1, <2>2, <2>3 DEF WorkType
    <2>5. work' = [ work EXCEPT ![w] = read ]
      BY <1>3, <2>2, <2>3 DEF WorkType
    <2>6. work' \in [ Workers -> WorkType ]
      BY <2>2, <2>4, <2>5
    <2>7. Assigned'
      BY <2>1, <2>2, <2>4, <2>5 DEF TypeInv, Assigned, m
    <2> QED BY <2>6, <2>7
  <1>5. rowLock' = w /\ UNCHANGED << row, queue, keys, locks, lastRun, api, left, mails, log >>
    BY DEF Read
  <1> QED BY <1>4, <1>5 DEF TypeInv, TypeOK, WorkType

\* A mail is counted under the key of a step that mails.
LEMMA SendMailTyped ==
    ASSUME TypeInv, NEW w \in Workers, SendMail(w)
    PROVE  TypeInv' /\ StepKey(w) \in MailSteps \X Runs
  <1>1. StepKey(w) \in MailSteps \X Runs
    BY DEF TypeInv, TypeOK, Assigned, SendMail, At, StepKey, StepOf, MailSteps, Messages
  <1>2. AfterMail(work[w].msg, work[w].copy.status) \in Stages \ {"mail"}
    BY DEF AfterMail, Stages
  <1>3. work' \in [ Workers -> WorkType ] /\ Assigned'
    <2>1. work[w].msg.task # "qualify_lead"
      BY DEF TypeInv, Assigned, SendMail, At
    <2> QED BY <1>2, <2>1, ToTyped DEF SendMail
  <1>4. mails' \in [ MailSteps \X Runs -> Nat ]
    BY <1>1 DEF TypeInv, TypeOK, SendMail
  <1>5. UNCHANGED << row, rowLock, queue, keys, locks, lastRun, api, left, log >>
    BY DEF SendMail
  <1> QED BY <1>1, <1>3, <1>4, <1>5 DEF TypeInv, TypeOK, WorkType

\* A commit writes a lead.
LEMMA CommitTyped ==
    ASSUME TypeInv, NEW w \in Workers, Commit(w)
    PROVE  TypeInv'
  <1>1. PICK target \in Targets(work[w].msg) :
            /\ CanTransition(work[w].copy.status, target)
            /\ row' = Moved(work[w].copy, target)
            /\ log' = [ log EXCEPT !.stopped = @ \/ Stops(target) ]
            /\ \E stage \in AfterCommit(work[w].msg.task, target) : To(w, stage)
    BY DEF Commit
  <1>2. work[w].copy \in Lead /\ work[w].copy.status \in LeadStatus
    BY DEF TypeInv, TypeOK, Lead
  <1>3. row' \in Lead
    BY <1>1, <1>2, EdgesTyped, MovedLead
  <1>4. AfterCommit(work[w].msg.task, target) \subseteq Stages \ { "mail", "commit" }
    BY DEF AfterCommit, Stages
  <1>5. work' \in [ Workers -> WorkType ] /\ Assigned'
    BY <1>1, <1>4, ToTyped
  <1>6. rowLock' \in Workers \cup Requests \cup {NoOne}
    BY DEF Commit, Free, TypeInv, TypeOK
  <1>7. log' \in Histories
    BY <1>1 DEF TypeInv, TypeOK, Histories
  <1>8. UNCHANGED << queue, keys, locks, lastRun, api, left, mails >>
    BY DEF Commit
  <1> QED BY <1>3, <1>5, <1>6, <1>7, <1>8 DEF TypeInv, TypeOK, WorkType

\* What a task publishes at its end is well formed.
LEMMA FinishTyped ==
    ASSUME TypeInv, NEW w \in Workers, Finish(w)
    PROVE  TypeInv'
  <1>1. work[w].msg \in Messages /\ work[w].run \in Runs
    BY DEF TypeInv, TypeOK
  <1>2. queue' \subseteq Messages
    <2>1. Published(work[w].msg, work[w].run) \subseteq Messages
      BY <1>1, PublishedTyped
    <2> QED BY <2>1 DEF Finish, TypeInv, TypeOK
  <1>3. work' \in [ Workers -> WorkType ] /\ Assigned'
    BY IdleAgainTyped DEF Finish
  <1>4. rowLock' \in Workers \cup Requests \cup {NoOne} /\ locks' \in [ Steps -> Workers \cup {NoOne} ]
    BY UnlockedTyped DEF Finish, Free, TypeInv, TypeOK
  <1>5. log' \in Histories
    <2>1. StepKey(w) \in Steps \X Runs
      BY <1>1, StepTyped DEF StepKey
    <2>2. log.done \cup { StepKey(w) } \subseteq Steps \X Runs
      BY <2>1 DEF TypeInv, TypeOK, Histories
    <2> QED BY <2>2 DEF Finish, TypeInv, TypeOK, Histories
  <1>6. UNCHANGED << row, keys, lastRun, api, left, mails >>
    BY DEF Finish
  <1> QED BY <1>2, <1>3, <1>4, <1>5, <1>6 DEF TypeInv, TypeOK, WorkType

\* So is what schedule_followup passes on.
LEMMA ScheduleTyped ==
    ASSUME TypeInv, NEW m \in queue, ScheduleFollowup(m)
    PROVE  TypeInv'
  <1>1. [ m EXCEPT !.task = "send_followup" ] \in Messages
    BY DEF TypeInv, TypeOK, Messages, Tasks
  <1>2. queue' \subseteq Messages
    BY <1>1 DEF ScheduleFollowup, TypeInv, TypeOK
  <1>3. left' \in LeftType
    BY FaultTyped DEF ScheduleFollowup, TypeInv, TypeOK, LeftType
  <1>4. UNCHANGED << row, rowLock, work, keys, locks, lastRun, mails, log, api >>
    BY DEF ScheduleFollowup, Rest
  <1> QED BY <1>2, <1>3, <1>4 DEF TypeInv, TypeOK, Assigned, LeftType

\* What a caller adds to the queue.
LEMMA CallTyped ==
    ASSUME TypeInv, NEW task \in Tasks, queue' = queue \cup { Message(task, NoRun) },
           left' \in LeftType,
           UNCHANGED << Rest, api >>
    PROVE  TypeInv'
  <1>1. NoRun \in Runs
    BY WorkersAssumption DEF NoRun, Runs
  <1>2. queue' \subseteq Messages
    BY <1>1, MessageTyped DEF TypeInv, TypeOK
  <1> QED BY <1>2 DEF TypeInv, TypeOK, Assigned, Rest, LeftType

RequestType == [ op: { "send_campaign", "enrich_all_leads" },
                 stage: { "idle", "update", "commit" }, read: Lead ]

\* A request that is not one is well formed.
LEMMA NoRequestTyped == NoRequest \in RequestType
  BY NewLeadTyped DEF NoRequest, RequestType

\* What a request does to the row, the queue and its own state.
RequestSteps(r) ==
    \/ CampaignRead(r) \/ EnrichAllRead(r) \/ RequestUpdate(r) \/ RequestCommit(r)
    \/ RequestFails(r)

\* A request reads and writes a lead.
LEMMA RequestTyped ==
    ASSUME TypeInv, NEW r \in Requests, RequestSteps(r)
    PROVE  TypeInv'
  <1>0. api \in [ Requests -> RequestType ] /\ row \in Lead /\ log \in Histories
    BY DEF TypeInv, TypeOK, RequestType
  <1>1. CASE CampaignRead(r) \/ EnrichAllRead(r)
    <2>1. PICK op \in { "send_campaign", "enrich_all_leads" } : RequestRead(r, op)
      BY <1>1 DEF CampaignRead, EnrichAllRead
    <2>2. left' \in LeftType
      BY <2>1 DEF RequestRead, TypeInv, TypeOK, LeftType
    <2>3. [ op |-> op, stage |-> "update", read |-> row ] \in RequestType
      BY <1>0 DEF RequestType
    <2>4. api' \in [ Requests -> RequestType ]
      BY <1>0, <2>1, <2>3 DEF RequestRead
    <2>5. UNCHANGED << row, rowLock, queue, work, keys, locks, lastRun, mails, log >>
      BY <2>1 DEF RequestRead, Rest
    <2> QED BY <2>2, <2>4, <2>5 DEF TypeInv, TypeOK, Assigned, LeftType, RequestType
  <1>2. CASE RequestUpdate(r)
    <2>1. api' \in [ Requests -> RequestType ]
      BY <1>0, <1>2 DEF RequestUpdate, RequestType
    <2>2. rowLock' = r /\ UNCHANGED << row, queue, work, keys, locks, lastRun, left, mails, log >>
      BY <1>2 DEF RequestUpdate
    <2> QED BY <2>1, <2>2 DEF TypeInv, TypeOK, Assigned, RequestType
  <1>3. CASE RequestCommit(r)
    <2>1. api' \in [ Requests -> RequestType ]
      BY <1>0, <1>3, NoRequestTyped DEF RequestCommit
    <2>2. row' \in Lead
      <3>1. api[r].read \in Lead /\ "OUTREACH_SENT" \in LeadStatus
        BY <1>0 DEF RequestType, LeadStatus
      <3>2. Moved(api[r].read, "OUTREACH_SENT") \in Lead
        BY <3>1, MovedLead
      <3> QED BY <1>3, <3>1, <3>2 DEF RequestCommit
    <2>3. log' \in Histories
      <3>1. Touches(r) \in { 0, 1 }
        BY DEF Touches
      <3>2. log' = [ log EXCEPT !.taken = log.taken + Touches(r),
                     !.stale = IF row.status = api[r].read.status THEN log.stale
                               ELSE log.stale + 1 ]
        BY <1>3 DEF RequestCommit
      <3>3. /\ log.taken + Touches(r) \in Nat
            /\ (IF row.status = api[r].read.status THEN log.stale ELSE log.stale + 1) \in Nat
        BY <1>0, <3>1 DEF Histories
      <3> QED BY <1>0, <3>2, <3>3, HistoriesTyped
    <2>4. rowLock' = NoOne /\ UNCHANGED << queue, work, keys, locks, lastRun, left, mails >>
      BY <1>3 DEF RequestCommit
    <2> QED BY <2>1, <2>2, <2>3, <2>4 DEF TypeInv, TypeOK, Assigned, RequestType
  <1>4. CASE RequestFails(r)
    <2>1. api' \in [ Requests -> RequestType ] /\ left' \in LeftType
      BY <1>0, <1>4, NoRequestTyped, FaultTyped DEF RequestFails
    <2>2. log' \in Histories
      <3>1. Touches(r) \in { 0, 1 }
        BY DEF Touches
      <3>2. log' = [ log EXCEPT !.taken = log.taken + Touches(r), !.lost = log.lost + Touches(r) ]
        BY <1>4 DEF RequestFails
      <3>3. log.taken + Touches(r) \in Nat /\ log.lost + Touches(r) \in Nat
        BY <1>0, <3>1 DEF Histories
      <3> QED BY <1>0, <3>2, <3>3, HistoriesTyped
    <2>3. rowLock' \in Workers \cup Requests \cup {NoOne}
      BY <1>4 DEF RequestFails, Free, TypeInv, TypeOK
    <2>4. UNCHANGED << row, queue, work, keys, locks, lastRun, mails >>
      BY <1>4 DEF RequestFails
    <2> QED
      BY <2>1, <2>2, <2>3, <2>4 DEF TypeInv, TypeOK, Assigned, LeftType, RequestType
  <1> QED BY <1>1, <1>2, <1>3, <1>4 DEF RequestSteps

\* No worker's step and no fault leaves the types, and no followup is numbered
\* beyond the last: the messages in the queue stay well-formed.
LEMMA NextTyped == TypeInv /\ [Next]_vars => TypeInv'
  <1> SUFFICES ASSUME TypeInv, [Next]_vars PROVE TypeInv'
    OBVIOUS
  <1>1. ASSUME NEW m \in queue, ScheduleFollowup(m) PROVE TypeInv'
    BY <1>1, ScheduleTyped
  <1>2. ASSUME NEW m \in queue, NEW w \in Workers, Deliver(w, m) PROVE TypeInv'
    BY <1>2, DeliverTyped
  <1>3. ASSUME NEW w \in Workers, Lock(w) PROVE TypeInv'
    <2>1. work' \in [ Workers -> WorkType ] /\ Assigned'
      BY <1>3, ToTyped DEF Lock, Stages
    <2> QED BY <1>3, <2>1 DEF Lock, TypeInv, TypeOK, WorkType
  <1>4. ASSUME NEW w \in Workers, GiveUp(w) PROVE TypeInv'
    <2>1. work' \in [ Workers -> WorkType ] /\ Assigned'
      BY <1>4, IdleAgainTyped DEF GiveUp
    <2> QED BY <1>4, <2>1 DEF GiveUp, TypeInv, TypeOK, WorkType
  <1>5. ASSUME NEW w \in Workers, Read(w) PROVE TypeInv'
    BY <1>5, ReadTyped
  <1>6. ASSUME NEW w \in Workers, SendMail(w) PROVE TypeInv'
    BY <1>6, SendMailTyped
  <1>7. ASSUME NEW w \in Workers, Commit(w) PROVE TypeInv'
    BY <1>7, CommitTyped
  <1>8. ASSUME NEW w \in Workers, Finish(w) PROVE TypeInv'
    BY <1>8, FinishTyped
  <1>9. ASSUME NEW w \in Workers, Fail(w), UNCHANGED left \/ Fault PROVE TypeInv'
    <2>1. Retried(work[w].msg) \in SUBSET Messages
      BY RetriedTyped DEF TypeInv, TypeOK
    <2>2. left' \in LeftType
      BY <1>9, FaultTyped DEF TypeInv, TypeOK, LeftType
    <2> QED BY <1>9, <2>1, <2>2, AbandonTyped, UnlockedTyped DEF Fail
  <1>10. ASSUME NEW w \in Workers, Crash(w) \/ Kill(w) PROVE TypeInv'
    <2>1. { work[w].msg } \in SUBSET Messages /\ {} \in SUBSET Messages
      BY DEF TypeInv, TypeOK
    <2>2. left' \in LeftType
      BY <1>10, FaultTyped DEF Crash, Kill
    <2>3. locks \in [ Steps -> Workers \cup {NoOne} ]
      BY DEF TypeInv, TypeOK
    <2> QED BY <1>10, <2>1, <2>2, <2>3, AbandonTyped DEF Crash, Kill
  <1>11. ASSUME NEW w \in Workers, Redeliver(w) PROVE TypeInv'
    <2>1. left' \in LeftType
      BY <1>11, FaultTyped DEF Redeliver
    <2> QED BY <1>11, <2>1 DEF Redeliver, TypeInv, TypeOK, Assigned, LeftType
  <1>12. ASSUME NEW step \in Steps, Expire(step) PROVE TypeInv'
    BY <1>12 DEF Expire, TypeInv, TypeOK, Assigned
  <1>13. ASSUME NEW task \in Tasks, EndpointCalled(task) PROVE TypeInv'
    <2>1. left' \in LeftType
      BY <1>13 DEF EndpointCalled, TypeInv, TypeOK, LeftType
    <2> QED BY <1>13, <2>1, CallTyped DEF EndpointCalled
  <1>14. ASSUME ReplyArrives \/ PauseCalled PROVE TypeInv'
    <2>1. \/ left.replies > 0 /\ left' = [ left EXCEPT !.replies = left.replies - 1 ]
          \/ left.pauses > 0 /\ left' = [ left EXCEPT !.pauses = left.pauses - 1 ]
      BY <1>14 DEF ReplyArrives, PauseCalled
    <2>3. left' \in LeftType
      <3>1. left \in LeftType
        BY DEF TypeInv, TypeOK, LeftType
      <3>2. /\ left.replies > 0 => left.replies - 1 \in Nat
            /\ left.pauses > 0 => left.pauses - 1 \in Nat
        BY <3>1 DEF LeftType
      <3> QED BY <2>1, <3>1, <3>2 DEF LeftType
    <2>2. "analyze_reply" \in Tasks /\ "pause_outreach" \in Tasks
      BY DEF Tasks
    <2> QED BY <1>14, <2>2, <2>3, CallTyped DEF ReplyArrives, PauseCalled
  <1>15. ASSUME NEW r \in Requests, RequestSteps(r) PROVE TypeInv'
    BY <1>15, RequestTyped
  <1>16. CASE UNCHANGED vars
    BY <1>16 DEF vars, TypeInv, TypeOK, Assigned
  <1> QED
    BY <1>1, <1>2, <1>3, <1>4, <1>5, <1>6, <1>7, <1>8, <1>9, <1>10, <1>11, <1>12,
       <1>13, <1>14, <1>15, <1>16 DEF Next, Handle, Raise, CommitRefused, RequestSteps

\* The types hold at the start.
LEMMA InitTyped == Init => TypeInv
  <1> SUFFICES ASSUME Init PROVE TypeInv
    OBVIOUS
  <1>1. row \in Lead
    <2>1. EnterAt \in LeadStatus
      BY WorkersAssumption DEF LeadStatus
    <2> QED BY <2>1, NewLeadTyped DEF Init, Lead
  <1>2. lastRun \in Runs /\ 1 .. lastRun \subseteq Runs
    BY WorkersAssumption DEF Init, Runs
  <1>3. queue \subseteq Messages
    <2>1. "start_outreach" \in Tasks
      BY DEF Tasks
    <2> QED BY <1>2, <2>1, MessageTyped DEF Init
  <1>4. work \in [ Workers -> WorkType ] /\ Assigned
    <2>1. Idle \in WorkType /\ Idle.stage = "idle" /\ Idle.msg.task = "pause_outreach"
      BY IdleTyped DEF Idle, WorkType, Message
    <2> QED BY <2>1 DEF Init, Assigned
  <1>5. left \in LeftType
    BY WorkersAssumption DEF Init, LeftType
  <1>6. api \in [ Requests -> RequestType ] /\ log \in Histories
    BY NoRequestTyped DEF Init, Histories
  <1> QED
    BY <1>1, <1>2, <1>3, <1>4, <1>5, <1>6
       DEF Init, TypeInv, TypeOK, WorkType, LeftType, RequestType

\* Every variable keeps its type in all interleavings of the tasks, through
\* retries, crashes, time limits and redeliveries.
THEOREM WorkersTypeCorrect == Spec => []TypeOK
  <1>1. TypeInv => TypeOK
    BY DEF TypeInv
  <1> QED BY <1>1, InitTyped, NextTyped, PTL DEF Spec

-----------------------------------------------------------------------------
(* The row lock: a task decides on the row it changes *)

Holding(w) == work[w].stage \in { "mail", "commit" }

\* Inductive: whoever is past the read holds the row lock, what it read is still
\* what is committed, and its task accepts it.  A request holds the row lock from
\* its UPDATE only, and a campaign has read a lead that is ready.
HolderInv ==
    /\ \A w \in Workers : Holding(w) => rowLock = w /\ work[w].copy = row
    /\ \A w \in Workers : Holding(w) => Accepts(work[w].msg.task, row.status)
    /\ \A r \in Requests : api[r].stage = "commit" => rowLock = r
    /\ \A r \in Requests : api[r].stage # "idle" /\ api[r].op = "send_campaign"
                              => api[r].read.status = "EMAIL_READY"

\* Each worker stays what it is to the row lock: w alone may change, it lets the
\* lock go, and its copy and message are the old ones if it still needs it.
LEMMA HolderSteps ==
    ASSUME TypeInv, HolderInv, NEW w \in Workers,
           NEW new \in WorkType, work' = [ work EXCEPT ![w] = new ],
           new.stage \notin { "mail", "commit" },
           row' = row, api' = api, rowLock' \in { rowLock, Free(w) }
    PROVE  HolderInv'
  <1>1. \A v \in Workers : v # w => work'[v] = work[v]
    BY DEF TypeInv, TypeOK
  <1>2. work'[w] = new
    BY DEF TypeInv, TypeOK
  <1>3. \A v \in Workers : v # w /\ rowLock = v => rowLock' = v
    BY DEF Free
  <1>4. \A r \in Requests : rowLock = r => rowLock' = r
    BY WorkersAssumption DEF Free
  <1> QED BY <1>1, <1>2, <1>3, <1>4 DEF HolderInv, Holding, At

\* When nobody holds the row lock, nobody is past the read.
LEMMA NobodyHolds ==
    ASSUME HolderInv, rowLock \notin Workers
    PROVE  \A w \in Workers : ~ Holding(w)
  BY DEF HolderInv

\* A worker in another stage, with its message, run and copy.
LEMMA ToWork ==
    ASSUME TypeInv, NEW w \in Workers, NEW stage \in Stages, To(w, stage)
    PROVE  /\ work' = [ work EXCEPT ![w] = [ work[w] EXCEPT !.stage = stage ] ]
           /\ [ work[w] EXCEPT !.stage = stage ] \in WorkType
           /\ [ work[w] EXCEPT !.stage = stage ].stage = stage
           /\ [ work[w] EXCEPT !.stage = stage ].msg = work[w].msg
           /\ [ work[w] EXCEPT !.stage = stage ].copy = work[w].copy
  BY DEF TypeInv, TypeOK, To, WorkType

\* The same for a worker that ends its task.
LEMMA HolderIdles ==
    ASSUME TypeInv, HolderInv, NEW w \in Workers, work' = [ work EXCEPT ![w] = Idle ],
           row' = row, api' = api, rowLock' \in { rowLock, Free(w) }
    PROVE  HolderInv'
  <1>1. Idle \in WorkType /\ Idle.stage = "idle"
    BY IdleTyped DEF Idle, WorkType
  <1> QED BY <1>1, HolderSteps

\* The worker that takes a message is the only one that changes.
LEMMA TakesOne ==
    ASSUME TypeInv, NEW m \in queue, NEW w \in Workers, Deliver(w, m)
    PROVE  /\ \A v \in Workers : v # w => work'[v] = work[v]
           /\ \/ work' = work /\ keys' = keys
              \/ /\ work'[w].stage = "lock" /\ work'[w].msg = m /\ StepKey(w)' \notin keys
                 /\ keys' = IF m.task = "pause_outreach" THEN keys
                            ELSE keys \cup { StepKey(w)' }
  <1> DEFINE run   == IF m.run = NoRun /\ m.task # "pause_outreach" THEN lastRun + 1 ELSE m.run
             taken == [ Idle EXCEPT !.stage = "lock", !.msg = m, !.run = run ]
  <1>1. taken.stage = "lock" /\ taken.msg = m /\ taken.run = run
    BY DEF Idle
  <1>2. \/ work' = work /\ keys' = keys
        \/ /\ work' = [ work EXCEPT ![w] = taken ] /\ << StepOf(m), run >> \notin keys
           /\ keys' = IF m.task = "pause_outreach" THEN keys
                      ELSE keys \cup { << StepOf(m), run >> }
    BY DEF Deliver
  <1> HIDE DEF taken, run
  <1>3. work \in [ Workers -> WorkType ]
    BY DEF TypeInv, TypeOK, WorkType
  <1>4. CASE work' = [ work EXCEPT ![w] = taken ]
    <2>1. work'[w] = taken /\ \A v \in Workers : v # w => work'[v] = work[v]
      BY <1>3, <1>4
    <2>2. StepKey(w)' = << StepOf(m), run >>
      BY <1>1, <2>1 DEF StepKey, StepOf
    <2> QED BY <1>1, <1>2, <2>1, <2>2
  <1> QED BY <1>2, <1>4

\* Whoever reads the row holds it from then on, alone.
LEMMA HolderReads ==
    ASSUME TypeInv, HolderInv, NEW w \in Workers, Read(w)
    PROVE  HolderInv'
  <1>1. rowLock = NoOne /\ rowLock' = w /\ row' = row /\ api' = api
    BY DEF Read
  <1>2. \A v \in Workers : ~ Holding(v)
    BY <1>1, NobodyHolds, WorkersAssumption
  <1>3. \A r \in Requests : api[r].stage # "commit"
    BY <1>1, WorkersAssumption DEF HolderInv
  <1>4. PICK stage : /\ work' = [ work EXCEPT ![w].copy = row, ![w].stage = stage ]
                     /\ stage # "leave" => Accepts(work[w].msg.task, row.status)
    <2> DEFINE next == IF ~ Accepts(work[w].msg.task, row.status) THEN { "leave" }
                       ELSE { AfterRead(work[w].msg, row.status) } \cup
                            (IF MayStopAfterRead(work[w].msg, row.status)
                             THEN { "leave" } ELSE {})
    <2>1. PICK stage \in next : work' = [ work EXCEPT ![w].copy = row, ![w].stage = stage ]
      BY DEF Read
    <2>2. stage # "leave" => Accepts(work[w].msg.task, row.status)
      BY <2>1
    <2> QED BY <2>1, <2>2
  <1>5. work'[w].copy = row /\ work'[w].stage = stage /\ work'[w].msg = work[w].msg
    BY <1>4 DEF TypeInv, TypeOK
  <1>6. \A v \in Workers : v # w => work'[v] = work[v]
    BY <1>4 DEF TypeInv, TypeOK
  <1> QED BY <1>1, <1>2, <1>3, <1>4, <1>5, <1>6 DEF HolderInv, Holding, At

\* The mail leaves the row with its holder.
LEMMA HolderMails ==
    ASSUME TypeInv, HolderInv, NEW w \in Workers, SendMail(w)
    PROVE  HolderInv'
  <1> DEFINE stage == AfterMail(work[w].msg, work[w].copy.status)
             new   == [ work[w] EXCEPT !.stage = stage ]
  <1>1. stage \in Stages \ {"mail"}
    BY DEF AfterMail, Stages
  <1>2. /\ work' = [ work EXCEPT ![w] = new ]
        /\ new.stage = stage /\ new.copy = work[w].copy /\ new.msg = work[w].msg
    BY <1>1, ToWork DEF SendMail
  <1>3. rowLock = w /\ work[w].copy = row /\ Accepts(work[w].msg.task, row.status)
    BY DEF HolderInv, Holding, SendMail, At
  <1>4. row' = row /\ api' = api /\ rowLock' = rowLock
    BY DEF SendMail
  <1>5. work'[w] = new /\ \A v \in Workers : v # w => work'[v] = work[v]
    BY <1>2 DEF TypeInv, TypeOK
  <1> HIDE DEF stage, new
  <1> QED BY <1>1, <1>2, <1>3, <1>4, <1>5 DEF HolderInv, Holding, At

\* The commit lets the row go when nobody else has read it.
LEMMA HolderCommits ==
    ASSUME TypeInv, HolderInv, NEW w \in Workers, Commit(w)
    PROVE  HolderInv'
  <1>1. rowLock = w /\ rowLock' = NoOne /\ api' = api
    BY DEF HolderInv, Holding, Commit, At, Free
  <1>2. PICK stage \in { "publish", "leave" } : To(w, stage)
    BY DEF Commit, AfterCommit
  <1>3. work'[w].stage = stage /\ \A v \in Workers : v # w => work'[v] = work[v]
    BY <1>2 DEF To, TypeInv, TypeOK
  <1>4. \A v \in Workers : v # w => ~ Holding(v)
    BY <1>1 DEF HolderInv
  <1>5. \A r \in Requests : api[r].stage # "commit"
    BY <1>1, WorkersAssumption DEF HolderInv
  <1> QED BY <1>1, <1>2, <1>3, <1>4, <1>5 DEF HolderInv, Holding, At

\* A request is another from one step to the next, the others stay.
LEMMA OneRequest ==
    ASSUME TypeInv, NEW r \in Requests, NEW new, api' = [ api EXCEPT ![r] = new ]
    PROVE  api'[r] = new /\ \A q \in Requests : q # r => api'[q] = api[q]
  BY DEF TypeInv, TypeOK

\* A request changes the row only when no worker holds it.
LEMMA HolderRequests ==
    ASSUME TypeInv, HolderInv, NEW r \in Requests, RequestSteps(r)
    PROVE  HolderInv'
  <1>0. work' = work
    BY DEF RequestSteps, CampaignRead, EnrichAllRead, RequestRead, Rest, RequestUpdate,
           RequestCommit, RequestFails
  <1>1. CASE CampaignRead(r) \/ EnrichAllRead(r)
    <2>1. PICK op : /\ RequestRead(r, op)
                    /\ op = "send_campaign" => CanTransition(row.status, "OUTREACH_SENT")
      BY <1>1 DEF CampaignRead, EnrichAllRead
    <2>2. row.status \in LeadStatus
      BY DEF TypeInv, TypeOK, Lead
    <2>3. op = "send_campaign" => row.status = "EMAIL_READY"
      BY <2>1, <2>2 DEF CanTransition, Transitions, LeadStatus
    <2>4. api' = [ api EXCEPT ![r] = [ op |-> op, stage |-> "update", read |-> row ] ]
      BY <2>1 DEF RequestRead
    <2>5. row' = row /\ rowLock' = rowLock
      BY <2>1 DEF RequestRead, Rest
    <2> QED BY <1>0, <2>3, <2>4, <2>5, OneRequest DEF HolderInv, Holding
  <1>2. CASE RequestUpdate(r)
    <2>1. \A v \in Workers : ~ Holding(v)
      BY <1>2, NobodyHolds, WorkersAssumption DEF RequestUpdate
    <2>2. \A q \in Requests : api[q].stage # "commit"
      BY <1>2, WorkersAssumption DEF RequestUpdate, HolderInv
    <2>3. /\ api'[r].stage = "commit" /\ api'[r].op = api[r].op /\ api'[r].read = api[r].read
          /\ \A q \in Requests : q # r => api'[q] = api[q]
      BY <1>2 DEF RequestUpdate, TypeInv, TypeOK
    <2>4. row' = row /\ rowLock' = r /\ api[r].stage = "update"
      BY <1>2 DEF RequestUpdate
    <2> QED BY <1>0, <2>1, <2>2, <2>3, <2>4 DEF HolderInv, Holding
  <1>3. CASE RequestCommit(r)
    <2>1. rowLock = r /\ rowLock' = NoOne
      BY <1>3 DEF RequestCommit, HolderInv
    <2>2. \A v \in Workers : ~ Holding(v)
      BY <2>1, NobodyHolds, WorkersAssumption
    <2>3. \A q \in Requests : q # r => api[q].stage # "commit"
      BY <2>1 DEF HolderInv
    <2>4. api'[r] = NoRequest /\ \A q \in Requests : q # r => api'[q] = api[q]
      BY <1>3, OneRequest DEF RequestCommit
    <2> QED BY <1>0, <2>2, <2>3, <2>4 DEF HolderInv, Holding, NoRequest
  <1>4. CASE RequestFails(r)
    <2>1. row' = row /\ rowLock' = Free(r)
      BY <1>4 DEF RequestFails
    <2>2. api'[r] = NoRequest /\ \A q \in Requests : q # r => api'[q] = api[q]
      BY <1>4, OneRequest DEF RequestFails
    <2>3. /\ \A v \in Workers : rowLock = v => rowLock' = v
          /\ \A q \in Requests : q # r /\ rowLock = q => rowLock' = q
      BY <2>1, WorkersAssumption DEF Free
    <2> QED BY <1>0, <2>1, <2>2, <2>3 DEF HolderInv, Holding, NoRequest
  <1> QED BY <1>1, <1>2, <1>3, <1>4 DEF RequestSteps

\* Every other step leaves the row, the requests and whoever holds the row alone.
LEMMA HolderNext == TypeInv /\ HolderInv /\ [Next]_vars => HolderInv'
  <1> SUFFICES ASSUME TypeInv, HolderInv, [Next]_vars PROVE HolderInv'
    OBVIOUS
  <1>1. ASSUME NEW w \in Workers, NEW m \in queue, Deliver(w, m) PROVE HolderInv'
    <2>1. row' = row /\ api' = api /\ rowLock' = rowLock
      BY <1>1 DEF Deliver
    <2>2. \A v \in Workers : work'[v] = work[v] \/ work'[v].stage = "lock"
      BY <1>1, TakesOne
    <2> QED BY <2>1, <2>2 DEF HolderInv, Holding, At
  <1>2. ASSUME NEW w \in Workers, Lock(w) PROVE HolderInv'
    <2> DEFINE new == [ work[w] EXCEPT !.stage = "read" ]
    <2>1. work' = [ work EXCEPT ![w] = new ] /\ new \in WorkType /\ new.stage = "read"
      BY <1>2, ToWork DEF Lock, Stages
    <2>2. row' = row /\ api' = api /\ rowLock' = rowLock
      BY <1>2 DEF Lock
    <2> HIDE DEF new
    <2> QED BY <2>1, <2>2, HolderSteps
  <1>3. ASSUME NEW w \in Workers, GiveUp(w) \/ Finish(w) PROVE HolderInv'
    BY <1>3, HolderIdles DEF GiveUp, Finish
  <1>4. ASSUME NEW w \in Workers, Fail(w) \/ Crash(w) \/ Kill(w) PROVE HolderInv'
    BY <1>4, HolderIdles DEF Fail, Crash, Kill, Abandon
  <1>5. ASSUME NEW w \in Workers, Read(w) \/ SendMail(w) \/ Commit(w) PROVE HolderInv'
    BY <1>5, HolderReads, HolderMails, HolderCommits
  <1>6. ASSUME NEW r \in Requests, RequestSteps(r) PROVE HolderInv'
    BY <1>6, HolderRequests
  <1>7. ASSUME UNCHANGED << row, rowLock, work, api >> PROVE HolderInv'
    BY <1>7 DEF HolderInv, Holding, At
  <1>8. ASSUME UNCHANGED vars PROVE HolderInv'
    BY <1>7, <1>8 DEF vars
  <1> QED
    <2>1. ASSUME Next PROVE HolderInv'
      <3>1. ASSUME NEW m \in queue, ScheduleFollowup(m) PROVE HolderInv'
        BY <1>7, <3>1 DEF ScheduleFollowup, Rest
      <3>2. ASSUME NEW w \in Workers, Redeliver(w) PROVE HolderInv'
        BY <1>7, <3>2 DEF Redeliver
      <3>3. ASSUME NEW step \in Steps, Expire(step) PROVE HolderInv'
        BY <1>7, <3>3 DEF Expire
      <3>4. ASSUME NEW task \in Tasks, EndpointCalled(task) PROVE HolderInv'
        BY <1>7, <3>4 DEF EndpointCalled, Rest
      <3>5. ASSUME ReplyArrives \/ PauseCalled PROVE HolderInv'
        BY <1>7, <3>5 DEF ReplyArrives, PauseCalled, Rest
      <3> QED
        BY <1>1, <1>2, <1>3, <1>4, <1>5, <1>6, <2>1, <3>1, <3>2, <3>3, <3>4, <3>5
           DEF Next, Handle, Raise, CommitRefused, RequestSteps
    <2> QED BY <1>8, <2>1

\* Nobody holds the row at the start.
LEMMA HolderInit == Init => HolderInv
  BY DEF Init, HolderInv, Holding, At, Idle, NoRequest

\* A task changes the committed row along an edge of the graph only, whatever
\* happens to the distributed locks: the row lock, held from the SELECT FOR
\* UPDATE to the commit, is what makes the decision good.
THEOREM TasksMoveAlongGraph == Spec => TasksFollowGraph
  <1>1. ASSUME TypeInv, HolderInv, [Next]_vars, row' # row, UNCHANGED api
        PROVE  CanTransition(row.status, row'.status)
    <2>1. ASSUME NEW w \in Workers, Commit(w) PROVE CanTransition(row.status, row'.status)
      <3>1. work[w].copy = row /\ row \in Lead
        BY <1>1, <2>1 DEF HolderInv, Holding, Commit, At, TypeInv, TypeOK
      <3>2. PICK target : CanTransition(row.status, target) /\ row' = Moved(row, target)
        BY <2>1, <3>1 DEF Commit
      <3>3. row.status \in LeadStatus
        BY <3>1 DEF Lead
      <3> QED BY <3>1, <3>2, <3>3, EdgesTyped, MovedLead
    <2>2. ASSUME NEW r \in Requests PROVE ~ RequestCommit(r)
      BY <1>1, OneRequest DEF RequestCommit, NoRequest
    <2> QED
      BY <1>1, <2>1, <2>2 DEF Next, Handle, ScheduleFollowup, Deliver, Lock, GiveUp, Read,
         SendMail, CommitRefused, Finish, Raise, Fail, Crash, Kill, Abandon, Redeliver, Expire,
         EndpointCalled, ReplyArrives, PauseCalled, CampaignRead, EnrichAllRead, RequestRead,
         RequestUpdate, RequestFails, Rest, vars
  <1>2. TypeInv /\ HolderInv /\ [Next]_vars
            => [ row' # row /\ UNCHANGED api => CanTransition(row.status, row'.status) ]_vars
    BY <1>1
  <1> QED
    BY <1>2, InitTyped, NextTyped, HolderInit, HolderNext, PTL DEF Spec, TasksFollowGraph

\* No mail goes out to a lead whose committed status does not call for it.
THEOREM MailsAreNotStale == Spec => NoStaleMail
  <1>1. ASSUME TypeInv, HolderInv, [Next]_vars,
               NEW k \in DOMAIN mails, mails'[k] # mails[k]
        PROVE  Accepts(k[1][1], row.status)
    <2>1. ASSUME NEW w \in Workers, SendMail(w) PROVE Accepts(k[1][1], row.status)
      <3>1. k = StepKey(w)
        BY <1>1, <2>1 DEF SendMail, TypeInv, TypeOK
      <3>2. k[1][1] = work[w].msg.task
        BY <3>1 DEF StepKey, StepOf
      <3> QED BY <1>1, <2>1, <3>2 DEF HolderInv, Holding, SendMail, At
    <2> QED
      BY <1>1, <2>1 DEF Next, Handle, ScheduleFollowup, Deliver, Lock, GiveUp, Read, Commit,
         CommitRefused, Finish, Raise, Fail, Crash, Kill, Abandon, Redeliver, Expire,
         EndpointCalled, ReplyArrives, PauseCalled, CampaignRead, EnrichAllRead, RequestRead,
         RequestUpdate, RequestCommit, RequestFails, Rest, vars
  <1>2. TypeInv /\ HolderInv /\ [Next]_vars
            => [ \A k \in DOMAIN mails :
                   mails'[k] # mails[k] => Accepts(k[1][1], row.status) ]_vars
    BY <1>1
  <1> QED
    BY <1>2, InitTyped, NextTyped, HolderInit, HolderNext, PTL DEF Spec, NoStaleMail

-----------------------------------------------------------------------------
(* The step key: a mail of a run goes out once *)

\* pause_outreach sets no key.
Claims(w) == ~ At(w, "idle") /\ work[w].msg.task # "pause_outreach"

Unmailed(w) == Claims(w) /\ work[w].stage \in { "lock", "read", "mail" }

\* Inductive: a key is set for every step at work and for every mail sent, no
\* two workers are at the same step of a run, and who is before its mail is
\* the first to be there.
ClaimInv ==
    /\ \A w \in Workers : Claims(w) => StepKey(w) \in keys
    /\ \A v, w \in Workers : v # w /\ Claims(v) /\ Claims(w) => StepKey(v) # StepKey(w)
    /\ \A k \in DOMAIN mails : mails[k] > 0 => k \in keys
    /\ \A w \in Workers, k \in DOMAIN mails : Unmailed(w) /\ k = StepKey(w) => mails[k] = 0

\* A worker goes on with its task, and never back to before the mail, or ends it.
GoesOn(w) ==
    \/ work'[w] = work[w]
    \/ At(w, "idle")'
    \/ /\ ~ At(w, "idle")
       /\ work'[w].msg = work[w].msg /\ work'[w].run = work[w].run
       /\ Unmailed(w)' => Unmailed(w)

\* Workers that go on with their tasks leave keys and mails as they were.
LEMMA ClaimsGoOn ==
    ASSUME ClaimInv, \A w \in Workers : GoesOn(w), keys' = keys, mails' = mails
    PROVE  ClaimInv'
  <1>1. \A w \in Workers : Claims(w)' => Claims(w) /\ StepKey(w)' = StepKey(w)
    BY DEF GoesOn, Claims, At, StepKey, StepOf
  <1>2. \A w \in Workers : Unmailed(w)' => Unmailed(w) /\ Claims(w)'
    BY DEF GoesOn, Unmailed, Claims, At
  <1> QED BY <1>1, <1>2 DEF ClaimInv

\* One worker ends its task, or goes to another stage of it.
LEMMA EndsGoOn ==
    ASSUME TypeInv, NEW w \in Workers, work' = [ work EXCEPT ![w] = Idle ]
    PROVE  \A v \in Workers : GoesOn(v)
  BY DEF GoesOn, TypeInv, TypeOK, At, Idle

\* The second case of it,
LEMMA StagesGoOn ==
    ASSUME TypeInv, NEW w \in Workers, NEW stage \in Stages, To(w, stage), ~ At(w, "idle"),
           stage \in { "lock", "read", "mail" } => Unmailed(w)
    PROVE  \A v \in Workers : GoesOn(v)
  <1>1. /\ work'[w].stage = stage /\ work'[w].msg = work[w].msg /\ work'[w].run = work[w].run
        /\ \A v \in Workers : v # w => work'[v] = work[v]
    BY DEF To, TypeInv, TypeOK
  <1> QED BY <1>1 DEF GoesOn, Unmailed, Claims, At

\* and the read, which is before the mail.
LEMMA ReadGoesOn ==
    ASSUME TypeInv, NEW w \in Workers, Read(w)
    PROVE  \A v \in Workers : GoesOn(v)
  <1>1. PICK stage : work' = [ work EXCEPT ![w].copy = row, ![w].stage = stage ]
    BY DEF Read
  <1>2. /\ work'[w].msg = work[w].msg /\ work'[w].run = work[w].run
        /\ \A v \in Workers : v # w => work'[v] = work[v]
    BY <1>1 DEF TypeInv, TypeOK
  <1>3. work[w].stage = "read"
    BY DEF Read, At
  <1> QED BY <1>2, <1>3 DEF GoesOn, Unmailed, Claims, At

\* A delivery sets a key that was not set: nobody else is at the step, and its
\* mail has not been sent.
LEMMA ClaimsDeliver ==
    ASSUME TypeInv, ClaimInv, NEW m \in queue, NEW w \in Workers, Deliver(w, m)
    PROVE  ClaimInv'
  <1>1. mails' = mails
    BY DEF Deliver
  <1>2. CASE work' = work /\ keys' = keys
    BY <1>1, <1>2, ClaimsGoOn DEF GoesOn
  <1>3. CASE /\ work'[w].stage = "lock" /\ work'[w].msg = m /\ StepKey(w)' \notin keys
             /\ keys' = IF m.task = "pause_outreach" THEN keys ELSE keys \cup { StepKey(w)' }
    <2>1. /\ \A v \in Workers \ {w} : work'[v] = work[v]
          /\ keys \subseteq keys'
          /\ Claims(w)' => StepKey(w)' \in keys'
      BY <1>3, TakesOne DEF Claims
    <2>2. \A v \in Workers \ {w} :
              /\ Claims(v)' = Claims(v) /\ Unmailed(v)' = Unmailed(v)
              /\ StepKey(v)' = StepKey(v)
      BY <2>1 DEF Claims, Unmailed, StepKey, StepOf, At
    <2>3. \A k \in DOMAIN mails : k = StepKey(w)' => mails[k] = 0
      BY <1>3 DEF ClaimInv, TypeInv, TypeOK
    <2>4. \A v \in Workers \ {w} : Claims(v)' => StepKey(v)' # StepKey(w)'
      BY <1>3, <2>2 DEF ClaimInv
    <2> QED BY <1>1, <2>1, <2>2, <2>3, <2>4 DEF ClaimInv, Unmailed
  <1> QED BY <1>2, <1>3, TakesOne

\* The mail counts under the key of its own worker alone.
LEMMA ClaimsMail ==
    ASSUME TypeInv, ClaimInv, NEW w \in Workers, SendMail(w)
    PROVE  ClaimInv'
  <1>1. StepKey(w) \in DOMAIN mails /\ keys' = keys
    BY SendMailTyped DEF SendMail, TypeInv, TypeOK
  <1>2. \A k \in DOMAIN mails : mails'[k] = IF k = StepKey(w) THEN mails[k] + 1 ELSE mails[k]
    BY <1>1 DEF SendMail, TypeInv, TypeOK
  <1>3. Claims(w) /\ StepKey(w) \in keys
    BY DEF TypeInv, Assigned, Claims, SendMail, At, ClaimInv
  <1>4. PICK stage \in { "commit", "publish" } : To(w, stage)
    BY DEF SendMail, AfterMail
  <1>5. /\ work'[w].stage = stage /\ work'[w].msg = work[w].msg /\ work'[w].run = work[w].run
        /\ \A v \in Workers \ {w} : work'[v] = work[v]
    BY <1>4 DEF To, TypeInv, TypeOK
  <1>6. \A v \in Workers :
            /\ Claims(v)' = Claims(v) /\ StepKey(v)' = StepKey(v)
            /\ Unmailed(v)' => v # w /\ Unmailed(v)
    BY <1>3, <1>5 DEF Claims, Unmailed, StepKey, StepOf, At
  <1>7. \A v \in Workers : Unmailed(v)' => StepKey(v) # StepKey(w)
    BY <1>3, <1>6 DEF ClaimInv, Unmailed
  <1>8. DOMAIN mails' = DOMAIN mails
    BY DEF SendMail
  <1> QED BY <1>1, <1>2, <1>3, <1>6, <1>7, <1>8 DEF ClaimInv

\* No step lets two workers at one step of a run.
LEMMA ClaimNext == TypeInv /\ ClaimInv /\ [Next]_vars => ClaimInv'
  <1> SUFFICES ASSUME TypeInv, ClaimInv, [Next]_vars PROVE ClaimInv'
    OBVIOUS
  <1>1. ASSUME NEW m \in queue, NEW w \in Workers, Deliver(w, m) PROVE ClaimInv'
    BY <1>1, ClaimsDeliver
  <1>2. ASSUME NEW w \in Workers, SendMail(w) PROVE ClaimInv'
    BY <1>2, ClaimsMail
  <1>3. ASSUME NEW w \in Workers, GiveUp(w) \/ Finish(w) \/ Fail(w) \/ Crash(w) \/ Kill(w)
        PROVE  ClaimInv'
    <2>1. work' = [ work EXCEPT ![w] = Idle ] /\ keys' = keys /\ mails' = mails
      BY <1>3 DEF GiveUp, Finish, Fail, Crash, Kill, Abandon
    <2> QED BY <2>1, EndsGoOn, ClaimsGoOn
  <1>4. ASSUME NEW w \in Workers, Lock(w) PROVE ClaimInv'
    <2>1. Unmailed(w) \/ ~ Claims(w)
      BY <1>4 DEF Lock, Unmailed, At
    <2>2. \A v \in Workers : GoesOn(v)
      <3>1. /\ work'[w].msg = work[w].msg /\ work'[w].run = work[w].run
            /\ \A v \in Workers : v # w => work'[v] = work[v]
        BY <1>4 DEF Lock, To, TypeInv, TypeOK
      <3> QED BY <1>4, <2>1, <3>1 DEF Lock, GoesOn, Unmailed, Claims, At
    <2> QED BY <1>4, <2>2, ClaimsGoOn DEF Lock
  <1>5. ASSUME NEW w \in Workers, Read(w) PROVE ClaimInv'
    BY <1>5, ReadGoesOn, ClaimsGoOn DEF Read
  <1>6. ASSUME NEW w \in Workers, Commit(w) PROVE ClaimInv'
    <2>1. PICK stage \in { "publish", "leave" } : To(w, stage)
      BY <1>6 DEF Commit, AfterCommit
    <2>2. ~ At(w, "idle")
      BY <1>6 DEF Commit, At
    <2> QED BY <1>6, <2>1, <2>2, StagesGoOn, ClaimsGoOn DEF Commit, Stages
  <1>7. ASSUME UNCHANGED << work, keys, mails >> PROVE ClaimInv'
    BY <1>7, ClaimsGoOn DEF GoesOn
  <1>8. ASSUME Next PROVE ClaimInv'
    <2>1. ASSUME NEW m \in queue, ScheduleFollowup(m) PROVE ClaimInv'
      BY <1>7, <2>1 DEF ScheduleFollowup, Rest
    <2>2. ASSUME NEW w \in Workers, Redeliver(w) PROVE ClaimInv'
      BY <1>7, <2>2 DEF Redeliver
    <2>3. ASSUME NEW step \in Steps, Expire(step) PROVE ClaimInv'
      BY <1>7, <2>3 DEF Expire
    <2>4. ASSUME NEW task \in Tasks, EndpointCalled(task) PROVE ClaimInv'
      BY <1>7, <2>4 DEF EndpointCalled, Rest
    <2>5. ASSUME ReplyArrives \/ PauseCalled PROVE ClaimInv'
      BY <1>7, <2>5 DEF ReplyArrives, PauseCalled, Rest
    <2>6. ASSUME NEW r \in Requests, RequestSteps(r) PROVE ClaimInv'
      BY <1>7, <2>6 DEF RequestSteps, CampaignRead, EnrichAllRead, RequestRead,
                        RequestUpdate, RequestCommit, RequestFails, Rest
    <2> QED
      BY <1>1, <1>2, <1>3, <1>4, <1>5, <1>6, <1>8, <2>1, <2>2, <2>3, <2>4, <2>5, <2>6
         DEF Next, Handle, Raise, CommitRefused, RequestSteps
  <1> QED BY <1>7, <1>8 DEF vars

\* Nothing is claimed at the start.
LEMMA ClaimInit == Init => ClaimInv
  BY DEF Init, ClaimInv, Claims, Unmailed, At, Idle

\* The key of the pipeline step keeps each mail of a run at one, over retries,
\* redeliveries and crashes.
THEOREM MailsGoOutOnce == Spec => []MailedOncePerRun
  <1>1. Init => MailedOncePerRun
    BY DEF Init, MailedOncePerRun
  <1>2. TypeInv /\ ClaimInv /\ MailedOncePerRun /\ [Next]_vars => MailedOncePerRun'
    <2> SUFFICES ASSUME TypeInv, ClaimInv, MailedOncePerRun, [Next]_vars
                 PROVE  MailedOncePerRun'
      OBVIOUS
    <2>1. ASSUME NEW w \in Workers, SendMail(w) PROVE MailedOncePerRun'
      <3>1. StepKey(w) \in DOMAIN mails /\ Unmailed(w)
        BY <2>1, SendMailTyped
           DEF TypeInv, TypeOK, Assigned, Unmailed, Claims, SendMail, At
      <3>2. mails[StepKey(w)] = 0
        BY <3>1 DEF ClaimInv
      <3> QED BY <2>1, <3>1, <3>2 DEF SendMail, MailedOncePerRun, TypeInv, TypeOK
    <2>2. ASSUME mails' = mails PROVE MailedOncePerRun'
      BY <2>2 DEF MailedOncePerRun
    <2> QED
      BY <2>1, <2>2 DEF Next, Handle, ScheduleFollowup, Deliver, Lock, GiveUp, Read, Commit,
         CommitRefused, Finish, Raise, Fail, Crash, Kill, Abandon, Redeliver, Expire,
         EndpointCalled, ReplyArrives, PauseCalled, CampaignRead, EnrichAllRead, RequestRead,
         RequestUpdate, RequestCommit, RequestFails, Rest, vars
  <1> QED
    BY <1>1, <1>2, InitTyped, NextTyped, ClaimInit, ClaimNext, PTL DEF Spec

-----------------------------------------------------------------------------
(* The first touch: one mail, and one more for every sender lost after it    *)
(* and every old row written over a newer one                                *)

Sent    == Cardinality(FirstTouches) + log.taken
Excused == log.lost + log.stale

\* Inductive: every first touch but one is excused, and while the committed row
\* still calls for one, that one is in the hands of a worker about to commit.
\* A campaign that commits over the status it has read is the first touch, any
\* other request that does changes no status.
TouchInv ==
    /\ IsFiniteSet(FirstTouches)
    /\ Sent <= 1 + Excused
    /\ row.status \in Untouched => Sent <= Excused \/ \E w \in Workers : MailLost(w)

\* The counts are numbers.
LEMMA CountsTyped ==
    ASSUME TypeInv, IsFiniteSet(FirstTouches)
    PROVE  /\ log \in Histories
           /\ log.lost \in Nat /\ log.taken \in Nat /\ log.stale \in Nat
           /\ Cardinality(FirstTouches) \in Nat
  BY FS_CardinalityType DEF TypeInv, TypeOK, Histories

\* The edges into the statuses before the first touch that tasks take come from
\* such a status.
LEMMA UntouchedBefore ==
    ASSUME NEW m \in Messages, NEW target \in Targets(m), NEW from \in LeadStatus,
           m.task # "schedule_followup", m.task # "qualify_lead",
           CanTransition(from, target), target \in Untouched
    PROVE  from \in Untouched
  <1>1. target # "LEAD_FOUND"
    BY DEF Targets, Messages, Tasks
  <1> QED BY <1>1 DEF CanTransition, Transitions, LeadStatus, Untouched

\* A mail is one more first touch at most, and none if it is a followup.
LEMMA OneMoreTouch ==
    ASSUME TypeInv, TouchInv, NEW w \in Workers, SendMail(w)
    PROVE  /\ IsFiniteSet(FirstTouches')
           /\ Cardinality(FirstTouches') <= Cardinality(FirstTouches) + 1
           /\ work[w].msg.task # "start_outreach" => FirstTouches' = FirstTouches
  <1> DEFINE key(run) == << << "start_outreach", 0 >>, run >>
             n        == mails[StepKey(w)]
  <1>1. StepKey(w) \in MailSteps \X Runs /\ mails \in [ MailSteps \X Runs -> Nat ]
    BY SendMailTyped DEF TypeInv, TypeOK
  <1>2. /\ mails'[StepKey(w)] = n + 1 /\ n \in Nat
        /\ \A k \in MailSteps \X Runs : k # StepKey(w) => mails'[k] = mails[k]
    BY <1>1 DEF SendMail
  <1>3. \A run \in Runs : key(run) \in MailSteps \X Runs
    BY WorkersAssumption DEF MailSteps
  <1>4. CASE \A run \in Runs : key(run) # StepKey(w)
    <2>1. FirstTouches' = FirstTouches
      <3>1. \A run \in Runs : mails'[key(run)] = mails[key(run)]
        BY <1>2, <1>3, <1>4
      <3>2. \A run \in Runs :
                {run} \X (1 .. mails'[key(run)]) = {run} \X (1 .. mails[key(run)])
        BY <3>1
      <3>3. ASSUME NEW t PROVE t \in FirstTouches' <=> t \in FirstTouches
        BY <3>2 DEF FirstTouches
      <3> QED BY <3>3
    <2>2. Cardinality(FirstTouches) \in Nat
      BY FS_CardinalityType DEF TouchInv
    <2> QED BY <2>1, <2>2 DEF TouchInv
  <1>5. ASSUME NEW run \in Runs, key(run) = StepKey(w)
        PROVE  /\ IsFiniteSet(FirstTouches')
               /\ Cardinality(FirstTouches') <= Cardinality(FirstTouches) + 1
               /\ work[w].msg.task = "start_outreach"
    <2>1. work[w].msg.task = "start_outreach"
      BY <1>5 DEF StepKey, StepOf
    <2>2. \A other \in Runs : other # run => mails'[key(other)] = mails[key(other)]
      BY <1>2, <1>3, <1>5
    <2>3. mails[key(run)] = n /\ mails'[key(run)] = n + 1
      BY <1>2, <1>5
    <2>4. 1 .. (n + 1) = (1 .. n) \cup { n + 1 }
      BY <1>2
    <2>5. FirstTouches' = FirstTouches \cup { << run, n + 1 >> }
      <3> HIDE DEF n
      <3>1. ASSUME NEW t \in FirstTouches' PROVE t \in FirstTouches \cup { << run, n + 1 >> }
        <4>1. PICK other \in Runs : t \in {other} \X (1 .. mails'[key(other)])
          BY <3>1 DEF FirstTouches
        <4>2. CASE other = run
          BY <2>3, <2>4, <4>1, <4>2 DEF FirstTouches
        <4>3. CASE other # run
          BY <2>2, <4>1, <4>3 DEF FirstTouches
        <4> QED BY <4>2, <4>3
      <3>2. ASSUME NEW t \in FirstTouches PROVE t \in FirstTouches'
        <4>1. PICK other \in Runs : t \in {other} \X (1 .. mails[key(other)])
          BY <3>2 DEF FirstTouches
        <4>2. CASE other = run
          BY <2>3, <2>4, <4>1, <4>2 DEF FirstTouches
        <4>3. CASE other # run
          BY <2>2, <4>1, <4>3 DEF FirstTouches
        <4> QED BY <4>2, <4>3
      <3>3. << run, n + 1 >> \in FirstTouches'
        BY <2>3, <2>4 DEF FirstTouches
      <3> QED BY <3>1, <3>2, <3>3
    <2>6. /\ IsFiniteSet(FirstTouches \cup { << run, n + 1 >> })
          /\ \/ Cardinality(FirstTouches \cup { << run, n + 1 >> }) = Cardinality(FirstTouches)
             \/ Cardinality(FirstTouches \cup { << run, n + 1 >> }) = Cardinality(FirstTouches) + 1
      BY FS_AddElement DEF TouchInv
    <2>7. Cardinality(FirstTouches) \in Nat
      BY FS_CardinalityType DEF TouchInv
    <2> QED BY <2>1, <2>5, <2>6, <2>7
  <1> QED BY <1>4, <1>5

\* Who is about to commit a first touch holds the row.
LEMMA OneAtCommit ==
    ASSUME HolderInv, NEW v \in Workers, NEW w \in Workers, Holding(v), MailLost(w)
    PROVE  v = w
  BY DEF HolderInv, Holding, MailLost, At

\* A first touch goes out only while the row calls for one and nobody else has
\* just sent one.
LEMMA TouchMails ==
    ASSUME TypeInv, HolderInv, TouchInv, NEW w \in Workers, SendMail(w)
    PROVE  TouchInv'
  <1>1. /\ row' = row /\ log' = log
        /\ log.lost \in Nat /\ log.taken \in Nat /\ log.stale \in Nat
        /\ Holding(w) /\ work[w].stage = "mail"
    BY CountsTyped DEF SendMail, TouchInv, Holding, At
  <1>2. IsFiniteSet(FirstTouches)' /\ Cardinality(FirstTouches') <= Cardinality(FirstTouches) + 1
    BY OneMoreTouch
  <1>3. Cardinality(FirstTouches) \in Nat /\ Cardinality(FirstTouches') \in Nat
    BY <1>2, FS_CardinalityType DEF TouchInv
  <1>4. \A v \in Workers : ~ MailLost(v)
    BY <1>1, OneAtCommit DEF MailLost, At
  <1>5. CASE work[w].msg.task = "start_outreach"
    <2>1. row.status = "EMAIL_READY"
      BY <1>1, <1>5 DEF HolderInv, Holding, Accepts
    <2>2. Sent <= Excused
      BY <1>4, <2>1 DEF TouchInv, Untouched
    <2>3. MailLost(w)'
      <3>1. To(w, "commit")
        BY <1>5 DEF SendMail, AfterMail
      <3>2. work'[w].stage = "commit" /\ work'[w].msg = work[w].msg
        BY <3>1 DEF To, TypeInv, TypeOK
      <3> QED BY <1>5, <3>2 DEF MailLost, At
    <2> QED BY <1>1, <1>2, <1>3, <2>2, <2>3 DEF TouchInv, Sent, Excused
  <1>6. CASE work[w].msg.task # "start_outreach"
    <2>1. FirstTouches' = FirstTouches
      BY <1>6, OneMoreTouch
    <2> QED BY <1>1, <1>4, <2>1 DEF TouchInv, Sent, Excused
  <1> QED BY <1>5, <1>6

\* The commit takes the row past the first touch, and no other commit takes it
\* back before.
LEMMA TouchCommits ==
    ASSUME TypeInv, HolderInv, TouchInv, NEW w \in Workers, Commit(w)
    PROVE  TouchInv'
  <1>1. /\ FirstTouches' = FirstTouches
        /\ log'.lost = log.lost /\ log'.taken = log.taken /\ log'.stale = log.stale
    BY CountsTyped DEF Commit, FirstTouches, TouchInv, Histories
  <1>2. Holding(w) /\ work[w].copy = row
    BY DEF HolderInv, Holding, Commit, At
  <1>3. PICK target \in Targets(work[w].msg) :
            CanTransition(row.status, target) /\ row' = Moved(row, target)
    BY <1>2 DEF Commit
  <1>4. row \in Lead /\ row.status \in LeadStatus /\ work[w].msg \in Messages
    BY DEF TypeInv, TypeOK, Lead
  <1>5. row'.status = target
    BY <1>3, <1>4, EdgesTyped, MovedLead
  <1>6. ASSUME target \in Untouched PROVE Sent <= Excused
    <2>1. work[w].msg.task \notin { "schedule_followup", "qualify_lead" }
      BY DEF TypeInv, Assigned, Commit, At
    <2>2. row.status \in Untouched
      BY <1>3, <1>4, <1>6, <2>1, UntouchedBefore
    <2>3. work[w].msg.task # "start_outreach"
      BY <1>3, <1>6 DEF Targets, Untouched
    <2>4. \A v \in Workers : ~ MailLost(v)
      BY <1>2, <2>3, OneAtCommit DEF MailLost
    <2> QED BY <2>2, <2>4 DEF TouchInv
  <1> QED BY <1>1, <1>5, <1>6 DEF TouchInv, Sent, Excused

\* A worker that fails after the mail of a first touch is the one loss it takes
\* to have another.
LEMMA TouchAbandoned ==
    ASSUME TypeInv, HolderInv, TouchInv, NEW w \in Workers, NEW again, NEW locksAfter,
           Abandon(w, again, locksAfter)
    PROVE  TouchInv'
  <1>1. /\ FirstTouches' = FirstTouches /\ row' = row
        /\ log'.taken = log.taken /\ log'.stale = log.stale
        /\ log'.lost = IF MailLost(w) THEN log.lost + 1 ELSE log.lost
    BY CountsTyped DEF Abandon, FirstTouches, TouchInv, Histories
  <1>2. \A v \in Workers : v # w => work'[v] = work[v]
    BY DEF Abandon, TypeInv, TypeOK
  <1>3. CASE MailLost(w)
    BY <1>1, <1>3, CountsTyped DEF TouchInv, Sent, Excused
  <1>4. CASE ~ MailLost(w)
    <2>1. \A v \in Workers : MailLost(v) => MailLost(v)'
      BY <1>2, <1>4 DEF MailLost, At
    <2> QED BY <1>1, <1>4, <2>1 DEF TouchInv, Sent, Excused
  <1> QED BY <1>3, <1>4

\* What changes neither the row nor the mails, nor a worker about to commit.
LEMMA TouchKept ==
    ASSUME TouchInv, UNCHANGED << row, mails, log.lost, log.taken, log.stale >>,
           \A v \in Workers : MailLost(v) => work'[v] = work[v]
    PROVE  TouchInv'
  <1>1. FirstTouches' = FirstTouches
    BY DEF FirstTouches
  <1>2. \A v \in Workers : MailLost(v) => MailLost(v)'
    BY DEF MailLost, At
  <1> QED BY <1>1, <1>2 DEF TouchInv, Sent, Excused

\* A request that commits over another status than it has read is one more
\* excuse and one more first touch at most.  If the status is the one it has
\* read, a campaign takes the lead out of those that call for a first touch.
LEMMA TouchRequests ==
    ASSUME TypeInv, HolderInv, TouchInv, NEW r \in Requests, RequestSteps(r)
    PROVE  TouchInv'
  <1>0. work' = work /\ mails' = mails
    BY DEF RequestSteps, CampaignRead, EnrichAllRead, RequestRead, Rest, RequestUpdate,
           RequestCommit, RequestFails
  <1>1. CASE CampaignRead(r) \/ EnrichAllRead(r) \/ RequestUpdate(r)
    BY <1>0, <1>1, TouchKept DEF CampaignRead, EnrichAllRead, RequestRead, Rest, RequestUpdate
  <1>2. CASE RequestCommit(r)
    <2> DEFINE read == api[r].read
    <2>1. /\ FirstTouches' = FirstTouches
          /\ log'.lost = log.lost /\ log'.taken = log.taken + Touches(r)
          /\ log'.stale = IF row.status = read.status THEN log.stale ELSE log.stale + 1
      BY <1>0, <1>2, CountsTyped DEF RequestCommit, FirstTouches, TouchInv, Histories
    <2>2. Touches(r) \in { 0, 1 }
      BY DEF Touches
    <2>3. \A w \in Workers : ~ MailLost(w)
      BY <1>2, WorkersAssumption DEF RequestCommit, HolderInv, Holding, MailLost, At
    <2>4. CASE row.status # read.status
      <3>1. log'.stale = log.stale + 1
        BY <2>1, <2>4
      <3>2. /\ IsFiniteSet(FirstTouches) /\ Sent <= 1 + Excused
            /\ Sent' = Sent + Touches(r) /\ Excused' = Excused + 1
            /\ Sent \in Nat /\ Excused \in Nat
        BY <2>1, <2>2, <3>1, CountsTyped DEF TouchInv, Sent, Excused
      <3>3. Sent' <= 1 + Excused'
        BY <2>2, <3>2
      <3>4. ASSUME api[r].op # "send_campaign" PROVE Sent' <= Excused'
        BY <3>2, <3>4 DEF Touches
      <3>5. ASSUME api[r].op = "send_campaign" PROVE row'.status \notin Untouched
        <4>1. read \in Lead /\ "OUTREACH_SENT" \in LeadStatus
          BY DEF TypeInv, TypeOK, LeadStatus
        <4> QED BY <1>2, <3>5, <4>1, MovedLead DEF RequestCommit, Untouched
      <3> QED BY <2>1, <3>2, <3>3, <3>4, <3>5 DEF TouchInv
    <2>5. CASE row.status = read.status /\ api[r].op = "send_campaign"
      <3>1. row.status = "EMAIL_READY"
        BY <1>2, <2>5 DEF RequestCommit, HolderInv
      <3>2. read \in Lead /\ "OUTREACH_SENT" \in LeadStatus
        BY DEF TypeInv, TypeOK, LeadStatus
      <3>3. row'.status = "OUTREACH_SENT"
        BY <1>2, <2>5, <3>2, MovedLead DEF RequestCommit
      <3>4. Sent <= Excused
        BY <2>3, <3>1 DEF TouchInv, Untouched
      <3> QED
        BY <2>1, <2>2, <2>5, <3>3, <3>4, CountsTyped DEF TouchInv, Sent, Excused, Untouched
    <2>6. CASE row.status = read.status /\ api[r].op # "send_campaign"
      <3>1. row'.status = row.status /\ Touches(r) = 0
        BY <1>2, <2>6 DEF RequestCommit, Touches
      <3> QED BY <2>1, <2>3, <2>6, <3>1, CountsTyped DEF TouchInv, Sent, Excused
    <2> QED BY <2>4, <2>5, <2>6
  <1>3. CASE RequestFails(r)
    <2>1. /\ FirstTouches' = FirstTouches /\ row' = row
          /\ log'.lost = log.lost + Touches(r) /\ log'.taken = log.taken + Touches(r)
          /\ log'.stale = log.stale
      BY <1>0, <1>3, CountsTyped DEF RequestFails, FirstTouches, TouchInv, Histories
    <2>2. Touches(r) \in { 0, 1 }
      BY DEF Touches
    <2>3. \A w \in Workers : MailLost(w)' = MailLost(w)
      BY <1>0 DEF MailLost, At
    <2> QED BY <2>1, <2>2, <2>3, CountsTyped DEF TouchInv, Sent, Excused
  <1> QED BY <1>1, <1>2, <1>3 DEF RequestSteps

\* No step of a worker, a fault or a caller breaks the count.
LEMMA TouchNext == TypeInv /\ HolderInv /\ TouchInv /\ [Next]_vars => TouchInv'
  <1> SUFFICES ASSUME TypeInv, HolderInv, TouchInv, [Next]_vars PROVE TouchInv'
    OBVIOUS
  <1>1. ASSUME NEW w \in Workers, SendMail(w) \/ Commit(w) PROVE TouchInv'
    BY <1>1, TouchMails, TouchCommits
  <1>2. ASSUME NEW w \in Workers, Fail(w) \/ Crash(w) \/ Kill(w) PROVE TouchInv'
    BY <1>2, TouchAbandoned DEF Fail, Crash, Kill
  <1>3. ASSUME NEW r \in Requests, RequestSteps(r) PROVE TouchInv'
    BY <1>3, TouchRequests
  <1>4. ASSUME UNCHANGED << row, mails, log.lost, log.taken, log.stale >>,
               NEW w \in Workers, ~ MailLost(w),
               \A v \in Workers : v # w => work'[v] = work[v]
        PROVE  TouchInv'
    BY <1>4, TouchKept
  <1>5. ASSUME UNCHANGED << row, mails, log, work >> PROVE TouchInv'
    BY <1>5, TouchKept
  <1>6. ASSUME NEW m \in queue, NEW w \in Workers, Deliver(w, m) PROVE TouchInv'
    <2>1. \A v \in Workers : v # w => work'[v] = work[v]
      BY <1>6, TakesOne
    <2> QED BY <1>4, <1>6, <2>1 DEF Deliver, MailLost, At
  <1>7. ASSUME NEW w \in Workers, Lock(w) \/ GiveUp(w) \/ Read(w) \/ Finish(w)
        PROVE  TouchInv'
    <2>1. \A v \in Workers : v # w => work'[v] = work[v]
      BY <1>7 DEF Lock, GiveUp, Read, Finish, To, TypeInv, TypeOK
    <2>2. ~ MailLost(w)
      BY <1>7 DEF Lock, GiveUp, Read, Finish, MailLost, At
    <2>3. UNCHANGED << row, mails, log.lost, log.taken, log.stale >>
      BY <1>7, CountsTyped DEF Lock, GiveUp, Read, Finish, TouchInv, Histories
    <2> QED BY <1>4, <2>1, <2>2, <2>3
  <1>8. ASSUME Next PROVE TouchInv'
    <2>1. ASSUME NEW m \in queue, ScheduleFollowup(m) PROVE TouchInv'
      BY <1>5, <2>1 DEF ScheduleFollowup, Rest
    <2>2. ASSUME NEW w \in Workers, Redeliver(w) PROVE TouchInv'
      BY <1>5, <2>2 DEF Redeliver
    <2>3. ASSUME NEW step \in Steps, Expire(step) PROVE TouchInv'
      BY <1>5, <2>3 DEF Expire
    <2>4. ASSUME NEW task \in Tasks, EndpointCalled(task) PROVE TouchInv'
      BY <1>5, <2>4 DEF EndpointCalled, Rest
    <2>5. ASSUME ReplyArrives \/ PauseCalled PROVE TouchInv'
      BY <1>5, <2>5 DEF ReplyArrives, PauseCalled, Rest
    <2> QED
      BY <1>1, <1>2, <1>3, <1>6, <1>7, <1>8, <2>1, <2>2, <2>3, <2>4, <2>5
         DEF Next, Handle, Raise, CommitRefused, RequestSteps
  <1> QED BY <1>5, <1>8 DEF vars

\* No first touch has been sent at the start.
LEMMA TouchInit == Init => TouchInv
  <1> SUFFICES ASSUME Init PROVE TouchInv
    OBVIOUS
  <1>1. \A run \in Runs : mails[<< << "start_outreach", 0 >>, run >>] = 0
    BY WorkersAssumption DEF Init, MailSteps
  <1>2. FirstTouches = {}
    <2>1. \A run \in Runs : 1 .. mails[<< << "start_outreach", 0 >>, run >>] = {}
      <3>1. 1 .. 0 = {}
        OBVIOUS
      <3> QED BY <1>1, <3>1, Zenon
    <2>2. ASSUME NEW t \in FirstTouches PROVE FALSE
      BY <2>1, <2>2 DEF FirstTouches
    <2> QED BY <2>2
  <1> QED BY <1>2, FS_EmptySet DEF Init, TouchInv, Sent, Excused

\* Over all its runs, campaigns, retries and redeliveries a lead is mailed for the
\* first time once, and once more for every sender lost between such a mail and
\* the commit that records it and every old row written over a newer one.
THEOREM FirstTouchesAreFew == Spec => []FirstTouchesBounded
  <1>1. TypeInv /\ TouchInv => FirstTouchesBounded
    BY CountsTyped DEF TouchInv, FirstTouchesBounded, Sent, Excused
  <1> QED
    BY <1>1, InitTyped, NextTyped, HolderInit, HolderNext, TouchInit, TouchNext, PTL
       DEF Spec

-----------------------------------------------------------------------------
(* After the outreach: no mail, unless an old row brings the lead back *)

\* Inductive: a lead that was once past the outreach still is.
StopInv == log.stopped /\ log.stale = 0 => Stops(row.status)

\* No task takes a lead back to before or into the outreach: the one edge there
\* from a reply is for a followup, which accepts no lead that has replied.
LEMMA NoWayBack ==
    ASSUME NEW m \in Messages, NEW target \in Targets(m), NEW from \in LeadStatus,
           m.task # "schedule_followup", m.task # "qualify_lead",
           Accepts(m.task, from), CanTransition(from, target), Stops(from)
    PROVE  Stops(target)
  <1>1. target \notin Untouched
    BY UntouchedBefore DEF Stops
  <1>2. target # "OUTREACH_SENT"
    BY DEF CanTransition, Transitions, LeadStatus, Stops, Untouched
  <1>3. target = "IN_SEQUENCE" => m.task = "send_followup"
    BY DEF Targets, Messages, Tasks
  <1>4. m.task # "send_followup"
    BY DEF Accepts, Stops
  <1> QED BY <1>1, <1>2, <1>3, <1>4 DEF Stops, InOutreach

\* No step brings a stopped lead back but the commit of a request that is late.
LEMMA StopNext == TypeInv /\ HolderInv /\ StopInv /\ [Next]_vars => StopInv'
  <1> SUFFICES ASSUME TypeInv, HolderInv, StopInv, [Next]_vars PROVE StopInv'
    OBVIOUS
  <1>0. log \in Histories /\ row.status \in LeadStatus
    BY DEF TypeInv, TypeOK, Lead
  <1>1. ASSUME NEW w \in Workers, Commit(w) PROVE StopInv'
    <2>1. work[w].copy = row /\ Accepts(work[w].msg.task, row.status)
      BY <1>1 DEF HolderInv, Holding, Commit, At
    <2>2. PICK target \in Targets(work[w].msg) :
              /\ CanTransition(row.status, target) /\ row' = Moved(row, target)
              /\ log' = [ log EXCEPT !.stopped = @ \/ Stops(target) ]
      BY <1>1, <2>1 DEF Commit
    <2>3. row'.status = target
      BY <1>0, <2>2, EdgesTyped, MovedLead DEF TypeInv, TypeOK
    <2>4. /\ work[w].msg \in Messages
          /\ work[w].msg.task \notin { "schedule_followup", "qualify_lead" }
      BY <1>1 DEF TypeInv, TypeOK, Assigned, Commit, At
    <2>5. Stops(row.status) => Stops(target)
      BY <1>0, <2>1, <2>2, <2>4, NoWayBack
    <2>6. log'.stopped = (log.stopped \/ Stops(target)) /\ log'.stale = log.stale
      BY <1>0, <2>2 DEF Histories
    <2> QED BY <2>3, <2>5, <2>6 DEF StopInv
  <1>2. ASSUME NEW r \in Requests, RequestCommit(r) PROVE StopInv'
    <2>1. /\ log'.stopped = log.stopped
          /\ log'.stale = IF row.status = api[r].read.status THEN log.stale ELSE log.stale + 1
      BY <1>0, <1>2 DEF RequestCommit, Histories
    <2>2. CASE row.status # api[r].read.status
      BY <1>0, <2>1, <2>2 DEF StopInv, Histories
    <2>3. CASE row.status = api[r].read.status /\ api[r].op = "send_campaign"
      <3>1. row.status = "EMAIL_READY"
        BY <1>2, <2>3 DEF RequestCommit, HolderInv
      <3> QED BY <2>1, <2>3, <3>1 DEF StopInv, Stops, Untouched
    <2>4. CASE row.status = api[r].read.status /\ api[r].op # "send_campaign"
      BY <1>2, <2>1, <2>4 DEF StopInv, RequestCommit
    <2> QED BY <2>2, <2>3, <2>4
  <1>3. ASSUME UNCHANGED << row, log.stopped, log.stale >> PROVE StopInv'
    BY <1>3 DEF StopInv
  <1>4. ASSUME NEW w \in Workers, Finish(w) \/ Fail(w) \/ Crash(w) \/ Kill(w) PROVE StopInv'
    BY <1>0, <1>3, <1>4 DEF Finish, Fail, Crash, Kill, Abandon, Histories
  <1>5. ASSUME NEW r \in Requests, RequestFails(r) PROVE StopInv'
    BY <1>0, <1>3, <1>5 DEF RequestFails, Histories
  <1>6. ASSUME UNCHANGED << row, log >> PROVE StopInv'
    BY <1>3, <1>6
  <1> QED
    BY <1>1, <1>2, <1>4, <1>5, <1>6 DEF Next, Handle, ScheduleFollowup, Deliver, Lock, GiveUp,
       Read, SendMail, CommitRefused, Raise, Redeliver, Expire, EndpointCalled, ReplyArrives,
       PauseCalled, CampaignRead, EnrichAllRead, RequestRead, RequestUpdate, Rest, vars

\* Once a reply, a pause or the archive has been committed no task mails the lead,
\* over retries, redeliveries and countdowns, unless a bulk request wrote an old
\* row over a newer one.
THEOREM NoMailsAfterStop == Spec => NoMailAfterStop
  <1>1. Init => StopInv
    BY DEF Init, StopInv
  <1>2. ASSUME TypeInv, HolderInv, StopInv, [Next]_vars, mails' # mails
        PROVE  ~ log.stopped \/ log.stale > 0
    <2>1. ASSUME NEW w \in Workers, SendMail(w) PROVE ~ log.stopped \/ log.stale > 0
      <3>1. work[w].msg.task \in { "start_outreach", "send_followup" }
        BY <1>2, <2>1 DEF TypeInv, Assigned, SendMail, At
      <3>2. Accepts(work[w].msg.task, row.status)
        BY <1>2, <2>1 DEF HolderInv, Holding, SendMail, At
      <3>3. ~ Stops(row.status)
        BY <3>1, <3>2 DEF Accepts, Stops, Untouched
      <3>4. log.stale \in Nat
        BY <1>2 DEF TypeInv, TypeOK, Histories
      <3> QED BY <1>2, <3>3, <3>4 DEF StopInv
    <2> QED
      BY <1>2, <2>1 DEF Next, Handle, ScheduleFollowup, Deliver, Lock, GiveUp, Read, Commit,
         CommitRefused, Finish, Raise, Fail, Crash, Kill, Abandon, Redeliver, Expire,
         EndpointCalled, ReplyArrives, PauseCalled, CampaignRead, EnrichAllRead, RequestRead,
         RequestUpdate, RequestCommit, RequestFails, Rest, vars
  <1>3. TypeInv /\ HolderInv /\ StopInv /\ [Next]_vars
            => [ mails' # mails => ~ log.stopped \/ log.stale > 0 ]_vars
    BY <1>2
  <1> QED
    BY <1>1, <1>3, InitTyped, NextTyped, HolderInit, HolderNext, StopNext, PTL
       DEF Spec, NoMailAfterStop
=============================================================================
