# A formal model of Otclick's employer-acquisition engine

TLA+ modules of the parts of this repository in which the order of things
matters: the life cycle of a lead, the distributed lock, the Celery tasks
that work on one lead at the same time, the recovery of failed pipelines, and the
services around them that read, change and set shared values: throttle, handoffs,
approvals, governance, guards, jobs, deployments, drills, backups. TLC checks them on
small instances; TLAPS proves the central invariants for every instance. All paths below are
relative to the repository.

Run a check with `tlc -config X.cfg M`, a proof with `tlapm M_proof.tla`.

## 1. The system and its parts

Employers ("leads") are discovered, enriched, scored, qualified, mailed, followed
up, and - when a reply shows interest - handed to a manager. FastAPI endpoints
(`app/api`), Celery workers (`workers`) and a beat schedule work on PostgreSQL
(leads, contacts, e-mails, handoffs) and Redis (broker, locks, step keys,
counters, documents of the operations services).

| Component | State | Operations | What makes it correct |
|---|---|---|---|
| State machine (`app/core/state_machine.py`) | the graph `TRANSITIONS` over 17 statuses | `can_transition`, `transition`, `is_terminal` | the cycles of the graph never lead around a stage a handoff needs |
| Orchestrator (`app/orchestrator/engine.py`) | status and dates of the lead it is given | `transition` and one method per stage | every status change is an edge of the graph |
| Compliance (`app/services/compliance_service.py`) | opt-out flag, `do_not_contact_until` | `check_opt_out`, `set_cooldown` (`process_*_bounce` save nothing, see 5) | promises to a contact outlive every detour of the lead |
| Outbound control (`app/services/outbound_service.py`) | Redis counters, suppression list, paused campaigns | `validate_pre_send`, `check_throttle`/`record_send`, suppression, pause, health | by how much several workers can exceed a limit or a pause; an unhealthy campaign is to be paused (it is not, run `outbound_pause`) |
| Lock and step keys (`app/storage/redis.py`) | `lock:{key}` with a TTL, `pipeline:{lead}:{step}:{run}` | `distributed_lock`, `check_pipeline_step`, `invalidate_pipeline_run` | one task in the section and one's own key released as long as no key expires under its holder, and a bound after that; no stuck key; a step of a run is done once |
| Outreach and analysis tasks (`workers/outreach_tasks.py`, `workers/analysis_tasks.py`) | the broker's queue, the row, the keys | `start_outreach`, `schedule_followup`, `send_followup`, `analyze_reply`, `qualify_lead`, `handle_qualification_result`, `create_handoff`, `pause_outreach` | no mail on a stale status or after a reply, no mail twice, no lost change of status, nothing stuck |
| Discovery tasks (`workers/discovery_tasks.py`) | as above | `discover_employers`, `enrich_lead`, `score_lead`, `qualify_lead_task` | as above |
| Lead repository (`app/storage/repositories/lead_repo.py`) | the row | `get`, `get_for_update`, `update` of all columns | who reads without a lock does not write back |
| Leads API (`app/api/leads.py`) | - | `send_campaign`, `start_lead_outreach`, `transition_lead`, `enrich_all_leads` | endpoints respect what tasks have committed |
| Traces and recovery (`app/observability`) | JSON trace per run | `record_step_*`, `analyze_failed_run`, `retry_pipeline_run`, the beat task `auto_recover_failed_pipelines` | a recovery repeats what failed, and ends |
| Handoffs (`app/api/handoffs.py`, `handoff_repo.py`) | handoff row, then the lead | accept, reject, complete, reassign, delete | one conversion per handoff; lead and handoff agree |
| Managers' desk (`app/services/manager_actions.py`, `revenue_loop.py`) | Redis handoff, queue and sets of pending ones; deal with stage history | `take_action`, `create_deal`, `advance_stage`, `close_won`, `close_lost` | the queue follows the handoff; a deal has a possible history |
| Approval gates and runbooks (`approval_gates.py`, `ops_assistant.py`) | JSON request in a Redis hash, log of decisions; `last_executed` | request, approve, reject, cancel, expire; `execute_runbook` | as many approvers as required; how often a decision or a cooldown can be lost |
| Governance (`governance_trust.py`) | entry with history, approval request, promotion | transition, approve, reject, check gates, promote | history is a path; review and gates cannot be skipped |
| Production guards (`decision_safety.py`) | guards in a Redis hash | initialize, check, toggle | a check in flight does not switch a guard off |
| Failed jobs (`job_management.py`) | job with its retry count, retry queue | record, retry, cancel | retries are bounded |
| Deployments (`deployment_safety.py`) | plans in a sorted set, the current plan | create with checks, approve | what is approved has passed the checks (that a reader of the listing sees the approval does not hold, see 5) |
| Chaos drills (`chaos_drills.py`) | marker, injection flags, executions | start, stop | a drill leaves neither marker nor injection behind (that a stop ends the drill it names does not hold, see 5) |
| Signed backups (`signed_backup.py`) | manifests, data, signing key | create, verify, delete | a manifest is true |
| Bulk requests (`app/api/leads.py`) | many rows in one transaction | `enrich_all_leads`, `send_campaign` | requests do not wait in a circle |
| The rest | agents, LLM router, e-mail texts, warmup, the other operations services, analytics, auth, dashboard | see `PROJECT.json` "components" | - |

How they interact: endpoints and webhooks publish tasks; a task sets the key of
its step, takes the lock of its step, locks the row, asks an agent, asks
compliance and outbound control, sends, lets the orchestrator change its copy of
the lead, writes the copy back, commits, and publishes the next task with the
same run id.

What is hard: tasks of one lead under different locks; `acks_late` with
`reject_on_worker_lost`, time limits and a broker that redelivers what is not
acknowledged (countdowns of days); retries of a step whose key is set already;
a mail that cannot be rolled back; an endpoint that writes back an old copy;
promises (opt-out, cooldown) that must outlive the walk of the lead
around a graph with cycles; and, in every service on Redis, a JSON value that is
read, changed and set as a whole by calls that overlap. `PROJECT.json` "hazards" has each with its line.

## 2. Modules

| Module | Models | Depends on |
|---|---|---|
| `LeadStateMachine` | statuses, graph, the record of a lead, what `transition` does to it | - |
| `LeadLifecycle` | one lead and its contact under every operation of orchestrator, cooldown and mail paths, a clock | `LeadStateMachine` |
| `LeadLifecycle_proof` | proofs | `LeadLifecycle` |
| `Lease` | what the lock promises: one holder, a grant that ends by release, by lapse or with its holder; and that the promise ends with the first holder that outstays its grant | - |
| `RedisLock` | `distributed_lock`, one action per Redis command | `Lease` (refinement) |
| `RedisLock_proof` | proofs | `RedisLock` |
| `LeadWorkers` | the tasks of one lead, worker processes, row, keys, queue, faults, the endpoints that start tasks, the bulk requests that write back rows | `LeadStateMachine` |
| `LeadWorkers_proof` | proofs | `LeadWorkers` |
| `Outbound` | throttle counters, the outreach task around them, pauses by hand and by health | - |
| `Recovery` | a run of the pipeline with its trace, step keys and failures, the beat task that recovers it | - |
| `Handoffs` | handoff rows, calls on them, the lead they convert | - |
| `Desk` | one Redis handoff with its indices, and its deal | - |
| `BulkUpdates` | bulk requests and PostgreSQL's row locks | - |
| `Approvals` | one approval request; one runbook | - |
| `Governance` | one governed entity: entry, approval, gates, promotion | - |
| `Guards`, `Jobs`, `Deployments`, `ChaosDrills`, `SignedBackups` | one service each | - |
| `MC_Outreach` | TLC: `LeadLifecycle`, `Outbound`, `Recovery`, `Handoffs`, `Desk`, `BulkUpdates` | those |
| `MC_Operations` | TLC: `Approvals`, `Governance`, `Guards`, `Jobs`, `Deployments`, `ChaosDrills`, `SignedBackups` | those |
| `Outbound_proof`, `Recovery_proof`, `Approvals_proof` | proofs | the module named |
| `Outreach_proof` | proofs of `Handoffs`, `Desk`, `BulkUpdates` and of their composition | `MC_Outreach`, `LeadLifecycle_proof`, `Outbound_proof`, `Recovery_proof` |
| `Operations_proof` | proofs of `Governance`, `Guards`, `Deployments`, `Jobs`, `ChaosDrills`, `SignedBackups` and of their composition | `MC_Operations`, `Approvals_proof` |
| `MC_LeadLifecycle`, `MC_RedisLock`, `MC_LeadWorkers` | values for TLC | |

### LeadLifecycle

`lead` is the status with the fields that decide on mails (`opted_out`,
`do_not_contact_until`), `contact` the addressee's. Each orchestrator method is an
action; `Transition` stands for `LeadOrchestrator.transition`, `Moved` for what it
writes to the lead. `TransitionTo` is the transition endpoint and
the direct calls of `transition`. It is modelled as if the endpoint committed, which it
does not at this commit: with the commit the model has more behaviours, and what holds
of them holds without. `FirstTouch` is
`start_outreach` as one step (its interleavings are `LeadWorkers`'), `SendCampaign`
the endpoint. `visited`, `promises` and `broken` are history: the stages since the lead was last
found, what was promised to the contact, which promises a mail has broken on which
channel. Bounces are left out on purpose: `process_hard_bounce` and `process_soft_bounce` count on a contact
in memory ("TODO: Save to database"), nothing calls them, and a mail path reads the contact anew.

### RedisLock

One process per caller of `distributed_lock`. `TrySet` is the `SET NX EX`, `Retry`
the sleep between attempts, `Compare` the `GET` and `Delete` the `DEL` of the release.
Time is discrete; the key's age and each call's age are counted. `value` is what each process
writes: it is a parameter, because task name and event loop id need not be unique
among prefork workers. `lapses` is history: how many keys have expired while their setter was in the
section. The properties are stated relative to it instead of assuming that tasks are shorter
than the TTL, since the configuration has it the other way (600 s of work, 300 s of key).

### LeadWorkers

`row` is the committed row, `rowLock` PostgreSQL's lock of it, `queue` the messages of
the broker, `work[w]` the stage of a worker with its message and its copy of the row,
`keys` the step keys, `locks` the distributed locks (abstract: a lock may be free again
at any time, because its TTL is shorter than a task may run and because equal values
let another process delete it). All tasks share one shape, so they are one
set of actions over the stages `lock`, `read`, `mail`, `commit`, `publish`, `leave` with
tables for what differs: `Accepts` (status check), `AfterRead`, `Targets` (new
status), `AfterCommit`, `Published` (next messages). An agent's answer is a choice, so are
score and qualification: `Targets` has the archive beside the next status. `EnterAt` says where
the lead starts: as discovery has stored it, or just qualified with `start_outreach` in the
queue. Faults: `Raise` (an exception:
rollback, lock released, Celery retries with the same arguments), `Crash` (the process is
lost: message requeued, lock left behind), `Kill` (time limit: acknowledged as failed),
`Redeliver` (visibility timeout). The endpoints
that start a task add a message without a run id (`EndpointCalled`). The two requests that write back whole rows
they read without a lock, `send_campaign` and `enrich_all_leads`, are `CampaignRead` and `EnrichAllRead`, then `RequestUpdate`
(which takes the row lock) and `RequestCommit` or `RequestFails`. `log` is history: first touches whose sender failed before its commit (`lost`) or
that a campaign sent (`taken`), requests that committed over another status than they had read (`stale`), and whether a
status past the outreach was ever committed (`stopped`).

Atomicity: taking a message and setting its key are one action, as are publishing and
acknowledging; a crash between them is a crash before or after. `queue` is a set: two
waiting copies of the same message are one, which is enough because a copy in work and one waiting
are kept apart. The 24 hours of a step key are not modelled: all deliveries of a message
are taken to fall within them.

### The services: common conventions

A service on Redis reads a JSON value, decides on the copy and sets the whole value.
Each module has one value (or the few that belong together), a function from overlapping
calls to what they are doing and the copy they hold (`gateCall`, `governor`, `jobCall`,
...), and one action per Redis command between which another call may come. Guards that
depend on the copy are in the action that reads it, as in the code. Calls that change
nothing (listings, statistics, journals) are left out.

**Outbound.** `count[c][n]` is the counter of scope `c` (hour, sender, a domain, a
campaign) in its window `n`; a window is an hour or a day of `HoursPerDay` hours. The
outreach task goes through `CheckPaused`, `StartThrottle`, one `ReadCounter` for each counter of
`check_throttle`, `SendFirstTouch` and `RecordSend`; in between the hour may change and the
worker may be lost (`Fault`). `record_send` takes the hour anew. `send_followup` and
`send_campaign` ask neither throttle nor pause, so they are not in the module:
the bounds are about first touches.

`Unhealthy` counts the mails really sent; `total` is what the code's `total_sent` and `total_bounced` keys hold.

**Recovery.** The five steps of a run from enrichment to the first followup, by `Wants` (the
status a task accepts), `Leaves` and `Follows`. The trace is read (`GetTrace`) and set
(`SetTrace`) apart. The steps differ in the order of their end (`PublishesFirst`): the outreach task
commits, publishes, then records the success in the trace, the discovery tasks commit, record and then
publish; `CommittedStepFails` is an exception or a lost worker after the commit, whose
retry finds the step key and goes no further. `RetryPipelineRun` clears the step keys of the old run and starts a new
one with the steps `StepsToRetry` finds; the beat task reads the count of recoveries,
recovers and counts in three actions, and the count may fail (`AutoRecoverUncounted`). `RetryRunCalled` and `RetryStepCalled` are the endpoints.

**Handoffs.** Rows in PostgreSQL: a call reads without lock (`ReadHandoff`), its `UPDATE` waits for the
row lock (`UpdateHandoff`), `complete` then reads the lead (`ReadHandedLead`), all commit
(`CommitHandoff`). `ReadToArchive`/`ArchiveHanded` is the lead's other way out.

**Desk.** `TakeAction`, `SaveHandoff`, `UpdateIndices` for the Redis handoff; `ReadDeal`, `SetDeal`,
`SetDealAgain` (a closing sets its deal in `advance_stage` and again itself) and
`RecordClosing` for the deal, whose history is its stages. `LoseDeskCall` ends a call between any two of these commands,
so also between `_save_handoff` and `_update_indices`.

**BulkUpdates.** `Page` is the order in which `find_paginated` returns the leads, `Lists` the client's
`lead_ids`. `HttpCall` goes to the next lead and skips it, or calls for it and so comes to the
update; every `UpdateRow` takes a row lock that lasts until `CommitBulk`.
PostgreSQL's deadlock detection aborts one of a circle (`AbortDeadlock`).

**Approvals.** `GetRequest` reads, with the status check and the expiry of `approve`, `reject`
and `cancel`; `RecordDecision` is the push to the log that comes before the request is set.
`StartRunbook`/`FinishRunbook` are `execute_runbook`.

**Governance.** `BeginTransition` is the check of the graph and of an approval on the copy, `SetEntry` the write; `reject`
writes the reason into an entry it reads only then (`ReadEntry`, `SetReason`);
`check_promotion_gates` evaluates one gate after the other (`CheckGate`) and sets the
promotion; `promote_to_active` marks it promoted (`SetPromoted`) before the entry becomes active (`Activate`).

**Guards, Jobs, Deployments, ChaosDrills, SignedBackups** follow their services command by command;
the comments before their actions say which. `SignedBackups` also has data altered from outside (`DataAltered`), which is what the
checksum is for; `verify_backup` then stores the manifest as corrupted like after a wrong signature.

## 3. Runs

| Run | Config | Shows | Bounds |
|---|---|---|---|
| `lifecycle_unsubscribe` | `MC_LeadLifecycle_unsubscribe.cfg` | finding: an unsubscribe is handled like a refusal, the lead is mailed again | days 0..3, cooldowns of 0, 1 and the default of 2 days, scores on both sides of 50 |
| `lifecycle_draft` | `MC_LeadLifecycle_draft.cfg` | finding: the first `validate_pre_send`, without text, refuses every lead | minimum length 5 |
| `lock` | `MC_RedisLock.cfg` | as many tasks beyond the first as keys have lapsed, own key released until one does, refinement of `Lease`, keys expire, callers are answered | 3 processes, all with the same value, TTL 2, up to 4 ticks held (so keys do lapse), 2 tries |
| `lock_config` | `MC_RedisLock_config.cfg` | finding: with a time limit above the TTL the release deletes another's key | 2 ticks held, TTL 1, distinct values |
| `workers_replies` | `MC_LeadWorkers_replies.cfg` | tasks move the row along the graph, no mail after a reply, a pause or the archive was committed, all work drains | 2 workers, 1 followup, 1 reply, 1 pause, 1 retry, 1 fault, 3 runs |
| `workers_outreach` | `MC_LeadWorkers_outreach.cfg` | no mail of a run twice; no mail on a stale status; a second first touch only if a sender failed between mail and commit, or a request wrote an old row over a newer one | from `LEAD_FOUND`; 2 workers, 2 endpoint calls, 1 followup, 1 campaign or enrich-all, 1 retry, 1 fault, 4 runs |
| `outreach_services` | `MC_Outreach.cfg` | handoffs are warm, opt-outs and cooldowns kept; by how much throttle limits and pauses are exceeded; bounds on recoveries, what traces say, when a first touch is repeated or a followup lost; conversions, queue and deals that overlapping calls cannot break; which bulk requests can deadlock | see below |
| `operations_services` | `MC_Operations.cfg` | bounds on retries, overwritten decisions and runs within a cooldown; what histories, guards, plans, drills and manifests keep | see below |
| `outbound_pause` | `MC_Outbound_pause.cfg` | finding: an unhealthy campaign is never paused, however often the beat comes | 1 worker, 1 campaign, a sample of 1, 1 bounce |
| `workers_keys` | `MC_LeadWorkers_keys.cfg` | finding: a retried step is skipped as done | as needed |
| `workers_handoff` | `MC_LeadWorkers_handoff.cfg` | finding: no lead from a positive reply can be handed over | as needed |
| `workers_campaign` | `MC_LeadWorkers_campaign.cfg` | finding: a campaign writes back an old row | as needed |

Why the bounds are enough. Lifecycle: the graph is finite and complete; three days put
a mail before, on and after the end of every cooldown, with room for a second one. Lock: the third process is
the one whose key a late release would delete; equal values are the worst case for the
comparison; 4 ticks are two lives of a key, so that two holders can outstay theirs. Workers: two workers make every pair of tasks concurrent, and every property
is violated, if at all, by two actors; the one fault
may fall anywhere, and a retry or a refused commit follows without counting as one. Workers are symmetric where no liveness is checked.
Deadlock is not checked for the workers: with nothing queued the system is idle for good.

`outreach_services` and `operations_services` put services that share no state into one
run each: `service` is chosen in the initial state and only that one moves (`On`, `OthersStay`), so the
numbers of states add up instead of multiplying. Their sets of actors are the same two sets
of two model values, for which the symmetry is sound: no actor is compared or chosen, except
by `CHOOSE` over a set that is no part of the symmetry, and no liveness is checked there.

Their bounds: two overlapping calls everywhere, since each hazard is one call working on a copy another
one has replaced; for the bounds (`SendsBounded`, `CooldownOvershoot`, `RetriesBounded`,
`RecoveriesBounded`, `DecisionOverwrittenBounded`) the number of calls is a parameter of the
property, and the properties marked as proved hold for any number. `Outbound`: limits of 1
and 2, two hours with a day of one (a mail may be checked, sent and recorded in different windows). `Recovery`: starts at
`EMAIL_READY` (first touch and followup are what must not repeat), two failures, four runs, one call of a retry
endpoint (`AskedSteps`: the step retry is asked for the first touch or the followup, since the lead is past the other steps). `Handoffs`: two
handoffs of one lead, two reassignments. `Desk`: three actions, deals of five stages - long enough for a
stall, a return and a closing -, one lost call. `Approvals`: both categories of rules, up to four decisions.
`Governance`: one entry, one check of the gates, five versions - the shortest way to `active` and one more -
(so nothing is said of two entries; entries share no value but through their ids); entries of type
`single` only, because `dual` and `committee` differ by the number counted. `Guards`: three toggles. `Deployments`:
three plans of which the listing sees three members. `Jobs`: three retries, one cancellation.
`ChaosDrills`: three drills, one lost process. `SignedBackups`: two backups, one lost process, one alteration of data.

`LeadLifecycle.MinLength` is 0 in `outreach_services`: the model then has the first validation pass. With the
code's lengths (10 and 100) no first touch ever leaves - that is run `lifecycle_draft` - and
the promises would hold for want of mails; the run shows they hold also when that is repaired.

Fairness. `lock`: weak fairness of each process's own next step (an asyncio coroutine that
can go on is resumed) and of time; nothing about who wins a `SET NX`. `workers_replies`: a live worker
goes on with its task, a worker takes a waiting message, the countdown of a followup ends, a
request that was started is finished. Nothing is assumed of expiries, replies, callers or faults.

## 4. Proofs

`LeadLifecycle_proof` (no assumption beyond the types of the constants): type correctness; `HandoffIsWarm`, by
the invariant `StagesPassed`, which says for each status of the graph which stages have
been visited since the lead was found - `HandoffIsWarm` alone is not preserved, because it
says nothing about the statuses before the handoff; `OptOutIsForever`, by "a lead ever
opted out has the flag set or is `OPTED_OUT`", whatever it became since; `CooldownHonoured`, by "the date of the lead is that of the last
cooldown".

`RedisLock_proof` assumes nothing about the times: a task may hold the lock for longer than its key lives, as the
configuration has it (time limit 600 s, TTL 300 s; run `lock_config`). Without that assumption exclusion does not
hold, and what is proved is how far it fails: `SectionBounded` says there are at most as many tasks beyond the first as keys
have lapsed under a task, `OwnKeyDeletedUntilLapse` that the release deletes nobody else's key before that, and
`IsLease` that until then the lock is a lease, and afterwards fails in the ways `Lease` names and no other. The inductive
invariant `LockInv` bounds the `Strays`, the tasks in the section that have not set the present key: each is there by a
lapse, and a stray that deletes another's key makes that one a stray as it goes itself. The written values play no part. `ShortTasksNeverLapse` says what would mend it:
with `MaxHold < Ttl` no key ever lapses under its holder, and exclusion follows.

`LeadWorkers_proof` assumes only the types of the constants. `TypeOK` needs `Assigned`: no worker
has `schedule_followup`, and only the tasks that mail get to the stage `mail`. `TasksFollowGraph` and
`NoStaleMail` follow from `HolderInv`: whoever is between its read and its commit holds the row
lock, its copy is the committed row, and before a mail the status of the row is one the task accepts;
a bulk request about to commit holds the row lock too. The distributed locks play no part, so
they may expire at any time. `MailedOncePerRun` follows from `ClaimInv`: a key is set
for every step at work and every mail sent, no two workers are at the same step of a run, and a step
that is before its mail has sent none. `MailedOncePerRun` alone is not
preserved, because it does not say that a second worker cannot be at the same step.

`FirstTouchesBounded` counts the first touches over all runs and campaigns, and is not preserved, because it
does not see which of them was lost. `TouchInv` says that while the committed row
still calls for a first touch (`Untouched`) every mail but those excused is one whose worker is about to commit,
and there is one such worker at most, because it holds the row (`HolderInv`). Once the row has left these statuses no task brings it
back (the graph of the tasks, not the whole graph), so nobody accepts a first touch any more - unless a bulk request commits a row over
a newer status, which is what `log.stale` counts: each such write may cost one further mail. `NoMailAfterStop` speaks of what was ever committed, not of the
status of the moment; by `StopInv` a lead once past the outreach still is, as long as no old row was written over a newer one.

The proofs of the services assume the types of their constants and, where they count, that the sets
of calls are finite; they are otherwise for any number of calls and values.

- `Outbound_proof`: `SendsBounded` is not preserved, because it does not see who is about to send.
  `CounterInv`, for a counter in its current window, says that mails are counted, lost or owed by a
  task that is before `record_send` (`Owing`), and that mails plus the tasks that need not look at the
  counter any more (`Ahead`: they looked already, or at the window before) stay within the bound; past windows keep
  the bound, future ones are empty. `PauseInv` counts tasks under way in the same manner.
- `Recovery_proof`: recoveries started are counted or about to be (`ToCount`), and together with the deliveries past the comparison
  (`ToRetry`) they stay below the bound, which grows by one with every count that fails. The other properties rest on `PipelineInv`: a success in a trace, or in the
  copy of one, is of a step the lead has passed (`TracesInv`; the status only rises); before the first touch every
  touch was rolled back (`TouchInv`). `FollowupLostOnlyByEarlyStartOrDrop` is the hard one. While the lead stands at
  `OUTREACH_SENT`, nothing was started early, no outreach failed between commit and publish and the followup had no turn, something is left that will give it one
  (`PendingInv`): a message whose key is not set, a worker at the step, or the outreach task before its publish. This needs that
  the key of the run's followup cannot have been set by someone else, hence that before the first touch a run with a
  followup has no other step (`LoneInv`), and that run ids are new (`FreshInv`).
- `Approvals_proof`: approvers of the request and of every copy are different and on record (`ApproversOK`: a stale
  copy is as good as a new one, since the log only grows). A decision can be undone only by a call that was in flight when it was
  made, and who made it is not (`OverwrittenInv`). For the cooldown, `CooldownInv` counts in the present minute the
  q calls that have not started before it: each run of this minute either leaves the cooldown closed or is one of an older call, which
  puts the time back and then is one of the q: runs grow by triangles, 1 + 2 + ... + n.
- `Outreach_proof`, handoffs: conversions plus calls about to convert (`Converting`) are at most the handoffs, and who is between its
  `UPDATE` and its commit holds the row (`HoldsRow`), so `complete` reads the lead alone. Desk: the
  deal and every copy of it have a possible history (`DealOK`); if a resolved handoff is in the
  queue, some call is still to update the indices with a resolved status, or one was lost before it did. `ResolvedLeavesQueue` alone says
  nothing while a call is at work. Bulk requests: who goes through a page holds only rows
  before those it has yet to come to (`BulkOK`). Take a circle of such requests, and of them the one that waits
  for the lowest row: the one that waits for it waits for a row it holds, which is lower still. The lowest is found by
  well-foundedness, since induction over data is out of reach.
- `Operations_proof`, governance: what holds of the stored entry, request and promotion holds of every copy in
  flight, and history variables only grow, so that a late write is as good as an early one
  (`EntryOK`, `AskedOK`, `PromotionOK`, `CallOK`). Guards: a copy that a check works on is active (`CopiesAreActive`), and the violations of
  guards and copies are all in the log (`CountsAreLogged`), which bounds them. Deployments: what is approved, stored or in a copy, is a plan whose
  checks all passed and has an older pending member in the history (`StoredPlanOK`; `HistoryOK` numbers the members as they were stored). Jobs: see below. Drills: a running drill has its id for itself and is not stored, a
  stop past its lookup has one that is stored (`DrillOK`); what nobody will remove any more is one flag per lost process, and
  a marker nobody will delete is a lost process's (`LeftInv`). Backups: the key is the last one made; a copy's key
  is no newer than the key read after it; a new backup's id is nobody else's until the manifest
  is there; the manifest is deleted before the data (`BackupOK`).
- `RetriesBounded`: a call has before it the retries its copy leaves, or those of the stored job (`Chance`). How many calls have k retries or more
  before them, for each k, is a staircase (`Stairs`). A call that reads the job changes none; a call that sets it lowers the staircase in the
  order by the highest step that differs (`Lower`), though all idle calls may gain lower steps. So the staircases
  below the present one bound the retries to come (`RetriesInv`), and a record starts at the highest. There are (n + m choose m) staircases for n calls and m
  retries; the property counts them rather than naming the number, and TLC finds the bound reached.
- `OutreachIsEach` and `OperationsIsEach`: the compositions that TLC runs imply the specification of each of their
  services, so what is proved of a service holds of the composition, and its types with it.

Every invariant and every action property of a passing run is stated by a theorem. Only
model-checked: liveness (`KeyGoes`, `Answered`, `WorkDrains`), which is beyond the prover. `RedisLock.TypeOK` is not
checked by a run of its own: it is proved. `RetriesInv` was checked with TLC before
it was proved.

## 5. Not modelled, and why

- Text, prompts, HTML, scraping, formulas of scores: data; answers are choices.
- Several leads, but for `BulkUpdates`: tasks lock one row each.
- The suppression list (a set of addresses), `record_complaint` and `record_delivery`, which nobody calls.
- Bounces of a contact: `process_hard_bounce` and `process_soft_bounce` change an object in memory
  (`compliance_service.py:289`, `:312`; "TODO: Save to database" in both) and nothing calls them, so the limit of three bounces
  that `check_opt_out` and `_validate_contact` ask for is never reached. The task `process_bounce` calls
  `add_to_blacklist`, which does not exist, before it would move the lead to `BOUNCED`; of it only the count of `record_bounce` is modelled.
- `handle_resend_inbound` (`webhooks.py:385`-`681`) beyond its `analyze_reply` (`ReplyArrives`). For a lead it would move itself
  (`OUTREACH_SENT`, `QUALIFIED`, `SCORED`) it assigns a string to the status, and the repository's `lead.status.value` (`lead_repo.py:210`) raises: the request fails and
  nothing is committed. For any other lead it lets the sales agent send an automatic answer - also after an opt-out, asking no gate -
  and publishes `analyze_reply` before it commits. `NoMailAfterStop` is about tasks and does not see that answer.
- Whole-row writers that a manager calls by hand (`PATCH /leads/{id}`, which does not commit; imports).
- Reports, forecasts, recommendations, simulations, cockpit, knowledge base, policies, SLO and cost
  services - the larger part of `app/services` by lines - and the endpoints that pass them on: they aggregate, score and store
  single documents; no other part reads what they write, and no two of their steps belong together.
- Agents, LLM router, warmup, rate-limit middleware, auth, dashboard: see `PROJECT.json` "components".

### What the services do that one might not expect

Each follows from the code as modelled; where a property states the consequence it is named.

- `execute_runbook` swallows its own "Approval not granted" (`ops_assistant.py:1339`): any approval id
  starts a runbook that requires one.
- The throttle reserves nothing: each limit is exceeded by one mail per further worker (`SendsBounded`).
  `total_sent:{campaign}` is written by nobody, so the automatic pause never fires, though the docstring of
  `auto_pause_unhealthy_campaigns` says "Check all active campaigns and pause unhealthy ones" (`UnhealthyIsPaused`, run `outbound_pause`).
- A `DUAL` approval counts the same approver twice; a request of type `AUTO` or `NONE` is never granted; a
  grant outlives the entry it was given for. `promote_to_active` says promoted even if the transition is refused.
- `approval_gates` never compares the approver with `allowed_approvers`; a decision can be overwritten
  by a call that read the request before it (`DecisionOverwrittenBounded`).
- The comment at `recovery.py:227` says dependents start after their dependencies; all steps to retry are started at once, so
  a followup may come too early and be lost; it is also lost when `start_outreach` fails between its commit
  and its publish (`outreach_tasks.py:243`-`254`), because the retry finds the step key (`FollowupLostOnlyByEarlyStartOrDrop`).
- The approval of a deployment plan is not seen. `approve_deployment` ("Approve a deployment plan", returning the "Updated plan") adds a
  second member to the history with the same score; `get_plan` returns the first of the two in ZREVRANGE order, which is the
  reverse alphabetical one, and `{"...status": "pending"}` comes before `"approved"`. So `GetPlan` in the model never
  returns an approved plan, the check `plan.status != PENDING` (`deployment_safety.py:621`) never refuses, and the API's "not found or not pending"
  (`api/platform/deployment.py:89`) only ever means not found; a plan can be approved again, and
  approving an older plan makes it the current one. Nothing reads the current plan. What does hold is `ApprovedPlansPassed`.
- `take_action` asks for no status, and an accept by another manager leaves the old one's pending set as it was; a deal advanced
  to `closed_won` by `advance_stage` records no revenue, and overlapping calls can count one deal as won and lost.
- A retry in flight revives a cancelled job. `max_retries` bounds retries only without overlap (`RetriesBounded`).
- `stop_drill` stops no running drill, though it says "Stop a running drill." (`chaos_drills.py:566`, `api/platform/chaos.py:92`): it asks
  `get_execution`, which finds what `_store_execution` has stored, and `start_drill` stores an execution when its drill has
  ended. `GetExecution` is that lookup; a stop that passes it (the marker of the ended drill is deleted before, so it must have been read earlier) removes the flag and
  the marker of whoever drills now. The end of one drill deletes the marker of another as well. What does hold is `NothingLeftBehind`.
- Backups signed with a first key that was replaced never verify; a deleted manifest can come back as
  corrupted (`ManifestsAreTrue`).
- Two bulk requests, one of them with `lead_ids`, can deadlock (`CircleNeedsAList`); the aborted one still
  reports its counts. `enrich_all_leads` writes whole rows back and so reverts statuses committed meanwhile, as
  `send_campaign` does (run `workers_campaign`).

What the properties of the services leave open, though it can happen in the models as in the code:

- `ApprovedByEnough` and `DecisionOverwrittenBounded`: an approval that another one's write has replaced is lost, and the approver has to be asked again.
- `HistoryIsAPath`: of two transitions at the same time one is overwritten without a trace in the entry; what is left is a path.
- `PromotedPassedGates`: each gate was passed at some time before the promotion, not all at one time.
- `GuardOffOnlyByHand`: a check in flight can undo a toggle and lose violations that were counted meanwhile; it can switch a guard on again, not off.
- `DealIsPossible`: a deal can be reopened or counted both as won and as lost.

### Errors the models look past


The models follow the control flow of the tasks and not the following errors, each of which
stops a task before the behaviour modelled here is reached, and each of which a first
run of the task shows: `AgentTask(agent_name=..., input_data=...)` lacks the required
`lead_id` and `task_type` (`start_outreach`, `send_followup`, `analyze_reply`, `create_handoff`, the discovery tasks);
`qualify_lead_task` calls `qualify_lead(lead)` without its required keyword arguments; `contact_repo.find_by_lead`
does not exist; `ComplianceService()` is made without its session in `send_followup`; `EmailService.send_email`
has another signature; `_log_task_failure` is not defined in `outreach_tasks.py`;
`PATCH /leads/{id}` and `POST /leads/{id}/transition` never commit. They are what a type
checker or a first test finds; the models say what the tasks do when they are mended
without a change of their order.

## 6. Plan

Done: life cycle, lock, workers; outbound control, recovery, handoffs, desk, bulk requests, approvals,
governance, guards, jobs, deployments, drills, backups; with proofs as listed.

Next:

1. An abstract pipeline (one stage after the other, a mail at most once per stage unless lost) that `LeadWorkers` implements, as `RedisLock` does `Lease`.
2. `Outbound` with the tasks of `LeadWorkers`, for one lead: what a pause in the middle of a retry does.
3. Incident timeline and audit trail, feature flags and maintenance windows, if something of the pipeline comes to read them.
