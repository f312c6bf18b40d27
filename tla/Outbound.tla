------------------------------- MODULE Outbound -------------------------------
(***************************************************************************)
(* Outbound control (app/services/outbound_service.py) as start_outreach   *)
(* uses it: is the campaign paused, do the throttle counters allow a mail, *)
(* then - after the text was written - the mail, then record_send.  The    *)
(* counters are Redis keys named by scope and hour or day; nothing is      *)
(* reserved between the check and the record.                              *)
(***************************************************************************)
EXTENDS Integers, Sequences, FiniteSets
LOCAL INSTANCE Functions

CONSTANTS
    Senders,        \* Celery worker processes at start_outreach
    Domains,        \* domains of recipients
    Campaigns,
    NoCampaign,     \* start_outreach without campaign_id
    HourlyLimit, SenderLimit, DomainLimit, CampaignLimit,
    MinSample,      \* settings.auto_pause_min_sample_size
    HoursPerDay,
    MaxHour,        \* bound: last hour
    MaxBounces,     \* bound: bounces of a campaign
    MaxLost         \* bound: tasks that end by a fault

Counters == { "hour", "sender" } \cup Domains \cup Campaigns
Hours == 0 .. MaxHour

ASSUME SendersAssumption == IsFiniteSet(Senders) /\ Senders # {}
ASSUME ScopesAssumption ==
    /\ { "hour", "sender" } \cap (Domains \cup Campaigns) = {}
    /\ Domains \cap Campaigns = {}
    /\ NoCampaign \notin Campaigns
ASSUME LimitsAssumption ==
    /\ HourlyLimit \in Nat \ {0} /\ SenderLimit \in Nat \ {0}
    /\ DomainLimit \in Nat \ {0} /\ CampaignLimit \in Nat \ {0}
    /\ MinSample \in Nat \ {0}
ASSUME BoundsAssumption ==
    HoursPerDay \in Nat \ {0} /\ MaxHour \in Nat /\ MaxBounces \in Nat /\ MaxLost \in Nat

Limit(c) ==
    CASE c = "hour" -> HourlyLimit [] c = "sender" -> SenderLimit
      [] c \in Domains -> DomainLimit [] OTHER -> CampaignLimit

(* The window of counter c at hour h, as it is part of the name of the key. *)
Window(c, h) == IF c = "hour" THEN h ELSE h \div HoursPerDay

\* Mutant: with a campaign the recipient's domain is not looked at.
Checks_CampaignOrDomain(d, k) ==
    << "hour", "sender" >> \o IF k = NoCampaign THEN << d >> ELSE << k >>

(***************************************************************************)
(* The counters a mail is checked against, in the order of check_throttle. *)
(***************************************************************************)
Checks(d, k) ==
    IF k = NoCampaign THEN << "hour", "sender", d >> ELSE << "hour", "sender", d, k >>

TaskStages == { "idle", "validate", "throttle", "compose", "record" }
Task == [stage : TaskStages, domain : Domains, campaign : Campaigns \cup {NoCampaign},
         hour : Hours, next : 1 .. 5]

VARIABLES
    hour,           \* the clock
    count,          \* count[c][n]: the counter of scope c in its window n
    outreach,       \* the task of each worker
    paused,         \* campaign:paused:{id}: who set it
    total,          \* the all-time keys the health check reads
    sent, lost,     \* history: mails, and mails that were never recorded, by window
    afterPause,     \* history: first touches of a campaign since it is paused
    ends            \* bound: faults so far

outboundVars == << hour, count, outreach, paused, total, sent, lost, afterPause, ends >>

Zero == [c \in Counters |-> [n \in Hours |-> 0]]

OutboundInit ==
    /\ hour = 0
    /\ count = Zero
    /\ outreach \in [Senders -> { t \in Task : t.stage = "idle" /\ t.hour = 0 /\ t.next = 1
                                             /\ t.campaign = NoCampaign
                                             /\ t.domain = CHOOSE d \in Domains : TRUE }]
    /\ paused = [k \in Campaigns |-> "no"]
    /\ total = [k \in Campaigns |-> [sent |-> 0, bounced |-> 0]]
    /\ sent = Zero /\ lost = Zero
    /\ afterPause = [k \in Campaigns |-> 0]
    /\ ends = 0

(* The counters that a mail of task t concerns. *)
Concerned(t) == { "hour", "sender", t.domain } \cup ({ t.campaign } \ { NoCampaign })

(* One more, at hour h, in each of the counters of t. *)
Counted(f, t, h) ==
    [c \in Counters |-> [n \in Hours |->
        IF c \in Concerned(t) /\ n = Window(c, h) THEN f[c][n] + 1 ELSE f[c][n]]]

Becomes(w, t) == outreach' = [outreach EXCEPT ![w] = t]
AtStage(t, stage, h, i) ==
    [stage |-> stage, domain |-> t.domain, campaign |-> t.campaign, hour |-> h, next |-> i]
\* A task that is over leaves its worker as it found it.
Over(t) == AtStage([t EXCEPT !.campaign = NoCampaign], "idle", 0, 1)
Returns(w) == Becomes(w, Over(outreach[w]))
-----------------------------------------------------------------------------
\* Mutant: the pause is not looked at.
CheckPaused_Never(w, d, k) ==
    /\ outreach[w].stage = "idle"
    /\ Becomes(w, [stage |-> "validate", domain |-> d, campaign |-> k, hour |-> hour, next |-> 1])
    /\ UNCHANGED << hour, count, paused, total, sent, lost, afterPause, ends >>

(* The task takes up a lead; a paused campaign is skipped, before any lock. *)
CheckPaused(w, d, k) ==
    /\ outreach[w].stage = "idle"
    /\ k # NoCampaign => paused[k] = "no"
    /\ Becomes(w, [stage |-> "validate", domain |-> d, campaign |-> k, hour |-> hour, next |-> 1])
    /\ UNCHANGED << hour, count, paused, total, sent, lost, afterPause, ends >>

(* Lock, row, status and validation passed: check_throttle takes the time. *)
StartThrottle(w) ==
    /\ outreach[w].stage = "validate"
    /\ Becomes(w, AtStage(outreach[w], "throttle", hour, 1))
    /\ UNCHANGED << hour, count, paused, total, sent, lost, afterPause, ends >>

(* One GET of check_throttle: over the limit the task is skipped. *)
ReadCounter(w) ==
    LET t == outreach[w]
        checks == Checks(t.domain, t.campaign)
        c == checks[t.next]
        last == t.next = Len(checks)
    IN  /\ t.stage = "throttle"
        /\ \/ /\ count[c][Window(c, t.hour)] >= Limit(c)
              /\ Returns(w)
           \/ /\ count[c][Window(c, t.hour)] < Limit(c)
              /\ Becomes(w, AtStage(t, IF last THEN "compose" ELSE "throttle", t.hour, t.next + 1))
        /\ UNCHANGED << hour, count, paused, total, sent, lost, afterPause, ends >>

(* The task ends without a mail: lock, lead, validation, agent or text.    *)
GiveUp(w) ==
    /\ outreach[w].stage \in { "validate", "compose" }
    /\ Returns(w)
    /\ UNCHANGED << hour, count, paused, total, sent, lost, afterPause, ends >>

(* email_service.send_email, after the text was written and validated. *)
SendFirstTouch(w) ==
    LET t == outreach[w]
    IN  /\ t.stage = "compose"
        /\ Becomes(w, AtStage(t, "record", hour, t.next))
        /\ sent' = Counted(sent, t, hour)
        /\ afterPause' = [k \in Campaigns |->
                IF k = t.campaign /\ paused[k] # "no" THEN afterPause[k] + 1 ELSE afterPause[k]]
        /\ UNCHANGED << hour, count, paused, total, lost, ends >>

(* record_send: one pipeline with all counters, named by its own time.     *)
RecordSend(w) ==
    /\ outreach[w].stage = "record"
    /\ count' = Counted(count, outreach[w], hour)
    /\ Returns(w)
    /\ UNCHANGED << hour, paused, total, sent, lost, afterPause, ends >>

(* An exception or the loss of the worker; a mail that left is not recorded. *)
Fault(w) ==
    LET t == outreach[w]
    IN  /\ t.stage # "idle" /\ ends < MaxLost
        /\ Returns(w)
        /\ lost' = IF t.stage = "record" THEN Counted(lost, t, t.hour) ELSE lost
        /\ ends' = ends + 1
        /\ UNCHANGED << hour, count, paused, total, sent, afterPause >>

NextHour ==
    /\ hour < MaxHour
    /\ hour' = hour + 1
    /\ UNCHANGED << count, outreach, paused, total, sent, lost, afterPause, ends >>
-----------------------------------------------------------------------------
(* The pause endpoint: SET over whatever is there, for seven days. *)
PauseCampaign(k) ==
    /\ paused' = [paused EXCEPT ![k] = "hand"]
    /\ afterPause' = [afterPause EXCEPT ![k] = IF paused[k] = "no" THEN 0 ELSE @]
    /\ UNCHANGED << hour, count, outreach, total, sent, lost, ends >>

(* The unpause endpoint, or the end of the key's time to live. *)
UnpauseCampaign(k) ==
    /\ paused[k] # "no"
    /\ paused' = [paused EXCEPT ![k] = "no"]
    /\ UNCHANGED << hour, count, outreach, total, sent, lost, afterPause, ends >>

(* record_bounce, of which only the all-time count of the campaign is read. *)
RecordBounce(k) ==
    /\ total[k].bounced < MaxBounces
    /\ total' = [total EXCEPT ![k].bounced = @ + 1]
    /\ UNCHANGED << hour, count, outreach, paused, sent, lost, afterPause, ends >>

(* check_campaign_health: a tenth of a large enough sample bounced. *)
ShouldPause(k) ==
    /\ total[k].sent >= MinSample
    /\ 10 * total[k].bounced >= total[k].sent

(***************************************************************************)
(* The beat task: the campaigns with a total_sent key that are not paused  *)
(* are checked and, if unhealthy, paused for a day.                        *)
(***************************************************************************)
AutoPause ==
    LET scanned == { k \in Campaigns : total[k].sent > 0 }
        stopped == { k \in scanned : paused[k] = "no" /\ ShouldPause(k) }
    IN  /\ paused' = [k \in Campaigns |-> IF k \in stopped THEN "auto" ELSE paused[k]]
        /\ afterPause' = [k \in Campaigns |-> IF k \in stopped THEN 0 ELSE afterPause[k]]
        /\ UNCHANGED << hour, count, outreach, total, sent, lost, ends >>

OutboundNext ==
    \/ \E w \in Senders :
        \/ \E d \in Domains, k \in Campaigns \cup {NoCampaign} : CheckPaused(w, d, k)
        \/ StartThrottle(w) \/ ReadCounter(w) \/ GiveUp(w)
        \/ SendFirstTouch(w) \/ RecordSend(w) \/ Fault(w)
    \/ \E k \in Campaigns : PauseCampaign(k) \/ UnpauseCampaign(k) \/ RecordBounce(k)
    \/ AutoPause \/ NextHour

OutboundTypeOK ==
    /\ hour \in Hours /\ ends \in 0 .. MaxLost
    /\ count \in [Counters -> [Hours -> Nat]]
    /\ sent \in [Counters -> [Hours -> Nat]]
    /\ lost \in [Counters -> [Hours -> Nat]]
    /\ outreach \in [Senders -> Task]
    /\ \A w \in Senders : outreach[w].stage = "throttle" =>
            outreach[w].next \in DOMAIN Checks(outreach[w].domain, outreach[w].campaign)
    /\ paused \in [Campaigns -> { "no", "hand", "auto" }]
    /\ total \in [Campaigns -> [sent : Nat, bounced : 0 .. MaxBounces]]
    /\ afterPause \in [Campaigns -> Nat]

(* Nothing is reserved between check_throttle and record_send, so a limit   *)
(* can be exceeded - by one mail per further worker that was past the check, *)
(* and by the mails whose worker was lost before record_send, but by no more: *)
(* neither the four reads one after the other nor a change of the hour between *)
(* check, mail and record add to that. *)
SendsBounded ==
    \A c \in Counters, n \in Hours :
        sent[c][n] <= Limit(c) - 1 + Cardinality(Senders) + lost[c][n]

(* After a campaign is paused only the outreach tasks that had passed the  *)
(* check still mail: at most one first touch per worker, until it is unpaused. *)
PauseOvershoot ==
    \A k \in Campaigns : paused[k] # "no" => afterPause[k] <= Cardinality(Senders)

OutboundSpec == OutboundInit /\ [][OutboundNext]_outboundVars

(* A tenth of the mails of campaign k bounced, of those it has really sent. *)
Unhealthy(k) ==
    LET mailed == SumFunction(sent[k])
    IN  mailed >= MinSample /\ 10 * total[k].bounced >= mailed

(* "Check all active campaigns and pause unhealthy ones": with a beat that  *)
(* comes again and again an unhealthy campaign is paused.  This is what     *)
(* auto_pause_unhealthy_campaigns says of itself; the key total_sent that   *)
(* it scans for is written by nobody, and the run shows it.                 *)
UnhealthyIsPaused ==
    \A k \in Campaigns : Unhealthy(k) ~> (paused[k] # "no" \/ ~Unhealthy(k))

(* The beat comes every 15 minutes. *)
OutboundBeatSpec == OutboundSpec /\ WF_outboundVars(AutoPause)
=============================================================================
