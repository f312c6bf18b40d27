------------------------------ MODULE MC_Outreach ------------------------------
(* The life of a lead and the services around the outreach in one run:      *)
(* outbound control, recovery of pipelines, handoffs, the managers' desk    *)
(* and bulk requests.  They share no state, so each behaviour is one of one *)
(* service, chosen at the start, and the numbers of states add up.  The     *)
(* desk is explored in two halves, actions and deals.                       *)
EXTENDS LeadLifecycle, Outbound, Recovery, Handoffs, Desk, BulkUpdates, TLC

VARIABLE service

Services == { "lifecycle", "outbound", "recovery", "handoffs", "desk", "deals", "bulk" }
outreachVars == << vars, outboundVars, recoveryVars, handoffsVars, deskVars, bulkVars, service >>

OutreachInit ==
    /\ service \in Services
    /\ Init /\ OutboundInit /\ RecoveryInit /\ HandoffsInit /\ DeskInit /\ BulkInit
    \* of a service that is not chosen one initial state is enough
    /\ service = "lifecycle" \/ ~contact.opted_out
    /\ service = "desk" \/ ticket.owner = "nobody"
    /\ service = "bulk" \/ \A l \in BulkLeads : rows[l] = [domain |-> FALSE, sent |-> FALSE]

(* One of S is the chosen service; the others do not move. *)
On(S) == service \in S /\ UNCHANGED service

OthersStay ==
    /\ IF service = "lifecycle" THEN TRUE ELSE UNCHANGED vars
    /\ IF service = "outbound" THEN TRUE ELSE UNCHANGED outboundVars
    /\ IF service = "recovery" THEN TRUE ELSE UNCHANGED recoveryVars
    /\ IF service = "handoffs" THEN TRUE ELSE UNCHANGED handoffsVars
    /\ IF service \in { "desk", "deals" } THEN TRUE ELSE UNCHANGED deskVars
    /\ IF service = "bulk" THEN TRUE ELSE UNCHANGED bulkVars

LifecycleStep ==
    \/ On({ "lifecycle" }) /\ DiscoverLead /\ OthersStay
    \/ On({ "lifecycle" }) /\ EnrichLead /\ OthersStay
    \/ \E score \in Scores : On({ "lifecycle" }) /\ ScoreLead(score) /\ OthersStay
    \/ On({ "lifecycle" }) /\ QualifyLead /\ OthersStay
    \/ On({ "lifecycle" }) /\ DisqualifyLead /\ OthersStay
    \/ On({ "lifecycle" }) /\ RecordReply /\ OthersStay
    \/ On({ "lifecycle" }) /\ MarkInterested /\ OthersStay
    \/ \E intent \in NegativeIntents : On({ "lifecycle" }) /\ MarkNotInterested(intent) /\ OthersStay
    \/ On({ "lifecycle" }) /\ HandoffToManager /\ OthersStay
    \/ On({ "lifecycle" }) /\ MarkConverted /\ OthersStay
    \/ On({ "lifecycle" }) /\ MarkLost /\ OthersStay
    \/ \E target \in LeadStatus : On({ "lifecycle" }) /\ TransitionTo(target) /\ OthersStay
    \/ \E days \in CooldownDays : On({ "lifecycle" }) /\ SetCooldown(days) /\ OthersStay
    \/ On({ "lifecycle" }) /\ FirstTouch /\ OthersStay
    \/ On({ "lifecycle" }) /\ SendCampaign /\ OthersStay
    \/ On({ "lifecycle" }) /\ Tick /\ OthersStay

OutboundStep ==
    \/ \E w \in Senders, d \in Domains, k \in Campaigns \cup {NoCampaign} :
            On({ "outbound" }) /\ CheckPaused(w, d, k) /\ OthersStay
    \/ \E w \in Senders : On({ "outbound" }) /\ StartThrottle(w) /\ OthersStay
    \/ \E w \in Senders : On({ "outbound" }) /\ ReadCounter(w) /\ OthersStay
    \/ \E w \in Senders : On({ "outbound" }) /\ GiveUp(w) /\ OthersStay
    \/ \E w \in Senders : On({ "outbound" }) /\ SendFirstTouch(w) /\ OthersStay
    \/ \E w \in Senders : On({ "outbound" }) /\ RecordSend(w) /\ OthersStay
    \/ \E w \in Senders : On({ "outbound" }) /\ Fault(w) /\ OthersStay
    \/ \E k \in Campaigns : On({ "outbound" }) /\ PauseCampaign(k) /\ OthersStay
    \/ \E k \in Campaigns : On({ "outbound" }) /\ UnpauseCampaign(k) /\ OthersStay
    \/ \E k \in Campaigns : On({ "outbound" }) /\ RecordBounce(k) /\ OthersStay
    \/ On({ "outbound" }) /\ AutoPause /\ OthersStay
    \/ On({ "outbound" }) /\ NextHour /\ OthersStay

(* The steps the retry endpoint is asked for: a lead that starts at         *)
(* EMAIL_READY is past the others, which find the wrong status. *)
AskedSteps == { "outreach", "followup_1" }

RecoveryStep ==
    \/ \E p \in Procs, m \in tasks : On({ "recovery" }) /\ TakeStep(p, m) /\ OthersStay
    \/ \E p \in Procs : On({ "recovery" }) /\ GetTrace(p) /\ OthersStay
    \/ \E p \in Procs : On({ "recovery" }) /\ SetTrace(p) /\ OthersStay
    \/ \E p \in Procs : On({ "recovery" }) /\ RunStep(p) /\ OthersStay
    \/ \E p \in Procs : On({ "recovery" }) /\ LockNotAcquired(p) /\ OthersStay
    \/ \E p \in Procs : On({ "recovery" }) /\ PublishNext(p) /\ OthersStay
    \/ \E p \in Procs : On({ "recovery" }) /\ CommittedStepFails(p) /\ OthersStay
    \/ \E b \in Beats, r \in Runs : On({ "recovery" }) /\ AutoRecoverRead(b, r) /\ OthersStay
    \/ \E b \in Beats : On({ "recovery" }) /\ AutoRecoverRetry(b) /\ OthersStay
    \/ \E b \in Beats : On({ "recovery" }) /\ AutoRecoverCount(b) /\ OthersStay
    \/ \E b \in Beats : On({ "recovery" }) /\ AutoRecoverUncounted(b) /\ OthersStay
    \/ \E r \in Runs : On({ "recovery" }) /\ RetryRunCalled(r) /\ OthersStay
    \/ \E s \in AskedSteps : On({ "recovery" }) /\ RetryStepCalled(s) /\ OthersStay

HandoffsStep ==
    \/ \E h \in HandoffIds : On({ "handoffs" }) /\ CreateHandoff(h) /\ OthersStay
    \/ \E h \in HandoffIds : On({ "handoffs" }) /\ DeleteHandoff(h) /\ OthersStay
    \/ \E c \in ManagerCalls, h \in HandoffIds, op \in Operations \ { "archive" } :
            On({ "handoffs" }) /\ ReadHandoff(c, h, op) /\ OthersStay
    \/ \E c \in ManagerCalls, h \in HandoffIds : On({ "handoffs" }) /\ UpdateHandoff(c, h) /\ OthersStay
    \/ \E c \in ManagerCalls, h \in HandoffIds : On({ "handoffs" }) /\ ReadHandedLead(c, h) /\ OthersStay
    \/ \E c \in ManagerCalls, h \in HandoffIds : On({ "handoffs" }) /\ CommitHandoff(c, h) /\ OthersStay
    \/ \E c \in ManagerCalls, h \in HandoffIds : On({ "handoffs" }) /\ ReadToArchive(c, h) /\ OthersStay
    \/ \E c \in ManagerCalls, h \in HandoffIds : On({ "handoffs" }) /\ ArchiveHanded(c, h) /\ OthersStay

DeskStep ==
    \/ \E c \in DeskCalls, op \in DOMAIN StatusAfter, m \in Managers :
            On({ "desk" }) /\ TakeAction(c, op, m) /\ OthersStay
    \/ \E c \in DeskCalls, m \in Managers : On({ "deals" }) /\ TakeAction(c, "mark_qualified", m) /\ OthersStay
    \/ \E c \in DeskCalls : On({ "desk", "deals" }) /\ CreateDeal(c) /\ OthersStay
    \/ \E c \in DeskCalls : On({ "desk", "deals" }) /\ SaveHandoff(c) /\ OthersStay
    \/ \E c \in DeskCalls : On({ "desk", "deals" }) /\ UpdateIndices(c) /\ OthersStay
    \/ \E c \in DeskCalls : On({ "desk", "deals" }) /\ LoseDeskCall(c) /\ OthersStay
    \/ \E c \in DeskCalls, to \in DealStages : On({ "deals" }) /\ ReadDeal(c, to) /\ OthersStay
    \/ \E c \in DeskCalls, again \in BOOLEAN : On({ "deals" }) /\ SetDeal(c, again) /\ OthersStay
    \/ \E c \in DeskCalls : On({ "deals" }) /\ SetDealAgain(c) /\ OthersStay
    \/ \E c \in DeskCalls : On({ "deals" }) /\ RecordClosing(c) /\ OthersStay

BulkStep ==
    \/ \E c \in BulkCalls, op \in Requests : \E list \in Lists(op) : On({ "bulk" }) /\ StartBulk(c, op, list) /\ OthersStay
    \/ \E c \in BulkCalls : On({ "bulk" }) /\ HttpCall(c) /\ OthersStay
    \/ \E c \in BulkCalls : On({ "bulk" }) /\ UpdateRow(c) /\ OthersStay
    \/ \E c \in BulkCalls : On({ "bulk" }) /\ AbortDeadlock(c) /\ OthersStay
    \/ \E c \in BulkCalls : On({ "bulk" }) /\ CommitBulk(c) /\ OthersStay

OutreachNext ==
    \/ LifecycleStep \/ OutboundStep \/ RecoveryStep \/ HandoffsStep \/ DeskStep \/ BulkStep
OutreachSpec == OutreachInit /\ [][OutreachNext]_outreachVars

(* The type invariants of the services. *)
OutreachTypeOK ==
    CASE service = "lifecycle" -> TypeOK
      [] service = "outbound" -> OutboundTypeOK
      [] service = "recovery" -> RecoveryTypeOK
      [] service = "handoffs" -> HandoffsTypeOK
      [] service \in { "desk", "deals" } -> DeskTypeOK
      [] service = "bulk" -> BulkTypeOK

(* Every service has its sets of actors from the same two sets, so that few *)
(* permutations serve all of them. *)
Symmetry == Permutations(Senders) \cup Permutations(ManagerCalls)
=============================================================================
