---------------------------- MODULE LeadLifecycle ----------------------------
(***************************************************************************)
(* The life of one lead as its services see it when they run one at a      *)
(* time: LeadOrchestrator's operations, ComplianceService's cooldown, and  *)
(* the two ways a mail leaves the system - the outreach task, which asks   *)
(* the gates first, and the send-campaign endpoint, which does not.        *)
(* Bounces of the contact are not here: process_hard_bounce and            *)
(* process_soft_bounce save nothing and nothing calls them.                *)
(*                                                                         *)
(* An orchestrator call whose transition is not allowed raises ValueError  *)
(* and changes nothing; such calls are not steps.                          *)
(***************************************************************************)
EXTENDS LeadStateMachine, FiniteSets

CONSTANTS Scores,            \* the scores the scoring agent returns
          CooldownDays,      \* the `days` arguments of set_cooldown; 0 is None
          DefaultCooldown,   \* DEFAULT_COOLDOWN_DAYS
          MinLength          \* of a mail: MIN_SUBJECT_LENGTH and MIN_BODY_LENGTH

ASSUME LifecycleAssumption ==
    /\ Scores \subseteq Nat
    /\ CooldownDays \subseteq Nat
    /\ DefaultCooldown \in Nat \ {0}
    /\ MinLength \in Nat

VARIABLES
    lead,      \* the EmployerLead
    contact,   \* its EmployerContact: [opted_out]
    now,       \* the clock
    visited,   \* history: statuses passed since the lead was last found
    promises,  \* history: what the lead or its contact has been promised
    broken     \* history: the promises a mail broke, with the mail's channel

vars == << lead, contact, now, visited, promises, broken >>

Channels == { "outreach", "campaign" }
PromiseKinds == { "opt_out", "unsubscribe", "cooldown" }

\* unsubscribed: an unsubscribe reply was handled; opted_out: the lead was in
\* OPTED_OUT once; quiet_until: the date of the last set_cooldown.
Promises == [ opted_out: BOOLEAN, unsubscribed: BOOLEAN, quiet_until: Time ]

TypeOK ==
    /\ lead \in Lead
    /\ contact \in [ opted_out: BOOLEAN ]
    /\ now \in Time
    /\ visited \subseteq LeadStatus
    /\ promises \in Promises
    /\ broken \subseteq (Channels \X PromiseKinds)

-----------------------------------------------------------------------------
(* Gates *)

InFuture(date) == date # NoDate /\ now < date

\* ComplianceService.check_opt_out
CheckOptOut ==
    \/ lead.opted_out
    \/ lead.status = "OPTED_OUT"
    \/ InFuture(lead.do_not_contact_until)
    \/ contact.opted_out

\* OutboundService._validate_lead, for a lead with a usable name and domain
ValidateLead ==
    /\ lead.status \notin { "OPTED_OUT", "BOUNCED", "DUPLICATE", "ARCHIVED" }
    /\ ~ lead.opted_out
    /\ ~ InFuture(lead.do_not_contact_until)

\* OutboundService._validate_contact, for a well-formed address; the bounce
\* count it asks for stays 0, as nothing saves another.
ValidateContact == ~ contact.opted_out

\* OutboundService._validate_content, for a mail of this length.
ValidateContent(length) == length >= MinLength

ValidatePreSend(length) == ValidateLead /\ ValidateContact /\ ValidateContent(length)

-----------------------------------------------------------------------------
(* Status changes *)

\* LeadOrchestrator.transition
Transition(target) ==
    /\ CanTransition(lead.status, target)
    /\ lead' = Moved(lead, target)
    /\ visited' = IF target = "LEAD_FOUND" THEN {target} ELSE visited \cup {target}
    /\ promises' = [ promises EXCEPT !.opted_out = @ \/ target = "OPTED_OUT" ]

Others == << contact, now, broken >>

\* Mutant: a lead found again gets a status outside the enumeration.
DiscoverLead_NewStatus ==
    /\ lead.status # "LEAD_FOUND"
    /\ lead' = [ lead EXCEPT !.status = "NEW" ]
    /\ visited' = {"LEAD_FOUND"}
    /\ UNCHANGED << promises, Others >>

\* discover_lead assigns the status without asking the state machine.
DiscoverLead ==
    /\ lead.status # "LEAD_FOUND"
    /\ lead' = [ lead EXCEPT !.status = "LEAD_FOUND" ]
    /\ visited' = {"LEAD_FOUND"}
    /\ UNCHANGED << promises, Others >>

EnrichLead == Transition("ENRICHED") /\ UNCHANGED Others

ScoreLead(score) ==
    /\ Transition(IF score >= 50 THEN "SCORED" ELSE "ARCHIVED")
    /\ UNCHANGED Others

QualifyLead == Transition("EMAIL_READY") /\ UNCHANGED Others
DisqualifyLead == Transition("ARCHIVED") /\ UNCHANGED Others
RecordReply == Transition("REPLY_RECEIVED") /\ UNCHANGED Others
MarkInterested == Transition("INTEREST_DETECTED") /\ UNCHANGED Others

\* mark_not_interested records the intent in its event only: a refusal and an
\* unsubscribe leave the same lead.
MarkNotInterested(intent) ==
    /\ CanTransition(lead.status, "REFUSED")
    /\ lead' = Moved(lead, "REFUSED")
    /\ visited' = visited \cup {"REFUSED"}
    /\ promises' = [ promises EXCEPT !.unsubscribed = @ \/ intent = "unsubscribe" ]
    /\ UNCHANGED Others

HandoffToManager == Transition("HANDED_TO_MANAGER") /\ UNCHANGED Others
MarkConverted == Transition("CONVERTED") /\ UNCHANGED Others
MarkLost == Transition("ARCHIVED") /\ UNCHANGED Others

\* transition() called directly, as pause_outreach and send_followup call it.
TransitionTo(target) == Transition(target) /\ UNCHANGED Others

\* Mutant: the date is set only where the status cannot say it.
SetCooldown_DateOnlyWithoutMove(days) ==
    LET until == now + (IF days = 0 THEN DefaultCooldown ELSE days)
        moves == CanTransition(lead.status, "COOLDOWN")
    IN  /\ until \in Time
        /\ lead' = IF moves THEN Moved(lead, "COOLDOWN")
                   ELSE [ lead EXCEPT !.do_not_contact_until = until ]
        /\ visited' = IF moves THEN visited \cup {"COOLDOWN"} ELSE visited
        /\ promises' = [ promises EXCEPT !.quiet_until = until ]
        /\ UNCHANGED Others

\* ComplianceService.set_cooldown: the date is always set, the status only
\* when the graph allows it.
SetCooldown(days) ==
    LET until == now + (IF days = 0 THEN DefaultCooldown ELSE days)
        dated == [ lead EXCEPT !.do_not_contact_until = until ]
        moves == CanTransition(lead.status, "COOLDOWN")
    IN  /\ until \in Time
        /\ lead' = IF moves THEN Moved(dated, "COOLDOWN") ELSE dated
        /\ visited' = IF moves THEN visited \cup {"COOLDOWN"} ELSE visited
        /\ promises' = [ promises EXCEPT !.quiet_until = until ]
        /\ UNCHANGED Others

-----------------------------------------------------------------------------
(* Mails *)

\* The promises a mail sent now would break.
BrokenNow ==
    { p \in PromiseKinds :
        \/ p = "opt_out"     /\ promises.opted_out
        \/ p = "unsubscribe" /\ promises.unsubscribed
        \/ p = "cooldown"    /\ InFuture(promises.quiet_until) }

Mail(channel) == broken' = broken \cup ({channel} \X BrokenNow)

NoDraft == 0
Drafts == { NoDraft, MinLength }

\* start_outreach: the status guard, the gates - validate_pre_send is asked
\* before the text is written and after - the mail, then the status change.
\* A failure after the mail loses the change and keeps the mail.
FirstTouch ==
    /\ lead.status = "EMAIL_READY"
    /\ ValidatePreSend(NoDraft)
    /\ ~ CheckOptOut
    /\ \E draft \in Drafts : ValidatePreSend(draft)
    /\ Mail("outreach")
    /\ \/ Transition("OUTREACH_SENT")
       \/ UNCHANGED << lead, visited, promises >>
    /\ UNCHANGED << contact, now >>

\* The send-campaign endpoint mails a lead that has a domain, in any status.
SendCampaign ==
    /\ Mail("campaign")
    /\ \/ Transition("OUTREACH_SENT")
       \/ /\ ~ CanTransition(lead.status, "OUTREACH_SENT")
          /\ UNCHANGED << lead, visited, promises >>
    /\ UNCHANGED << contact, now >>

Tick ==
    /\ now < MaxTime
    /\ now' = now + 1
    /\ UNCHANGED << lead, contact, visited, promises, broken >>

-----------------------------------------------------------------------------
\* A lead enters as LEAD_FOUND; its contact may have opted out before.
Init ==
    /\ lead = NewLead
    /\ contact \in [ opted_out: BOOLEAN ]
    /\ now = 1 /\ now \in Time
    /\ visited = {"LEAD_FOUND"}
    /\ promises = [ opted_out |-> FALSE, unsubscribed |-> FALSE,
                    quiet_until |-> NoDate ]
    /\ broken = {}

Next ==
    \/ DiscoverLead
    \/ EnrichLead
    \/ \E score \in Scores : ScoreLead(score)
    \/ QualifyLead
    \/ DisqualifyLead
    \/ RecordReply
    \/ MarkInterested
    \/ \E intent \in NegativeIntents : MarkNotInterested(intent)
    \/ HandoffToManager
    \/ MarkConverted
    \/ MarkLost
    \/ \E target \in LeadStatus : TransitionTo(target)
    \/ \E days \in CooldownDays : SetCooldown(days)
    \/ FirstTouch
    \/ SendCampaign
    \/ Tick

Spec == Init /\ [][Next]_vars

-----------------------------------------------------------------------------
(* Properties *)

WarmPath == { "SCORED", "OUTREACH_SENT", "REPLY_RECEIVED", "INTEREST_DETECTED" }

\* A manager only gets a lead that, since it was last (re)discovered, was
\* scored, mailed, heard from and found interested: no sequence of
\* orchestrator calls, reactivations and cooldowns reaches a handoff around
\* one of these stages.
HandoffIsWarm ==
    lead.status \in { "HANDED_TO_MANAGER", "CONVERTED" } => WarmPath \subseteq visited

\* The outreach task never mails a lead that was ever opted out, also not
\* after discover_lead has put it back at LEAD_FOUND and it went through
\* scoring and qualification again.
OptOutIsForever == << "outreach", "opt_out" >> \notin broken

\* The outreach task never mails a lead before the end of the last cooldown it
\* was given, in whatever status the cooldown found it and however the lead
\* has been reactivated since.
CooldownHonoured == << "outreach", "cooldown" >> \notin broken

\* start_outreach asks validate_pre_send about a mail without text first: "will
\* be validated after generation".  So the question should be about the lead and
\* the contact only.  The code breaks it: no lead passes, none is ever mailed.
DraftCheckedLater ==
    lead.status = "EMAIL_READY" /\ ValidateLead /\ ValidateContact
        => ValidatePreSend(NoDraft)

\* A lead that asked to unsubscribe is never mailed again, on any channel:
\* what ARCHITECTURE.md and email_strategy.md promise.  The code breaks it.
UnsubscribeIsForever == \A channel \in Channels : << channel, "unsubscribe" >> \notin broken
=============================================================================
