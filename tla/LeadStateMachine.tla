-------------------------- MODULE LeadStateMachine --------------------------
(***************************************************************************)
(* The lead record and the pure part of its life cycle: the transition     *)
(* graph of app/core/state_machine.py and the effect on a lead of          *)
(* LeadOrchestrator.transition (app/orchestrator/engine.py).  There are no *)
(* variables here: every module that changes a lead uses these operators.  *)
(***************************************************************************)
EXTENDS Naturals

CONSTANT MaxTime      \* the clock runs over 0 .. MaxTime

ASSUME MaxTimeAssumption == MaxTime \in Nat

Time == 0 .. MaxTime
NoDate == 0           \* a nullable datetime that is None; dates start at 1

LeadStatus ==
    { "LEAD_FOUND", "ENRICHED", "SCORED", "EMAIL_READY", "OUTREACH_SENT",
      "IN_SEQUENCE", "REPLY_RECEIVED", "INTEREST_DETECTED", "QUALIFIED",
      "HANDED_TO_MANAGER", "CONVERTED", "ARCHIVED", "REFUSED", "COOLDOWN",
      "OPTED_OUT", "BOUNCED", "DUPLICATE" }

\* The successors of each status.
Transitions ==
    [ LEAD_FOUND        |-> { "ENRICHED", "ARCHIVED", "DUPLICATE" },
      ENRICHED          |-> { "SCORED", "ARCHIVED" },
      SCORED            |-> { "EMAIL_READY", "ARCHIVED" },
      EMAIL_READY       |-> { "OUTREACH_SENT" },
      OUTREACH_SENT     |-> { "IN_SEQUENCE", "REPLY_RECEIVED", "BOUNCED", "COOLDOWN" },
      IN_SEQUENCE       |-> { "REPLY_RECEIVED", "ARCHIVED", "BOUNCED", "COOLDOWN" },
      REPLY_RECEIVED    |-> { "INTEREST_DETECTED", "REFUSED", "IN_SEQUENCE",
                              "OPTED_OUT", "COOLDOWN" },
      INTEREST_DETECTED |-> { "QUALIFIED" },
      QUALIFIED         |-> { "HANDED_TO_MANAGER" },
      HANDED_TO_MANAGER |-> { "CONVERTED", "ARCHIVED" },
      CONVERTED         |-> {},
      BOUNCED           |-> { "ARCHIVED" },
      REFUSED           |-> { "COOLDOWN", "ARCHIVED" },
      COOLDOWN          |-> { "LEAD_FOUND" },
      OPTED_OUT         |-> {},
      DUPLICATE         |-> {},
      ARCHIVED          |-> { "LEAD_FOUND" } ]

\* EmployerLead, without the fields no guard reads: archived stands for
\* archived_at being set, do_not_contact_until is a date or NoDate.
Lead == [ status: LeadStatus, opted_out: BOOLEAN, archived: BOOLEAN,
          do_not_contact_until: Time ]

NewLead == [ status |-> "LEAD_FOUND", opted_out |-> FALSE, archived |-> FALSE,
             do_not_contact_until |-> NoDate ]

\* Mutant: a reply is enough to qualify a lead.
CanTransition_ReplyQualifies(from, to) ==
    to \in Transitions[from] \/ (from = "REPLY_RECEIVED" /\ to = "QUALIFIED")

CanTransition(from, to) == to \in Transitions[from]

\* Mutant: opting out is remembered by the status alone.
Moved_ForgetsOptOut(lead, target) ==
    [ lead EXCEPT !.status = target, !.archived = @ \/ target = "ARCHIVED" ]

\* What transition() leaves in a lead once its guard has passed.
Moved(lead, target) ==
    [ lead EXCEPT !.status    = target,
                  !.archived  = @ \/ target = "ARCHIVED",
                  !.opted_out = @ \/ target = "OPTED_OUT" ]

\* The predicates the services ask of a status.
IsTerminal(status) == Transitions[status] = {}

ReplyIntent == { "no_reply", "auto_reply", "neutral", "refusal", "soft_interest",
                 "request_details", "strong_interest", "ready_to_call",
                 "unsubscribe", "wrong_person" }

PositiveIntents == { "soft_interest", "request_details", "strong_interest",
                     "ready_to_call" }

NegativeIntents == { "refusal", "unsubscribe" }
=============================================================================
