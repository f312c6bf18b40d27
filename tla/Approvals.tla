------------------------------- MODULE Approvals -------------------------------
(***************************************************************************)
(* Approval gates (app/services/approval_gates.py) and the safe runbooks   *)
(* that name an approval (app/services/ops_assistant.py).  Rules, requests *)
(* and runbooks are JSON values in Redis hashes: each call reads one with  *)
(* HGET, decides on its copy and sets the whole of it with HSET.           *)
(***************************************************************************)
EXTENDS Integers, Sequences, FiniteSets, SequencesExt

CONSTANTS
    Actors,         \* people who approve, reject and cancel
    GateCalls,      \* API calls that may overlap
    Cooldown,       \* cooldown_minutes of the runbook
    MaxClock,       \* bound: minutes
    MaxDecisions    \* bound: decisions recorded for a request

Categories == { "data_deletion", "deployment", "integration" }
Times == 0 .. MaxClock
Never == -1

ASSUME ApprovalsAssumption ==
    /\ IsFiniteSet(GateCalls) /\ GateCalls # {}
    /\ Cooldown \in Nat /\ MaxClock \in Nat /\ MaxDecisions \in Nat

(* DEFAULT_RULES: two approvers for critical categories, one for others;   *)
(* no rule at all means one.  A rule expires its requests (here: in time).  *)
DefaultRules == [data_deletion |-> 2, deployment |-> 1]
Required(installed, k) ==
    IF k \in installed \cap DOMAIN DefaultRules THEN DefaultRules[k] ELSE 1

NoRequest == [status |-> "none", required |-> 1, approvers |-> << >>, by |-> "nobody"]

CallIdle == [op |-> "idle", who |-> "nobody", copy |-> NoRequest, last |-> Never, now |-> 0]

VARIABLES
    rules,          \* categories with a rule
    request,        \* one approval request
    expired,        \* the clock is past its expires_at
    decisions,      \* approval:decisions:{id}, the latest first
    gateCall,       \* the calls in flight
    overwritten,    \* history: writes over a decided request
    clock,
    lastRun,        \* last_executed of one runbook
    runsAt          \* history: executions by their executed_at

approvalVars == << rules, request, expired, decisions, gateCall, overwritten >>
runbookVars == << clock, lastRun, runsAt >>
approvalsVars == << approvalVars, runbookVars >>

ApprovalsInit ==
    /\ rules = {} /\ request = NoRequest /\ expired = FALSE /\ decisions = << >>
    /\ gateCall = [c \in GateCalls |-> CallIdle] /\ overwritten = 0
    /\ clock = 0 /\ lastRun = Never /\ runsAt = [t \in Times |-> 0]

Decided == { "approved", "rejected", "expired", "cancelled" }

(* HSET of the whole request. *)
SetRequest(c, new) ==
    /\ request' = new
    /\ overwritten' = IF request.status \in Decided THEN overwritten + 1 ELSE overwritten
    /\ gateCall' = [gateCall EXCEPT ![c] = CallIdle]
-----------------------------------------------------------------------------
InitializeDefaults ==
    /\ rules' = DOMAIN DefaultRules
    /\ UNCHANGED << request, expired, decisions, gateCall, overwritten, runbookVars >>

(* request_approval takes the number of approvers from the rule of the day. *)
RequestApproval(k) ==
    /\ request = NoRequest
    /\ request' = [NoRequest EXCEPT !.status = "pending", !.required = Required(rules, k)]
    /\ UNCHANGED << rules, expired, decisions, gateCall, overwritten, runbookVars >>

Expires ==
    /\ request # NoRequest /\ ~expired /\ expired' = TRUE
    /\ UNCHANGED << rules, request, decisions, gateCall, overwritten, runbookVars >>

\* Mutant: the status of the request is not looked at.
GetRequest_AnyStatus(c, op, a) ==
    /\ gateCall[c] = CallIdle /\ request # NoRequest
    /\ gateCall' = [gateCall EXCEPT ![c] =
            [CallIdle EXCEPT !.op = op, !.who = a, !.copy = request]]
    /\ UNCHANGED << rules, request, expired, decisions, overwritten, runbookVars >>

(* approve, reject and cancel read the request; only a pending one goes on. *)
GetRequest(c, op, a) ==
    /\ gateCall[c] = CallIdle /\ request.status = "pending"
    /\ gateCall' = [gateCall EXCEPT ![c] =
            [CallIdle EXCEPT !.op = op, !.who = a, !.copy = request]]
    /\ UNCHANGED << rules, request, expired, decisions, overwritten, runbookVars >>

(* approve alone looks at the time. *)
SetExpired(c) ==
    /\ gateCall[c].op = "approve" /\ expired
    /\ SetRequest(c, [gateCall[c].copy EXCEPT !.status = "expired"])
    /\ UNCHANGED << rules, expired, decisions, runbookVars >>

(* LPUSH of the decision comes first, *)
RecordDecision(c) ==
    LET w == gateCall[c]
    IN  /\ w.op = "reject" \/ (w.op = "approve" /\ ~expired)
        /\ Len(decisions) < MaxDecisions
        /\ decisions' = << [by |-> w.who, is |-> w.op] >> \o decisions
        /\ gateCall' = [gateCall EXCEPT ![c].op = IF w.op = "reject" THEN "set_rejected" ELSE "set_approved"]
        /\ UNCHANGED << rules, request, expired, overwritten, runbookVars >>

\* Mutant: who approves twice counts twice.
SetApproved_Again(c) ==
    LET w == gateCall[c]
        approvers == Append(w.copy.approvers, w.who)
    IN  /\ w.op = "set_approved"
        /\ SetRequest(c, IF Len(approvers) >= w.copy.required
                         THEN [w.copy EXCEPT !.approvers = approvers, !.status = "approved", !.by = w.who]
                         ELSE [w.copy EXCEPT !.approvers = approvers])
        /\ UNCHANGED << rules, expired, decisions, runbookVars >>

(* then the copy is set, with one approver more and perhaps approved. *)
SetApproved(c) ==
    LET w == gateCall[c]
        approvers == IF w.who \in ToSet(w.copy.approvers) THEN w.copy.approvers
                     ELSE Append(w.copy.approvers, w.who)
    IN  /\ w.op = "set_approved"
        /\ SetRequest(c, IF Len(approvers) >= w.copy.required
                         THEN [w.copy EXCEPT !.approvers = approvers, !.status = "approved", !.by = w.who]
                         ELSE [w.copy EXCEPT !.approvers = approvers])
        /\ UNCHANGED << rules, expired, decisions, runbookVars >>

SetRejected(c) ==
    /\ gateCall[c].op = "set_rejected"
    /\ SetRequest(c, [gateCall[c].copy EXCEPT !.status = "rejected", !.by = gateCall[c].who])
    /\ UNCHANGED << rules, expired, decisions, runbookVars >>

SetCancelled(c) ==
    /\ gateCall[c].op = "cancel"
    /\ SetRequest(c, [gateCall[c].copy EXCEPT !.status = "cancelled", !.by = gateCall[c].who])
    /\ UNCHANGED << rules, expired, decisions, runbookVars >>
-----------------------------------------------------------------------------
(* Runbooks. *)

(* execute_runbook, of a runbook that requires an approval: the cooldown is *)
(* compared with the copy.  Whatever check_approval answers, an approval id *)
(* is enough: the ValueError for one that is not granted is raised inside   *)
(* the try that passes exceptions.                                          *)
StartRunbook(c) ==
    /\ gateCall[c] = CallIdle
    /\ lastRun = Never \/ clock - lastRun >= Cooldown
    /\ gateCall' = [gateCall EXCEPT ![c] = [CallIdle EXCEPT !.op = "run", !.last = lastRun, !.now = clock]]
    /\ UNCHANGED << rules, request, expired, decisions, overwritten, runbookVars >>

\* Mutant: last_executed is not saved.
FinishRunbook_Unsaved(c) ==
    /\ gateCall[c].op = "run"
    /\ runsAt' = [runsAt EXCEPT ![gateCall[c].now] = @ + 1]
    /\ gateCall' = [gateCall EXCEPT ![c] = CallIdle]
    /\ UNCHANGED << rules, request, expired, decisions, overwritten, clock, lastRun >>

(* The runbook is set with the time of the call's start. *)
FinishRunbook(c) ==
    /\ gateCall[c].op = "run"
    /\ lastRun' = gateCall[c].now
    /\ runsAt' = [runsAt EXCEPT ![gateCall[c].now] = @ + 1]
    /\ gateCall' = [gateCall EXCEPT ![c] = CallIdle]
    /\ UNCHANGED << rules, request, expired, decisions, overwritten, clock >>

Minute ==
    /\ clock < MaxClock /\ clock' = clock + 1
    /\ UNCHANGED << approvalVars, lastRun, runsAt >>

ApprovalsNext ==
    \/ InitializeDefaults \/ Expires \/ Minute
    \/ \E k \in Categories : RequestApproval(k)
    \/ \E c \in GateCalls :
        \/ \E op \in { "approve", "reject", "cancel" }, a \in Actors : GetRequest(c, op, a)
        \/ SetExpired(c) \/ RecordDecision(c) \/ SetApproved(c) \/ SetRejected(c) \/ SetCancelled(c)
        \/ StartRunbook(c) \/ FinishRunbook(c)

ApprovalsTypeOK ==
    /\ rules \subseteq Categories /\ expired \in BOOLEAN
    /\ request.status \in Decided \cup { "none", "pending" }
    /\ request.approvers \in Seq(Actors) /\ request.required \in 1 .. 2
    /\ decisions \in Seq([by : Actors, is : { "approve", "reject" }])
    /\ \A c \in GateCalls : gateCall[c].copy.status \in { "none", "pending" }
    /\ clock \in Times /\ lastRun \in Times \cup { Never }
    /\ runsAt \in [Times -> Nat] /\ overwritten \in Nat

(* A request that reads approved has as many different approvers as its     *)
(* rule wanted, and the log has a decision of each of them - though two     *)
(* calls may work on copies of the same request. *)
ApprovedByEnough ==
    request.status = "approved" =>
        /\ Cardinality(ToSet(request.approvers)) >= request.required
        /\ \A a \in ToSet(request.approvers) : [by |-> a, is |-> "approve"] \in ToSet(decisions)

(* A decision can be undone by a call that read the request before it: the  *)
(* last to set it wins, a rejection may become an approval, and where two   *)
(* approvers are needed a decided request may even be pending again.  With  *)
(* one approver only the calls in flight at the decision can undo it.       *)
DecisionOverwrittenBounded ==
    request.required = 1 => overwritten <= Cardinality(GateCalls) - 1

(* Calls that overlap all see the cooldown over, and a call that started    *)
(* earlier puts the time back: within one minute n calls can execute a      *)
(* runbook that has a cooldown 1 + 2 + ... + n times, and not more often.   *)
CooldownOvershoot ==
    LET n == Cardinality(GateCalls)
    IN  Cooldown > 0 => \A t \in Times : 2 * runsAt[t] <= n * (n + 1)

ApprovalsSpec == ApprovalsInit /\ [][ApprovalsNext]_approvalsVars
=============================================================================
