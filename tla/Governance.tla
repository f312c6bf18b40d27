------------------------------ MODULE Governance ------------------------------
(***************************************************************************)
(* Lifecycle of a governed entity (app/services/governance_trust.py): its  *)
(* entry, the approval request, the results of sandbox and trust score and *)
(* the promotion gates are JSON values in five Redis hashes.  Each call    *)
(* reads what it needs, decides on its copies and sets a whole value.      *)
(***************************************************************************)
EXTENDS Integers, Sequences, FiniteSets

CONSTANTS
    Governors,      \* API calls that may overlap
    ApprovalTypes,  \* the types entries are created with
    MaxEntries,     \* bound: create_lifecycle_entry
    MaxVersion,     \* bound: version of an entry
    MaxAsked,       \* bound: approval requests
    MaxChecks       \* bound: sandbox runs, scores and checks of the gates

Needed == [none |-> 0, single |-> 1, dual |-> 2, committee |-> 3]
Gates == { "sandbox", "trust", "approval" }

ASSUME GovernanceAssumption ==
    /\ ApprovalTypes \subseteq DOMAIN Needed \cup { "auto" }
    /\ MaxEntries \in Nat /\ MaxVersion \in Nat \ { 0 } /\ MaxAsked \in Nat /\ MaxChecks \in Nat

LifecycleStates == { "draft", "pending_review", "in_review", "approved", "active",
                     "suspended", "deprecated", "archived" }

(* VALID_TRANSITIONS *)
ValidTransitions ==
    [draft |-> { "pending_review", "archived" }, pending_review |-> { "in_review", "draft" },
     in_review |-> { "approved", "draft" }, approved |-> { "active", "draft" },
     active |-> { "suspended", "deprecated" }, suspended |-> { "active", "deprecated" },
     deprecated |-> { "archived" }, archived |-> {}]

NoEntry == [type |-> "none", version |-> 0, history |-> << >>]
EntryState(e) == e.history[Len(e.history)]
NotAsked == [status |-> "none", type |-> "single", approvals |-> 0]
NotPromoted == [status |-> "none", passed |-> FALSE]
GovernorIdle == [op |-> "idle", target |-> "draft", entry |-> NoEntry, asked |-> NotAsked,
                 passed |-> {}, promotion |-> NotPromoted]

VARIABLES
    entry,          \* governance:lifecycle
    asked,          \* governance:approvals
    sandbox,        \* governance:sandbox: did the last run pass
    trusted,        \* governance:trust:scores: is the score 0.6 or more
    promotion,      \* governance:promotions
    governor,       \* the calls in flight
    everApproved,   \* history: an approval request was granted
    everPassed,     \* history: the gates that passed at some time
    forced,         \* history: promote_to_active was called with force
    entries, asks, checks   \* bounds

gateVars == << sandbox, trusted, promotion >>
governanceHistory == << everApproved, everPassed, forced >>
governanceVars == << entry, asked, gateVars, governor, governanceHistory, entries, asks, checks >>

GovernanceInit ==
    /\ entry = NoEntry /\ asked = NotAsked /\ promotion = NotPromoted
    /\ sandbox \in BOOLEAN /\ trusted \in BOOLEAN      \* results of earlier runs
    /\ governor = [g \in Governors |-> GovernorIdle]
    /\ everApproved = FALSE /\ everPassed = {} /\ forced = FALSE
    /\ entries = 0 /\ asks = 0 /\ checks = 0

Goes(g, call) == governor' = [governor EXCEPT ![g] = call]
-----------------------------------------------------------------------------
(* create_lifecycle_entry sets a draft over whatever is there. *)
CreateLifecycleEntry(t) ==
    /\ entries < MaxEntries /\ entries' = entries + 1
    /\ entry' = [type |-> t, version |-> 1, history |-> << "draft" >>]
    /\ UNCHANGED << asked, gateVars, governor, governanceHistory, asks, checks >>

\* Mutant: for APPROVED the approval request is not asked for.
BeginTransition_Unapproved(g, target) ==
    IF entry # NoEntry /\ target \in ValidTransitions[EntryState(entry)]
    THEN [governor[g] EXCEPT !.op = "set_entry", !.target = target, !.entry = entry]
    ELSE GovernorIdle

(* transition_state reads the entry: an invalid target ends the call, and   *)
(* APPROVED needs a granted request unless the entry's type is NONE.        *)
BeginTransition(g, target) ==
    IF entry # NoEntry /\ target \in ValidTransitions[EntryState(entry)]
    THEN [governor[g] EXCEPT !.op = IF target = "approved" /\ entry.type # "none"
                                    THEN "ask_approval" ELSE "set_entry",
                             !.target = target, !.entry = entry]
    ELSE GovernorIdle

TransitionState(g, target) ==
    /\ governor[g] = GovernorIdle
    /\ BeginTransition(g, target) # GovernorIdle
    /\ Goes(g, BeginTransition(g, target))
    /\ UNCHANGED << entry, asked, gateVars, governanceHistory, entries, asks, checks >>

AskApproval(g) ==
    /\ governor[g].op = "ask_approval"
    /\ Goes(g, IF asked.status = "approved" THEN [governor[g] EXCEPT !.op = "set_entry"]
               ELSE GovernorIdle)
    /\ UNCHANGED << entry, asked, gateVars, governanceHistory, entries, asks, checks >>

\* Mutant: the new state is appended to the entry as it is now.
SetEntry_Fresh(g) ==
    /\ governor[g].op = "set_entry" /\ governor[g].entry.version < MaxVersion
    /\ entry' = [type |-> entry.type, version |-> entry.version + 1,
                  history |-> Append(entry.history, governor[g].target)]
    /\ Goes(g, GovernorIdle)
    /\ UNCHANGED << asked, gateVars, governanceHistory, entries, asks, checks >>

(* The copy, moved and with a longer history, becomes the entry. *)
SetEntry(g) ==
    LET copy == governor[g].entry
    IN  /\ governor[g].op = "set_entry" /\ copy.version < MaxVersion
        /\ entry' = [type |-> copy.type, version |-> copy.version + 1,
                      history |-> Append(copy.history, governor[g].target)]
        /\ Goes(g, GovernorIdle)
        /\ UNCHANGED << asked, gateVars, governanceHistory, entries, asks, checks >>
-----------------------------------------------------------------------------
(* request_approval takes the type from the entry, SINGLE without one, and  *)
(* sets a new request over the old one. *)
ReadType(g) ==
    /\ governor[g] = GovernorIdle /\ asks < MaxAsked
    /\ asks' = asks + 1
    /\ Goes(g, [GovernorIdle EXCEPT !.op = "set_request",
                    !.asked = [NotAsked EXCEPT !.type = IF entry = NoEntry THEN "single" ELSE entry.type]])
    /\ UNCHANGED << entry, asked, gateVars, governanceHistory, entries, checks >>

SetRequestOf(g) ==
    /\ governor[g].op = "set_request"
    /\ asked' = [governor[g].asked EXCEPT !.status = "pending"]
    /\ Goes(g, GovernorIdle)
    /\ UNCHANGED << entry, gateVars, governanceHistory, entries, asks, checks >>

(* approve and reject read the request, which must be pending. *)
ReadAsked(g, op) ==
    /\ governor[g] = GovernorIdle /\ asked.status = "pending"
    /\ Goes(g, [GovernorIdle EXCEPT !.op = op, !.asked = asked])
    /\ UNCHANGED << entry, asked, gateVars, governanceHistory, entries, asks, checks >>

(* Enough approvals - whoever gave them - grant the request; the types NONE *)
(* and AUTO have no branch and stay pending; a late one expires it. *)
Granted(t, n) == t \in { "single", "dual", "committee" } /\ n >= Needed[t]

SetApproval(g) ==
    LET n == governor[g].asked.approvals + 1
        granted == Granted(governor[g].asked.type, n)
    IN  /\ governor[g].op = "approve"
        /\ \/ /\ asked' = [governor[g].asked EXCEPT !.approvals = n,
                                !.status = IF granted THEN "approved" ELSE "pending"]
              /\ everApproved' = (everApproved \/ granted)
           \/ /\ asked' = [governor[g].asked EXCEPT !.status = "expired"]
              /\ UNCHANGED everApproved
        /\ n <= 3
        /\ Goes(g, GovernorIdle)
        /\ UNCHANGED << entry, gateVars, everPassed, forced, entries, asks, checks >>

(* reject goes on to the entry, whose reason it sets: a read and a write    *)
(* of the whole entry. *)
SetRejection(g) ==
    /\ governor[g].op = "reject"
    /\ asked' = [governor[g].asked EXCEPT !.status = "rejected"]
    /\ Goes(g, [GovernorIdle EXCEPT !.op = "read_entry"])
    /\ UNCHANGED << entry, gateVars, governanceHistory, entries, asks, checks >>

ReadEntry(g) ==
    /\ governor[g].op = "read_entry"
    /\ Goes(g, IF entry = NoEntry THEN GovernorIdle
               ELSE [GovernorIdle EXCEPT !.op = "set_reason", !.entry = entry])
    /\ UNCHANGED << entry, asked, gateVars, governanceHistory, entries, asks, checks >>

SetReason(g) ==
    /\ governor[g].op = "set_reason"
    /\ entry' = governor[g].entry
    /\ Goes(g, GovernorIdle)
    /\ UNCHANGED << asked, gateVars, governanceHistory, entries, asks, checks >>
-----------------------------------------------------------------------------
(* run_sandbox_test and calculate_trust_score set their latest result. *)
RunSandboxTest(ok) ==
    /\ checks < MaxChecks /\ checks' = checks + 1
    /\ sandbox' = ok
    /\ UNCHANGED << entry, asked, trusted, promotion, governor, governanceHistory, entries, asks >>

CalculateTrustScore(ok) ==
    /\ checks < MaxChecks /\ checks' = checks + 1
    /\ trusted' = ok
    /\ UNCHANGED << entry, asked, sandbox, promotion, governor, governanceHistory, entries, asks >>

(* check_promotion_gates reads sandbox, trust and approval one after the    *)
(* other; conflicts and the rollback plan come with the call. *)
CheckGate(g, gate) ==
    LET ok == CASE gate = "sandbox" -> sandbox [] gate = "trust" -> trusted
                [] OTHER -> asked.status = "approved"
    IN  /\ \/ gate = "sandbox" /\ governor[g] = GovernorIdle /\ checks < MaxChecks /\ checks' = checks + 1
           \/ gate = "trust" /\ governor[g].op = "gate_sandbox" /\ UNCHANGED checks
           \/ gate = "approval" /\ governor[g].op = "gate_trust" /\ UNCHANGED checks
        /\ Goes(g, [governor[g] EXCEPT !.op = CASE gate = "sandbox" -> "gate_sandbox"
                                               [] gate = "trust" -> "gate_trust" [] OTHER -> "gate_approval",
                                       !.passed = IF ok THEN @ \cup { gate } ELSE @])
        /\ everPassed' = IF ok THEN everPassed \cup { gate } ELSE everPassed
        /\ UNCHANGED << entry, asked, gateVars, everApproved, forced, entries, asks >>

\* Mutant: one passed gate is enough.
SetPromotion_AnyGate(g, conflicts) ==
    LET ok == governor[g].passed # {} /\ ~conflicts
    IN  /\ governor[g].op = "gate_approval"
        /\ promotion' = [status |-> IF ok THEN "approved" ELSE "pending", passed |-> ok]
        /\ Goes(g, GovernorIdle)
        /\ UNCHANGED << entry, asked, sandbox, trusted, governanceHistory, entries, asks, checks >>

SetPromotion(g, conflicts) ==
    LET ok == governor[g].passed = Gates /\ ~conflicts
    IN  /\ governor[g].op = "gate_approval"
        /\ promotion' = [status |-> IF ok THEN "approved" ELSE "pending", passed |-> ok]
        /\ Goes(g, GovernorIdle)
        /\ UNCHANGED << entry, asked, sandbox, trusted, governanceHistory, entries, asks, checks >>

(* promote_to_active reads the stored verdict on the gates, however old, *)
ReadPromotion(g, force) ==
    /\ governor[g] = GovernorIdle /\ promotion # NotPromoted
    /\ promotion.passed \/ force
    /\ Goes(g, [GovernorIdle EXCEPT !.op = "promote", !.promotion = promotion])
    /\ forced' = (forced \/ ~promotion.passed)
    /\ UNCHANGED << entry, asked, gateVars, everApproved, everPassed, entries, asks, checks >>

(* marks it as promoted, and tries the transition of the entry afterwards.  *)
SetPromoted(g) ==
    /\ governor[g].op = "promote"
    /\ promotion' = [governor[g].promotion EXCEPT !.status = "promoted"]
    /\ Goes(g, [GovernorIdle EXCEPT !.op = "transition"])
    /\ UNCHANGED << entry, asked, sandbox, trusted, governanceHistory, entries, asks, checks >>

Activate(g) ==
    /\ governor[g].op = "transition"
    /\ Goes(g, BeginTransition(g, "active"))
    /\ UNCHANGED << entry, asked, gateVars, governanceHistory, entries, asks, checks >>

GovernanceNext ==
    \/ \E t \in ApprovalTypes : CreateLifecycleEntry(t)
    \/ \E ok \in BOOLEAN : RunSandboxTest(ok) \/ CalculateTrustScore(ok)
    \/ \E g \in Governors :
        \/ \E s \in LifecycleStates : TransitionState(g, s)
        \/ AskApproval(g) \/ SetEntry(g)
        \/ ReadType(g) \/ SetRequestOf(g)
        \/ ReadAsked(g, "approve") \/ ReadAsked(g, "reject")
        \/ SetApproval(g) \/ SetRejection(g) \/ ReadEntry(g) \/ SetReason(g)
        \/ \E gate \in Gates : CheckGate(g, gate)
        \/ \E b \in BOOLEAN : SetPromotion(g, b) \/ ReadPromotion(g, b)
        \/ SetPromoted(g) \/ Activate(g)

Entries == [type : DOMAIN Needed \cup { "auto" }, version : 0 .. MaxVersion, history : Seq(LifecycleStates)]

GovernanceTypeOK ==
    /\ entry \in Entries
    /\ asked.status \in { "none", "pending", "approved", "rejected", "expired" }
    /\ asked.approvals \in 0 .. 3 /\ asked.type \in DOMAIN Needed \cup { "auto" }
    /\ promotion \in [status : { "none", "pending", "approved", "promoted" }, passed : BOOLEAN]
    /\ \A g \in Governors : /\ governor[g].entry \in Entries /\ governor[g].passed \subseteq Gates
                             /\ governor[g].target \in LifecycleStates
    /\ everPassed \subseteq Gates /\ { sandbox, trusted, everApproved, forced } \subseteq BOOLEAN

(* However calls overwrite each other's copies, an entry tells a true story: *)
(* its history begins with the draft, goes by valid transitions only, and    *)
(* counts as many states as its version. *)
HistoryIsAPath ==
    entry # NoEntry =>
        /\ entry.history[1] = "draft" /\ entry.version = Len(entry.history)
        /\ \A i \in 2 .. Len(entry.history) :
                entry.history[i] \in ValidTransitions[entry.history[i - 1]]

(* An entry that needs an approval is past the review only if a request for *)
(* the entity was granted - though the grant may be older than the entry.   *)
PastReviewWasApproved ==
    /\ entry # NoEntry
    /\ entry.type # "none"
    /\ EntryState(entry) \in { "approved", "active", "suspended", "deprecated" }
    => everApproved

(* The promotion of an entity says promoted only if each gate had passed at *)
(* some time, or somebody forced it; that they ever passed together nobody  *)
(* checks. *)
PromotedPassedGates ==
    promotion.status = "promoted" => forced \/ everPassed = Gates

GovernanceSpec == GovernanceInit /\ [][GovernanceNext]_governanceVars
=============================================================================
