-------------------------------- MODULE Guards --------------------------------
(***************************************************************************)
(* Production guards (app/services/decision_safety.py): JSON values in one *)
(* Redis hash.  A check takes the first active guard that matches and sets *)
(* its copy of that guard, with one more violation; a toggle sets a whole  *)
(* copy too; the initialization sets those it did not find.                *)
(***************************************************************************)
EXTENDS Integers, Sequences

CONSTANTS
    GuardCount,     \* guards, numbered in the order of HGETALL
    GuardCalls,     \* API calls that may overlap
    MaxViolations,  \* bound: violations recorded
    MaxToggles      \* bound: toggles

ASSUME GuardsAssumption ==
    GuardCount \in Nat \ {0} /\ MaxViolations \in Nat /\ MaxToggles \in Nat

GuardIds == 1 .. GuardCount
NoGuard == [there |-> FALSE, active |-> FALSE, violations |-> 0]
NewGuard == [there |-> TRUE, active |-> TRUE, violations |-> 0]
AtGuard == [op |-> "idle", id |-> 1, copy |-> NoGuard]

VARIABLES
    guards,         \* decision_safety:guards
    violationLog,   \* decision_safety:violations, counted by guard
    guardCall,      \* the calls in flight
    switchedOff,    \* history: the last toggle that was set said off
    toggles         \* bound

guardsVars == << guards, violationLog, guardCall, switchedOff, toggles >>

GuardsInit ==
    /\ guards = [i \in GuardIds |-> NoGuard]
    /\ violationLog = [i \in GuardIds |-> 0]
    /\ guardCall = [c \in GuardCalls |-> AtGuard]
    /\ switchedOff = [i \in GuardIds |-> FALSE]
    /\ toggles = 0

GuardGoes(c, w) == guardCall' = [guardCall EXCEPT ![c] = w]
-----------------------------------------------------------------------------
(* initialize_guards, for one default: HGET, and HSET if it was not there.  *)
FindGuard(c, i) ==
    /\ guardCall[c] = AtGuard /\ ~guards[i].there
    /\ GuardGoes(c, [op |-> "set", id |-> i, copy |-> NewGuard])
    /\ UNCHANGED << guards, violationLog, switchedOff, toggles >>

\* Mutant: the list is not filtered by active.
Listed_Inactive(matching) == { i \in matching : guards[i].there }

(* list_guards(active_only=True), as far as patterns and conditions match.  *)
Listed(matching) == { i \in matching : guards[i].there /\ guards[i].active }

(* The first of them decides - bypassed, blocked, warned or audited alike:  *)
(* _record_violation logs it, *)
CheckGuard(c, matching) ==
    /\ guardCall[c] = AtGuard
    /\ \E first \in Listed(matching) :
        /\ \A other \in Listed(matching) : first <= other
        /\ GuardGoes(c, [op |-> "log", id |-> first, copy |-> guards[first]])
    /\ UNCHANGED << guards, violationLog, switchedOff, toggles >>

LogViolation(c) ==
    LET w == guardCall[c]
    IN  /\ w.op = "log" /\ violationLog[w.id] < MaxViolations
        /\ violationLog' = [violationLog EXCEPT ![w.id] = @ + 1]
        /\ GuardGoes(c, [op |-> "set", id |-> w.id, copy |-> [w.copy EXCEPT !.violations = @ + 1]])
        /\ UNCHANGED << guards, switchedOff, toggles >>

(* and HSET puts the copy over whatever the guard is by now. *)
SetGuard(c) ==
    LET w == guardCall[c]
    IN  /\ w.op = "set"
        /\ guards' = [guards EXCEPT ![w.id] = w.copy]
        /\ GuardGoes(c, AtGuard)
        /\ UNCHANGED << violationLog, switchedOff, toggles >>
-----------------------------------------------------------------------------
(* toggle_guard: get_guard, *)
ToggleGuard(c, i, on) ==
    /\ guardCall[c] = AtGuard /\ guards[i].there /\ toggles < MaxToggles
    /\ toggles' = toggles + 1
    /\ GuardGoes(c, [op |-> "toggle", id |-> i, copy |-> [guards[i] EXCEPT !.active = on]])
    /\ UNCHANGED << guards, violationLog, switchedOff >>

(* and HSET of the copy. *)
SetToggled(c) ==
    LET w == guardCall[c]
    IN  /\ w.op = "toggle"
        /\ guards' = [guards EXCEPT ![w.id] = w.copy]
        /\ switchedOff' = [switchedOff EXCEPT ![w.id] = ~w.copy.active]
        /\ GuardGoes(c, AtGuard)
        /\ UNCHANGED << violationLog, toggles >>

GuardsNext ==
    \E c \in GuardCalls :
        \/ \E i \in GuardIds : FindGuard(c, i)
        \/ \E matching \in SUBSET GuardIds : CheckGuard(c, matching)
        \/ LogViolation(c) \/ SetGuard(c)
        \/ \E i \in GuardIds, on \in BOOLEAN : ToggleGuard(c, i, on)
        \/ SetToggled(c)

GuardDocs == [there : BOOLEAN, active : BOOLEAN, violations : 0 .. MaxViolations]

GuardsTypeOK ==
    /\ guards \in [GuardIds -> GuardDocs]
    /\ violationLog \in [GuardIds -> 0 .. MaxViolations]
    /\ guardCall \in [GuardCalls -> [op : { "idle", "log", "set", "toggle" }, id : GuardIds,
                                     copy : GuardDocs]]
    /\ switchedOff \in [GuardIds -> BOOLEAN] /\ toggles \in 0 .. MaxToggles

(* Checks, toggles and initializations set each other's guards back, but    *)
(* only ever to on: a guard that is there and off is one whose last toggle  *)
(* said off, so that no check in flight undoes a toggle to on.              *)
GuardOffOnlyByHand ==
    \A i \in GuardIds : guards[i].there /\ ~guards[i].active => switchedOff[i]

GuardsSpec == GuardsInit /\ [][GuardsNext]_guardsVars
=============================================================================
