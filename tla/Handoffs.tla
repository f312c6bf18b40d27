------------------------------- MODULE Handoffs -------------------------------
(***************************************************************************)
(* Handoffs of one lead to managers (app/api/handoffs.py,                  *)
(* app/storage/repositories/handoff_repo.py).  A call checks the status on *)
(* a row it reads without a lock; its UPDATE locks the row until commit.   *)
(* complete also converts the lead, which it reads after that UPDATE and   *)
(* without a lock, in the same transaction.                                *)
(***************************************************************************)
EXTENDS Integers, FiniteSets

CONSTANTS
    HandoffIds,     \* handoffs that may be created for the lead
    ManagerCalls,   \* API calls that may overlap
    MaxReopens      \* bound: reassignments

ASSUME HandoffsAssumption ==
    IsFiniteSet(HandoffIds) /\ MaxReopens \in Nat /\ "free" \notin ManagerCalls

HandoffStatuses == { "none", "pending", "accepted", "rejected", "completed", "deleted" }

(* The status an operation wants and the one it writes; reassign wants any  *)
(* but completed, and opens the handoff again. *)
Operations == { "accept", "reject", "complete", "reassign", "archive" }
MayStart(op, s) ==
    CASE op \in { "accept", "reject" } -> s = "pending"
      [] op = "complete" -> s = "accepted"
      [] op = "reassign" -> s \in { "pending", "accepted", "rejected" }
Writes == [accept |-> "accepted", reject |-> "rejected", complete |-> "completed",
           reassign |-> "pending"]

AtDesk == [op |-> "idle", stage |-> "idle"]

VARIABLES
    handoffs,       \* the committed status of each handoff
    handedLead,     \* the committed status of the lead
    handoffLock,    \* the call whose UPDATE holds the row, or "free"
    managerCall,    \* the calls, with the handoff they are about
    conversions,    \* history: transitions of the lead to CONVERTED
    reopens         \* bound

handoffsVars == << handoffs, handedLead, handoffLock, managerCall, conversions, reopens >>

HandoffsInit ==
    /\ handoffs = [h \in HandoffIds |-> "none"]
    /\ handedLead = "HANDED_TO_MANAGER"
    /\ handoffLock = [h \in HandoffIds |-> "free"]
    /\ managerCall = [c \in ManagerCalls |-> [h \in HandoffIds |-> AtDesk]]
    /\ conversions = 0 /\ reopens = 0

Busy(c) == \E h \in HandoffIds : managerCall[c][h] # AtDesk
CallGoes(c, h, w) == managerCall' = [managerCall EXCEPT ![c][h] = w]

(* The end of a call's transaction: its row is free again. *)
Commits(c, h) ==
    /\ CallGoes(c, h, AtDesk)
    /\ handoffLock' = [handoffLock EXCEPT ![h] = "free"]
-----------------------------------------------------------------------------
CreateHandoff(h) ==
    /\ handoffs[h] = "none"
    /\ handoffs' = [handoffs EXCEPT ![h] = "pending"]
    /\ UNCHANGED << handedLead, handoffLock, managerCall, conversions, reopens >>

(* get_by_id without a lock, and the check of the status. *)
ReadHandoff(c, h, op) ==
    /\ ~Busy(c) /\ MayStart(op, handoffs[h])
    /\ op = "reassign" => reopens < MaxReopens
    /\ reopens' = IF op = "reassign" THEN reopens + 1 ELSE reopens
    /\ CallGoes(c, h, [AtDesk EXCEPT !.op = op, !.stage = "update"])
    /\ UNCHANGED << handoffs, handedLead, handoffLock, conversions >>

(* UPDATE ... WHERE id: waits for the row, whatever its status is by now;   *)
(* of a row that was deleted nothing is left to go on with. *)
UpdateHandoff(c, h) ==
    LET w == managerCall[c][h]
    IN  /\ w.stage = "update" /\ handoffLock[h] = "free"
        /\ IF handoffs[h] = "deleted"
           THEN CallGoes(c, h, AtDesk) /\ UNCHANGED handoffLock
           ELSE /\ handoffLock' = [handoffLock EXCEPT ![h] = c]
                /\ CallGoes(c, h, [w EXCEPT !.stage = IF w.op = "complete" THEN "lead" ELSE "commit"])
        /\ UNCHANGED << handoffs, handedLead, conversions, reopens >>

\* Mutant: the lead is set to CONVERTED whatever its status.
ReadHandedLead_Any(c, h) ==
    /\ managerCall[c][h].stage = "lead"
    /\ CallGoes(c, h, [managerCall[c][h] EXCEPT !.stage = "commit"])
    /\ UNCHANGED << handoffs, handedLead, handoffLock, conversions, reopens >>

(* mark_converted needs HANDED_TO_MANAGER; otherwise the exception rolls    *)
(* the handoff back too. *)
ReadHandedLead(c, h) ==
    /\ managerCall[c][h].stage = "lead"
    /\ IF handedLead = "HANDED_TO_MANAGER"
       THEN CallGoes(c, h, [managerCall[c][h] EXCEPT !.stage = "commit"]) /\ UNCHANGED handoffLock
       ELSE Commits(c, h)
    /\ UNCHANGED << handoffs, handedLead, conversions, reopens >>

(* One commit for the handoff and, when completed, for the lead's copy. *)
CommitHandoff(c, h) ==
    LET op == managerCall[c][h].op
    IN  /\ managerCall[c][h].stage = "commit" /\ op # "archive"
        /\ handoffs' = [handoffs EXCEPT ![h] = Writes[op]]
        /\ IF op = "complete"
           THEN handedLead' = "CONVERTED" /\ conversions' = conversions + 1
           ELSE UNCHANGED << handedLead, conversions >>
        /\ Commits(c, h)
        /\ UNCHANGED reopens

DeleteHandoff(h) ==
    /\ handoffs[h] \notin { "none", "deleted" } /\ handoffLock[h] = "free"
    /\ handoffs' = [handoffs EXCEPT ![h] = "deleted"]
    /\ UNCHANGED << handedLead, handoffLock, managerCall, conversions, reopens >>
-----------------------------------------------------------------------------
(* Elsewhere the lead is archived, also from a copy read without a lock. *)
ReadToArchive(c, h) ==
    /\ ~Busy(c) /\ handedLead = "HANDED_TO_MANAGER"
    /\ CallGoes(c, h, [AtDesk EXCEPT !.op = "archive", !.stage = "commit"])
    /\ UNCHANGED << handoffs, handedLead, handoffLock, conversions, reopens >>

ArchiveHanded(c, h) ==
    /\ managerCall[c][h].stage = "commit" /\ managerCall[c][h].op = "archive"
    /\ handedLead' = "ARCHIVED"
    /\ CallGoes(c, h, AtDesk)
    /\ UNCHANGED << handoffs, handoffLock, conversions, reopens >>

HandoffsNext ==
    \/ \E h \in HandoffIds : CreateHandoff(h) \/ DeleteHandoff(h)
    \/ \E c \in ManagerCalls, h \in HandoffIds :
        \/ \E op \in Operations \ { "archive" } : ReadHandoff(c, h, op)
        \/ UpdateHandoff(c, h) \/ ReadHandedLead(c, h) \/ CommitHandoff(c, h)
        \/ ReadToArchive(c, h) \/ ArchiveHanded(c, h)

HandoffsTypeOK ==
    /\ handoffs \in [HandoffIds -> HandoffStatuses]
    /\ handedLead \in { "HANDED_TO_MANAGER", "CONVERTED", "ARCHIVED" }
    /\ handoffLock \in [HandoffIds -> ManagerCalls \cup { "free" }]
    /\ \A c \in ManagerCalls, h \in HandoffIds :
            /\ managerCall[c][h].op \in Operations \cup { "idle" }
            /\ managerCall[c][h].stage \in { "idle", "update", "lead", "commit" }

(* Each completed handoff comes with a conversion of the lead, and however  *)
(* often handoffs are opened again by calls that read them earlier, the lead *)
(* is converted at most once per handoff: complete reads the lead only while *)
(* it holds the row of the handoff. *)
CompletionsConvert ==
    /\ Cardinality({ h \in HandoffIds : handoffs[h] = "completed" }) <= conversions
    /\ conversions <= Cardinality(HandoffIds)

HandoffsSpec == HandoffsInit /\ [][HandoffsNext]_handoffsVars
=============================================================================
