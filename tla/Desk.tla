--------------------------------- MODULE Desk ---------------------------------
(***************************************************************************)
(* The managers' desk: a handoff in Redis (app/services/manager_actions.py) *)
(* with the queue of pending handoffs and the managers' sets, and the deal *)
(* it becomes (app/services/revenue_loop.py).  Actions and stages are read, *)
(* change and set of a whole JSON value; the indices are updated after it. *)
(***************************************************************************)
EXTENDS Integers, Sequences, FiniteSets

CONSTANTS
    Managers,
    DeskCalls,      \* API calls that may overlap
    MaxActions,     \* bound: actions on the handoff
    MaxStages,      \* bound: length of a deal's stage_history
    MaxDeskLosses   \* bound: calls that end before their end

ASSUME DeskAssumption ==
    MaxActions \in Nat /\ MaxStages \in Nat \ {0} /\ MaxDeskLosses \in Nat

(* The status each action leaves; reassign keeps it.  No action asks for    *)
(* the status the handoff has. *)
StatusAfter == [accept |-> "accepted", reject |-> "rejected", follow_up |-> "follow_up_scheduled",
                schedule_meeting |-> "meeting_scheduled", mark_qualified |-> "qualified",
                mark_unqualified |-> "rejected", request_info |-> "in_progress",
                close |-> "closed", reassign |-> "same"]
Resolved == { "qualified", "rejected", "closed" }

(* STAGE_TRANSITIONS *)
StageTransitions ==
    [handed_off |-> { "meeting_scheduled", "closed_lost", "stalled" },
     meeting_scheduled |-> { "meeting_completed", "closed_lost", "stalled" },
     meeting_completed |-> { "proposal_sent", "closed_lost", "stalled" },
     proposal_sent |-> { "negotiation", "closed_won", "closed_lost", "stalled" },
     negotiation |-> { "contract_sent", "closed_won", "closed_lost", "stalled" },
     contract_sent |-> { "closed_won", "closed_lost", "negotiation" },
     closed_won |-> {}, closed_lost |-> {},
     stalled |-> { "meeting_scheduled", "closed_lost" }]
DealStages == DOMAIN StageTransitions

NoDeal == << >>
StageOf(deal) == deal[Len(deal)]
Unasked == [op |-> "idle", step |-> "idle", status |-> "pending", owner |-> "nobody", deal |-> NoDeal]

VARIABLES
    ticket,         \* handoff:{id}: status and assigned_to
    queue,          \* it is in handoffs:pending
    deskOf,         \* managers in whose pending set it is
    deal,           \* stage_history of the first deal made of it
    recorded,       \* closings counted in the revenue metrics
    deskCall,       \* the calls in flight
    actions,        \* bound
    losses          \* calls lost, history: one had saved a resolved handoff

deskVars == << ticket, queue, deskOf, deal, recorded, deskCall, actions, losses >>

DeskInit ==
    /\ \E m \in Managers \cup { "nobody" } :                \* create_handoff, assigned or not
        /\ ticket = [status |-> "pending", owner |-> m]
        /\ deskOf = { m } \ { "nobody" }
    /\ queue = TRUE /\ deal = NoDeal
    /\ recorded = [won |-> 0, lost |-> 0]
    /\ deskCall = [c \in DeskCalls |-> Unasked] /\ actions = 0
    /\ losses = [calls |-> 0, torn |-> FALSE]

DeskGoes(c, w) == deskCall' = [deskCall EXCEPT ![c] = w]
Copy(op, status, owner) ==
    [op |-> op, step |-> "save", status |-> status, owner |-> owner, deal |-> NoDeal]
DealCopy(op, stages) ==
    [op |-> op, step |-> "set", status |-> "pending", owner |-> "nobody", deal |-> stages]
-----------------------------------------------------------------------------
\* Mutant: reassign has a status like the other actions.
TakeAction_SameStatus(c, op, m) ==
    /\ deskCall[c] = Unasked /\ actions < MaxActions
    /\ actions' = actions + 1
    /\ DeskGoes(c, Copy(op, StatusAfter[op],
                         IF op \in { "accept", "reassign" } THEN m ELSE ticket.owner))
    /\ deskOf' = IF op = "reassign" THEN (deskOf \ { ticket.owner }) \cup { m } ELSE deskOf
    /\ UNCHANGED << ticket, queue, deal, recorded, losses >>

(* take_action reads the handoff and changes its copy; reassign moves it    *)
(* from one manager's set to the other's already now, accept does not.      *)
TakeAction(c, op, m) ==
    /\ deskCall[c] = Unasked /\ actions < MaxActions
    /\ actions' = actions + 1
    /\ DeskGoes(c, Copy(op, IF op = "reassign" THEN ticket.status ELSE StatusAfter[op],
                         IF op \in { "accept", "reassign" } THEN m ELSE ticket.owner))
    /\ deskOf' = IF op = "reassign" THEN (deskOf \ { ticket.owner }) \cup { m } ELSE deskOf
    /\ UNCHANGED << ticket, queue, deal, recorded, losses >>

(* mark_qualified with a value makes a deal first. *)
CreateDeal(c) ==
    /\ deskCall[c].op = "mark_qualified" /\ deskCall[c].step = "save" /\ deal = NoDeal
    /\ deal' = << "handed_off" >>
    /\ UNCHANGED << ticket, queue, deskOf, recorded, deskCall, actions, losses >>

SaveHandoff(c) ==
    /\ deskCall[c].step = "save"
    /\ ticket' = [status |-> deskCall[c].status, owner |-> deskCall[c].owner]
    /\ DeskGoes(c, [deskCall[c] EXCEPT !.step = "indices"])
    /\ UNCHANGED << queue, deskOf, deal, recorded, actions, losses >>

\* Mutant: unqualified handoffs stay in the queue.
UpdateIndices_KeepsRejected(c) ==
    LET over == deskCall[c].status \in Resolved \ { "rejected" }
    IN  /\ deskCall[c].step = "indices"
        /\ queue' = (queue /\ ~over)
        /\ deskOf' = IF over THEN deskOf \ { deskCall[c].owner } ELSE deskOf
        /\ DeskGoes(c, Unasked)
        /\ UNCHANGED << ticket, deal, recorded, actions, losses >>

(* _update_indices goes by the copy: a resolved handoff leaves the queue    *)
(* and the set of its last owner. *)
UpdateIndices(c) ==
    LET over == deskCall[c].status \in Resolved
    IN  /\ deskCall[c].step = "indices"
        /\ queue' = (queue /\ ~over)
        /\ deskOf' = IF over THEN deskOf \ { deskCall[c].owner } ELSE deskOf
        /\ DeskGoes(c, Unasked)
        /\ UNCHANGED << ticket, deal, recorded, actions, losses >>

(* The process is lost or Redis raises: what was set stays, what was not is *)
(* never set. *)
LoseDeskCall(c) ==
    LET w == deskCall[c]
    IN  /\ w # Unasked /\ losses.calls < MaxDeskLosses
        /\ losses' = [calls |-> losses.calls + 1,
                      torn |-> losses.torn \/ (w.step = "indices" /\ w.status \in Resolved)]
        /\ DeskGoes(c, Unasked)
        /\ UNCHANGED << ticket, queue, deskOf, deal, recorded, actions >>
-----------------------------------------------------------------------------
\* Mutant: any stage may follow.
ReadDeal_AnyStage(c, to) ==
    /\ deskCall[c] = Unasked /\ deal # NoDeal /\ Len(deal) < MaxStages
    /\ DeskGoes(c, DealCopy(to, Append(deal, to)))
    /\ UNCHANGED << ticket, queue, deskOf, deal, recorded, actions, losses >>

(* advance_stage, close_won and close_lost: a stage that may follow.        *)
ReadDeal(c, to) ==
    /\ deskCall[c] = Unasked /\ deal # NoDeal /\ Len(deal) < MaxStages
    /\ to \in StageTransitions[StageOf(deal)]
    /\ DeskGoes(c, DealCopy(to, Append(deal, to)))
    /\ UNCHANGED << ticket, queue, deskOf, deal, recorded, actions, losses >>

(* The closing calls set the same copy again, with revenue or reason.       *)
SetDeal(c, again) ==
    LET w == deskCall[c]
    IN  /\ w.step = "set"
        /\ again => w.op \in { "closed_won", "closed_lost" }
        /\ deal' = w.deal
        /\ DeskGoes(c, IF again THEN [w EXCEPT !.step = "set_again"] ELSE Unasked)
        /\ UNCHANGED << ticket, queue, deskOf, recorded, actions, losses >>

SetDealAgain(c) ==
    LET w == deskCall[c]
    IN  /\ w.step = "set_again"
        /\ deal' = w.deal
        /\ DeskGoes(c, [w EXCEPT !.step = "record"])
        /\ UNCHANGED << ticket, queue, deskOf, recorded, actions, losses >>

RecordClosing(c) ==
    /\ deskCall[c].step = "record"
    /\ recorded' = [recorded EXCEPT ![IF deskCall[c].op = "closed_won" THEN "won" ELSE "lost"] = @ + 1]
    /\ DeskGoes(c, Unasked)
    /\ UNCHANGED << ticket, queue, deskOf, deal, actions, losses >>

DeskNext ==
    \E c \in DeskCalls :
        \/ \E op \in DOMAIN StatusAfter, m \in Managers : TakeAction(c, op, m)
        \/ CreateDeal(c) \/ SaveHandoff(c) \/ UpdateIndices(c)
        \/ \E to \in DealStages : ReadDeal(c, to)
        \/ \E again \in BOOLEAN : SetDeal(c, again)
        \/ SetDealAgain(c) \/ RecordClosing(c) \/ LoseDeskCall(c)

DeskTypeOK ==
    /\ ticket.owner \in Managers \cup { "nobody" }
    /\ ticket.status \in { "pending" } \cup { StatusAfter[op] : op \in DOMAIN StatusAfter \ { "reassign" } }
    /\ queue \in BOOLEAN /\ deskOf \subseteq Managers
    /\ deal \in Seq(DealStages) /\ Len(deal) <= MaxStages
    /\ recorded \in [{ "won", "lost" } -> Nat] /\ actions \in 0 .. MaxActions
    /\ losses \in [calls : 0 .. MaxDeskLosses, torn : BOOLEAN]
    /\ \A c \in DeskCalls : deskCall[c].deal \in Seq(DealStages)

(* When nobody is at work on it, a handoff that is resolved is not in the    *)
(* queue of pending ones: whichever of several calls saved it last also      *)
(* updates the queue afterwards.  Only a call lost between the two leaves it *)
(* there.  (An open one may be missing there.)                               *)
ResolvedLeavesQueue ==
    (\A c \in DeskCalls : deskCall[c] = Unasked) /\ queue /\ ticket.status \in Resolved => losses.torn

(* However calls overwrite each other's deal - a closing sets its copy twice *)
(* - its history is one it may have had: valid stages only, none of them     *)
(* after a closing. *)
DealIsPossible ==
    \A i \in 2 .. Len(deal) : deal[i] \in StageTransitions[deal[i - 1]]

DeskSpec == DeskInit /\ [][DeskNext]_deskVars
=============================================================================
