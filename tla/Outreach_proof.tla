---------------------------- MODULE Outreach_proof ----------------------------
(***************************************************************************)
(* Proofs about the services around the outreach: the managers' desk, the  *)
(* handoffs, the bulk requests, and the composition of them and the life   *)
(* of a lead, outbound control and recovery (whose own proofs are in       *)
(* LeadLifecycle_proof, Outbound_proof and Recovery_proof).                *)
(***************************************************************************)
EXTENDS MC_Outreach, LeadLifecycle_proof, Outbound_proof, Recovery_proof, WellFoundedInduction

(* The desk, for any number of overlapping calls.  What is said of the deal *)
(* holds of every copy of it in flight; what is said of the queue holds     *)
(* because the call that saved a resolved handoff last has yet to update    *)
(* the indices, or was lost before it could.                                *)

DeskStatuses == { "pending", "accepted", "rejected", "follow_up_scheduled", "meeting_scheduled",
                  "qualified", "in_progress", "closed" }
DeskSteps == { "idle", "save", "indices", "set", "set_again", "record" }
DeskOps == { "idle" } \cup DOMAIN StatusAfter \cup DealStages
DeskDocs == [op : DeskOps, step : DeskSteps, status : DeskStatuses, owner : Managers \cup { "nobody" },
             deal : Seq(DealStages)]

DealOK(d) ==
    /\ d \in Seq(DealStages) /\ Len(d) <= MaxStages
    /\ \A i \in 2 .. Len(d) : d[i] \in StageTransitions[d[i - 1]]

DeskInv ==
    /\ ticket \in [status : DeskStatuses, owner : Managers \cup { "nobody" }]
    /\ queue \in BOOLEAN /\ deskOf \subseteq Managers
    /\ recorded \in [{ "won", "lost" } -> Nat] /\ actions \in 0 .. MaxActions
    /\ DealOK(deal)
    /\ deskCall \in [DeskCalls -> DeskDocs]
    /\ losses \in [calls : 0 .. MaxDeskLosses, torn : BOOLEAN]
    /\ \A c \in DeskCalls : DealOK(deskCall[c].deal)
    /\ queue /\ ticket.status \in Resolved =>
            \/ losses.torn
            \/ \E c \in DeskCalls : deskCall[c].step = "indices" /\ deskCall[c].status \in Resolved

-----------------------------------------------------------------------------
\* The actions of the desk, and the statuses they lead to.
LEMMA ActionStatuses ==
  /\ DOMAIN StatusAfter = { "accept", "reject", "follow_up", "schedule_meeting", "mark_qualified",
                            "mark_unqualified", "request_info", "close", "reassign" }
  /\ \A op \in DOMAIN StatusAfter \ { "reassign" } : StatusAfter[op] \in DeskStatuses
  /\ DeskStatuses = { "pending" } \cup { StatusAfter[op] : op \in DOMAIN StatusAfter \ { "reassign" } }
  BY DEF StatusAfter, DeskStatuses

\* A deal that goes one valid stage on is as possible as it was.
LEMMA DealGoesOn ==
  ASSUME NEW d, DealOK(d), d # NoDeal, Len(d) < MaxStages, NEW to \in DealStages,
         to \in StageTransitions[StageOf(d)]
  PROVE  DealOK(Append(d, to))
  <1> DEFINE n == Len(d)
             new == Append(d, to)
  <1>1. /\ d \in Seq(DealStages) /\ n \in Nat /\ n > 0 /\ n < MaxStages /\ MaxStages \in Nat
        /\ \A i \in 2 .. n : d[i] \in StageTransitions[d[i - 1]]
        /\ to \in StageTransitions[d[n]]
    BY DeskAssumption DEF DealOK, NoDeal, StageOf
  <1>2. /\ new \in Seq(DealStages) /\ Len(new) = n + 1 /\ new[n + 1] = to
        /\ \A i \in 1 .. n : new[i] = d[i]
    BY <1>1
  <1>3. ASSUME NEW i \in 2 .. n + 1 PROVE new[i] \in StageTransitions[new[i - 1]]
    <2>1. CASE i = n + 1
      BY <1>1, <1>2, <2>1
    <2>2. CASE i # n + 1
      <3>1. i \in 2 .. n /\ i - 1 \in 1 .. n /\ i \in 1 .. n
        BY <1>1, <2>2
      <3> QED BY <1>1, <1>2, <3>1
    <2> QED BY <2>1, <2>2
  <1> HIDE DEF n, new
  <1>4. DealOK(new)
    BY <1>1, <1>2, <1>3 DEF DealOK
  <1> QED BY <1>4 DEF new

\* A deal that is not there is in order, and so is a new one.
LEMMA NoDealOK == DealOK(NoDeal) /\ DealOK(<< "handed_off" >>)
  <1>1. "handed_off" \in DealStages /\ MaxStages \in Nat \ {0}
    BY DeskAssumption DEF DealStages, StageTransitions
  <1> QED BY <1>1 DEF DealOK, NoDeal

\* One call goes on with another value, whose deal is possible.
LEMMA DeskCallKept ==
  ASSUME DeskInv, NEW c \in DeskCalls, NEW w \in DeskDocs, DeskGoes(c, w), DealOK(w.deal)
  PROVE  /\ deskCall' \in [DeskCalls -> DeskDocs]
         /\ \A b \in DeskCalls : DealOK(deskCall'[b].deal)
         /\ deskCall'[c] = w /\ \A b \in DeskCalls \ { c } : deskCall'[b] = deskCall[b]
  BY DEF DeskInv, DeskGoes

\* A step of a call that was not at the indices, and leaves ticket and queue.
LEMMA DeskStepKept ==
  ASSUME DeskInv, NEW c \in DeskCalls, NEW w \in DeskDocs, DeskGoes(c, w), DealOK(w.deal),
         deskCall[c].step # "indices", UNCHANGED << ticket, queue, losses >>,
         deskOf' \subseteq Managers, DealOK(deal'),
         recorded' \in [{ "won", "lost" } -> Nat], actions' \in 0 .. MaxActions
  PROVE  DeskInv'
  <1>1. /\ deskCall' \in [DeskCalls -> DeskDocs] /\ \A b \in DeskCalls : DealOK(deskCall'[b].deal)
        /\ \A b \in DeskCalls \ { c } : deskCall'[b] = deskCall[b]
    BY DeskCallKept
  <1>2. queue /\ ticket.status \in Resolved =>
            \/ losses.torn
            \/ \E b \in DeskCalls : deskCall'[b].step = "indices" /\ deskCall'[b].status \in Resolved
    BY <1>1 DEF DeskInv
  <1> QED BY <1>1, <1>2 DEF DeskInv

\* A request nobody has asked for.
LEMMA UnaskedDoc == Unasked \in DeskDocs /\ DealOK(Unasked.deal) /\ Unasked.step = "idle"
  <1>1. Unasked.deal = NoDeal /\ Unasked.step = "idle"
    BY DEF Unasked
  <1>2. NoDeal \in Seq(DealStages)
    BY DEF NoDeal
  <1>3. Unasked \in DeskDocs
    BY <1>2 DEF Unasked, DeskDocs, DeskOps, DeskSteps, DeskStatuses
  <1> QED BY <1>1, <1>3, NoDealOK

\* The invariant of the desk holds at the start.
LEMMA DeskInvInit == DeskInit => DeskInv
  <1> SUFFICES ASSUME DeskInit PROVE DeskInv
    OBVIOUS
  <1>1. PICK m \in Managers \cup { "nobody" } :
            ticket = [status |-> "pending", owner |-> m] /\ deskOf = { m } \ { "nobody" }
    BY DEF DeskInit
  <1>2. deskCall \in [DeskCalls -> DeskDocs] /\ \A c \in DeskCalls : DealOK(deskCall[c].deal)
    BY UnaskedDoc DEF DeskInit
  <1>3. ticket.status = "pending" /\ ticket \in [status : DeskStatuses, owner : Managers \cup { "nobody" }]
    BY <1>1 DEF DeskStatuses
  <1>4. deskOf \subseteq Managers
    BY <1>1
  <1> QED BY <1>2, <1>3, <1>4, NoDealOK, DeskAssumption DEF DeskInit, DeskInv, Resolved

\* Inductive step of the invariant: one step for each action.
LEMMA DeskInvInductive == DeskInv /\ [DeskNext]_deskVars => DeskInv'
  <1> SUFFICES ASSUME DeskInv, [DeskNext]_deskVars PROVE DeskInv'
    OBVIOUS
  <1>0. /\ deskCall \in [DeskCalls -> DeskDocs] /\ \A c \in DeskCalls : DealOK(deskCall[c].deal)
        /\ \A c \in DeskCalls : deskCall[c] \in DeskDocs
        /\ DealOK(deal) /\ deskOf \subseteq Managers
        /\ recorded \in [{ "won", "lost" } -> Nat] /\ actions \in 0 .. MaxActions
        /\ ticket \in [status : DeskStatuses, owner : Managers \cup { "nobody" }]
    BY DEF DeskInv
  <1>1. ASSUME NEW c \in DeskCalls, NEW op \in DOMAIN StatusAfter, NEW m \in Managers, TakeAction(c, op, m)
        PROVE  DeskInv'
    <2> DEFINE after == IF op = "reassign" THEN ticket.status ELSE StatusAfter[op]
               owner == IF op \in { "accept", "reassign" } THEN m ELSE ticket.owner
               w == Copy(op, after, owner)
    <2>1. /\ DeskGoes(c, w) /\ deskCall[c] = Unasked /\ UNCHANGED << ticket, queue, deal, recorded, losses >>
          /\ deskOf' = IF op = "reassign" THEN (deskOf \ { ticket.owner }) \cup { m } ELSE deskOf
          /\ actions < MaxActions /\ actions' = actions + 1
      BY <1>1 DEF TakeAction
    <2>2. after \in DeskStatuses /\ owner \in Managers \cup { "nobody" }
      BY <1>0, ActionStatuses
    <2> HIDE DEF after, owner
    <2>3. w \in DeskDocs /\ w.deal = NoDeal
      <3>1. op \in DeskOps /\ "save" \in DeskSteps /\ NoDeal \in Seq(DealStages)
        BY DEF DeskOps, DeskSteps, NoDeal
      <3> QED BY <2>2, <3>1 DEF Copy, DeskDocs
    <2> HIDE DEF w
    <2>4. actions' \in 0 .. MaxActions
      BY <1>0, <2>1, DeskAssumption
    <2>5. deskOf' \subseteq Managers
      BY <1>0, <2>1
    <2> QED BY <1>0, <2>1, <2>3, <2>4, <2>5, NoDealOK, UnaskedDoc, DeskStepKept
  <1>2. ASSUME NEW c \in DeskCalls, CreateDeal(c) PROVE DeskInv'
    BY <1>2, NoDealOK DEF CreateDeal, DeskInv
  <1>3. ASSUME NEW c \in DeskCalls, SaveHandoff(c) PROVE DeskInv'
    <2> DEFINE old == deskCall[c]
               w == [old EXCEPT !.step = "indices"]
    <2>1. /\ ticket' = [status |-> old.status, owner |-> old.owner] /\ DeskGoes(c, w)
          /\ UNCHANGED << queue, deskOf, deal, recorded, actions, losses >>
      BY <1>3 DEF SaveHandoff
    <2>2. w \in DeskDocs /\ w.step = "indices" /\ w.status = old.status /\ w.deal = old.deal
      BY <1>0 DEF DeskDocs, DeskSteps
    <2> HIDE DEF w
    <2>3. /\ deskCall' \in [DeskCalls -> DeskDocs] /\ \A b \in DeskCalls : DealOK(deskCall'[b].deal)
          /\ deskCall'[c] = w
      BY <1>0, <2>1, <2>2, DeskCallKept
    <2>4. ticket' \in [status : DeskStatuses, owner : Managers \cup { "nobody" }] /\ ticket'.status = old.status
      BY <1>0, <2>1 DEF DeskDocs
    <2>5. ticket'.status \in Resolved =>
            \E b \in DeskCalls : deskCall'[b].step = "indices" /\ deskCall'[b].status \in Resolved
      BY <2>2, <2>3, <2>4
    <2> QED BY <2>1, <2>3, <2>4, <2>5 DEF DeskInv
  <1>4. ASSUME NEW c \in DeskCalls, UpdateIndices(c) PROVE DeskInv'
    <2>1. /\ deskCall[c].step = "indices" /\ queue' = (queue /\ deskCall[c].status \notin Resolved)
          /\ deskOf' \subseteq deskOf /\ DeskGoes(c, Unasked) /\ UNCHANGED << ticket, deal, recorded, actions, losses >>
      BY <1>4 DEF UpdateIndices
    <2>2. /\ deskCall' \in [DeskCalls -> DeskDocs] /\ \A b \in DeskCalls : DealOK(deskCall'[b].deal)
          /\ \A b \in DeskCalls \ { c } : deskCall'[b] = deskCall[b]
      BY <2>1, DeskCallKept, UnaskedDoc
    <2>3. queue' /\ ticket.status \in Resolved =>
            \/ losses.torn
            \/ \E b \in DeskCalls : deskCall'[b].step = "indices" /\ deskCall'[b].status \in Resolved
      BY <2>1, <2>2 DEF DeskInv
    <2> QED BY <2>1, <2>2, <2>3 DEF DeskInv
  <1>5. ASSUME NEW c \in DeskCalls, NEW to \in DealStages, ReadDeal(c, to) PROVE DeskInv'
    <2> DEFINE new == Append(deal, to)
               w == DealCopy(to, new)
    <2>1. /\ deskCall[c] = Unasked /\ deal # NoDeal /\ Len(deal) < MaxStages
          /\ to \in StageTransitions[StageOf(deal)] /\ DeskGoes(c, w)
          /\ UNCHANGED << ticket, queue, deskOf, deal, recorded, actions, losses >>
      BY <1>5 DEF ReadDeal
    <2>2. DealOK(new)
      BY <1>0, <2>1, DealGoesOn
    <2> HIDE DEF new
    <2>3. w \in DeskDocs /\ w.deal = new
      <3>1. to \in DeskOps /\ "set" \in DeskSteps /\ "pending" \in DeskStatuses /\ new \in Seq(DealStages)
        BY <2>2 DEF DeskOps, DeskSteps, DeskStatuses, DealOK
      <3> QED BY <3>1 DEF DealCopy, DeskDocs
    <2> HIDE DEF w
    <2> QED BY <1>0, <2>1, <2>2, <2>3, UnaskedDoc, DeskStepKept
  <1>6. ASSUME NEW c \in DeskCalls, NEW again \in BOOLEAN, SetDeal(c, again) PROVE DeskInv'
    <2> DEFINE w == [deskCall[c] EXCEPT !.step = "set_again"]
    <2>1. /\ deskCall[c].step = "set" /\ deal' = deskCall[c].deal /\ (DeskGoes(c, w) \/ DeskGoes(c, Unasked))
          /\ UNCHANGED << ticket, queue, deskOf, recorded, actions, losses >>
      BY <1>6 DEF SetDeal
    <2>2. w \in DeskDocs /\ w.deal = deskCall[c].deal
      BY <1>0 DEF DeskDocs, DeskSteps
    <2> HIDE DEF w
    <2> QED BY <1>0, <1>6, <2>1, <2>2, UnaskedDoc, DeskStepKept DEF SetDeal
  <1>7. ASSUME NEW c \in DeskCalls, SetDealAgain(c) PROVE DeskInv'
    <2> DEFINE w == [deskCall[c] EXCEPT !.step = "record"]
    <2>1. /\ deskCall[c].step = "set_again" /\ deal' = deskCall[c].deal /\ DeskGoes(c, w)
          /\ UNCHANGED << ticket, queue, deskOf, recorded, actions, losses >>
      BY <1>7 DEF SetDealAgain
    <2>2. w \in DeskDocs /\ w.deal = deskCall[c].deal
      BY <1>0 DEF DeskDocs, DeskSteps
    <2> HIDE DEF w
    <2> QED BY <1>0, <2>1, <2>2, DeskStepKept
  <1>8. ASSUME NEW c \in DeskCalls, RecordClosing(c) PROVE DeskInv'
    <2>1. /\ deskCall[c].step = "record" /\ DeskGoes(c, Unasked)
          /\ UNCHANGED << ticket, queue, deskOf, deal, actions, losses >>
          /\ recorded' \in [{ "won", "lost" } -> Nat]
      BY <1>0, <1>8 DEF RecordClosing
    <2> QED BY <1>0, <2>1, UnaskedDoc, DeskStepKept
  <1>9. ASSUME NEW c \in DeskCalls, LoseDeskCall(c) PROVE DeskInv'
    <2> DEFINE tears == deskCall[c].step = "indices" /\ deskCall[c].status \in Resolved
    <2>1. /\ losses' = [calls |-> losses.calls + 1, torn |-> losses.torn \/ tears]
          /\ losses.calls < MaxDeskLosses /\ DeskGoes(c, Unasked)
          /\ UNCHANGED << ticket, queue, deskOf, deal, recorded, actions >>
      BY <1>9 DEF LoseDeskCall
    <2>2. /\ deskCall' \in [DeskCalls -> DeskDocs] /\ \A b \in DeskCalls : DealOK(deskCall'[b].deal)
          /\ \A b \in DeskCalls \ { c } : deskCall'[b] = deskCall[b]
      BY <2>1, DeskCallKept, UnaskedDoc
    <2>3. queue /\ ticket.status \in Resolved =>
            \/ losses.torn \/ tears
            \/ \E b \in DeskCalls : deskCall'[b].step = "indices" /\ deskCall'[b].status \in Resolved
      BY <2>2 DEF DeskInv
    <2> HIDE DEF tears
    <2>4. losses' \in [calls : 0 .. MaxDeskLosses, torn : BOOLEAN]
      <3>1. (losses.torn \/ tears) \in BOOLEAN
        OBVIOUS
      <3>2. losses.calls \in 0 .. MaxDeskLosses /\ losses.calls + 1 \in 0 .. MaxDeskLosses
        BY <2>1, DeskAssumption DEF DeskInv
      <3> QED BY <2>1, <3>1, <3>2
    <2>5. losses'.torn = (losses.torn \/ tears)
      BY <2>1
    <2> QED BY <1>0, <2>1, <2>2, <2>3, <2>4, <2>5 DEF DeskInv
  <1>10. CASE UNCHANGED deskVars
    BY <1>10 DEF deskVars, DeskInv
  <1> QED BY <1>1, <1>2, <1>3, <1>4, <1>5, <1>6, <1>7, <1>8, <1>9, <1>10 DEF DeskNext

-----------------------------------------------------------------------------
\* The handoff, the deal and its copies have their types; no history is longer
\* than the bound.
THEOREM DeskTypeCorrect == DeskSpec => []DeskTypeOK
  <1>1. DeskInv => DeskTypeOK
    BY ActionStatuses DEF DeskInv, DeskTypeOK, DealOK
  <1> QED BY <1>1, DeskInvInit, DeskInvInductive, PTL DEF DeskSpec

(* advance_stage, close_won and close_lost set copies of the deal over each *)
(* other, yet its stage_history is always a path of STAGE_TRANSITIONS.  *)
THEOREM DealsArePossible == DeskSpec => []DealIsPossible
  <1>1. DeskInv => DealIsPossible
    BY DEF DeskInv, DealIsPossible, DealOK
  <1> QED BY <1>1, DeskInvInit, DeskInvInductive, PTL DEF DeskSpec

(* take_action: once no call is at work, a resolved handoff has left        *)
(* handoffs:pending, whatever order the calls saved and indexed it in.  *)
THEOREM ResolvedLeave == DeskSpec => []ResolvedLeavesQueue
  <1>1. DeskInv => ResolvedLeavesQueue
    BY UnaskedDoc DEF DeskInv, ResolvedLeavesQueue
  <1> QED BY <1>1, DeskInvInit, DeskInvInductive, PTL DEF DeskSpec

-----------------------------------------------------------------------------
(* Handoffs, for any number of handoffs and overlapping calls: completions  *)
(* and conversions agree.  The argument is about the handoffs whose         *)
(* completion has read the lead and is about to commit.                     *)

CallDocs == [op : Operations \cup { "idle" }, stage : { "idle", "update", "lead", "commit" }]

Completed == { h \in HandoffIds : handoffs[h] = "completed" }
Converting == { h \in HandoffIds : \E c \in ManagerCalls :
                    managerCall[c][h].op = "complete" /\ managerCall[c][h].stage = "commit" }

HandoffsTyped ==
    /\ handoffs \in [HandoffIds -> HandoffStatuses]
    /\ handedLead \in { "HANDED_TO_MANAGER", "CONVERTED", "ARCHIVED" }
    /\ handoffLock \in [HandoffIds -> ManagerCalls \cup { "free" }]
    /\ managerCall \in [ManagerCalls -> [HandoffIds -> CallDocs]]
    /\ conversions \in Nat

\* After its UPDATE a call holds the row until it commits.
HoldsRow ==
    \A c \in ManagerCalls, h \in HandoffIds :
        /\ managerCall[c][h].op = "idle" => managerCall[c][h].stage = "idle"
        /\ managerCall[c][h].op = "archive" => managerCall[c][h].stage = "commit"
        /\ managerCall[c][h].stage \in { "lead", "commit" } /\ managerCall[c][h].op # "archive"
                => handoffLock[h] = c

ConversionsInv ==
    /\ handedLead = "HANDED_TO_MANAGER" => conversions = 0
    /\ conversions + Cardinality(Converting) <= Cardinality(HandoffIds)
    /\ Cardinality(Completed) <= conversions

HandoffsInv == HandoffsTyped /\ HoldsRow /\ ConversionsInv

-----------------------------------------------------------------------------
\* There are finitely many handoffs, and no more in any part of them.
LEMMA HandoffsAreFinite ==
  /\ IsFiniteSet(HandoffIds) /\ Cardinality(HandoffIds) \in Nat
  /\ \A S : S \subseteq HandoffIds =>
        IsFiniteSet(S) /\ Cardinality(S) \in Nat /\ Cardinality(S) <= Cardinality(HandoffIds)
  BY HandoffsAssumption, FS_CardinalityType, FS_Subset

\* A part of a set of handoffs is no larger than the set.
LEMMA SmallerSets ==
  ASSUME NEW S, NEW T, T \subseteq HandoffIds, S \subseteq T
  PROVE  Cardinality(S) <= Cardinality(T) /\ Cardinality(S) \in Nat /\ Cardinality(T) \in Nat
  BY HandoffsAreFinite, FS_Subset

\* What is completed or converting are handoffs, before a step and after it.
LEMMA SetsOfHandoffs == Completed \subseteq HandoffIds /\ Converting \subseteq HandoffIds
                        /\ Completed' \subseteq HandoffIds /\ Converting' \subseteq HandoffIds
  BY DEF Completed, Converting

\* One call about one handoff goes on; the others stay.
LEMMA ManagerCallKept ==
  ASSUME HandoffsTyped, NEW c \in ManagerCalls, NEW h \in HandoffIds, NEW w \in CallDocs, CallGoes(c, h, w)
  PROVE  /\ managerCall' \in [ManagerCalls -> [HandoffIds -> CallDocs]]
         /\ managerCall'[c][h] = w
         /\ \A b \in ManagerCalls, g \in HandoffIds :
                b # c \/ g # h => managerCall'[b][g] = managerCall[b][g]
  BY DEF HandoffsTyped, CallGoes

\* Fewer completions under way and no more completed than before: the numbers still agree.
LEMMA NumbersKept ==
  ASSUME HandoffsTyped, ConversionsInv, UNCHANGED << handedLead, conversions >>,
         Converting' \subseteq Converting, Completed' \subseteq Completed
  PROVE  ConversionsInv'
  <1>1. /\ Cardinality(Converting') <= Cardinality(Converting) /\ Cardinality(Completed') <= Cardinality(Completed)
        /\ Cardinality(Converting') \in Nat /\ Cardinality(Converting) \in Nat
        /\ Cardinality(Completed') \in Nat /\ Cardinality(Completed) \in Nat /\ Cardinality(HandoffIds) \in Nat
    BY SmallerSets, SetsOfHandoffs, HandoffsAreFinite
  <1> QED BY <1>1 DEF ConversionsInv, HandoffsTyped

\* The invariant of the handoffs holds at the start.
LEMMA HandoffsInvInit == HandoffsInit => HandoffsInv
  <1> SUFFICES ASSUME HandoffsInit PROVE HandoffsInv
    OBVIOUS
  <1>1. HandoffsTyped
    BY DEF HandoffsInit, HandoffsTyped, HandoffStatuses, AtDesk, CallDocs
  <1>2. \A c \in ManagerCalls, h \in HandoffIds :
            managerCall[c][h].op = "idle" /\ managerCall[c][h].stage = "idle"
    BY DEF HandoffsInit, AtDesk
  <1>3. Completed = {} /\ Converting = {}
    BY <1>2 DEF HandoffsInit, Completed, Converting
  <1>4. ConversionsInv
    BY <1>3, FS_EmptySet, HandoffsAreFinite DEF HandoffsInit, ConversionsInv
  <1> QED BY <1>1, <1>2, <1>4 DEF HandoffsInv, HoldsRow

\* Inductive step of the invariant: one step for each action.
LEMMA HandoffsInvInductive == HandoffsInv /\ [HandoffsNext]_handoffsVars => HandoffsInv'
  <1> SUFFICES ASSUME HandoffsInv, [HandoffsNext]_handoffsVars PROVE HandoffsInv'
    OBVIOUS
  <1>0. HandoffsTyped /\ HoldsRow /\ ConversionsInv
        /\ \A c \in ManagerCalls, h \in HandoffIds : managerCall[c][h] \in CallDocs
    BY DEF HandoffsInv, HandoffsTyped
  <1>1. ASSUME NEW h \in HandoffIds, CreateHandoff(h) \/ DeleteHandoff(h) PROVE HandoffsInv'
    <2>1. /\ UNCHANGED << handedLead, handoffLock, managerCall, conversions >>
          /\ handoffs' \in [HandoffIds -> HandoffStatuses]
          /\ \A g \in HandoffIds : handoffs'[g] = "completed" => handoffs[g] = "completed"
      BY <1>0, <1>1 DEF CreateHandoff, DeleteHandoff, HandoffsTyped, HandoffStatuses
    <2>2. Converting' \subseteq Converting /\ Completed' \subseteq Completed
      BY <2>1 DEF Converting, Completed
    <2>3. ConversionsInv'
      BY <1>0, <2>1, <2>2, NumbersKept
    <2> QED BY <1>0, <2>1, <2>3 DEF HandoffsInv, HandoffsTyped, HoldsRow
  <1>2. ASSUME NEW c \in ManagerCalls, NEW h \in HandoffIds, NEW op \in Operations \ { "archive" },
               ReadHandoff(c, h, op)
        PROVE  HandoffsInv'
    <2> DEFINE w == [AtDesk EXCEPT !.op = op, !.stage = "update"]
    <2>1. CallGoes(c, h, w) /\ UNCHANGED << handoffs, handedLead, handoffLock, conversions >>
      BY <1>2 DEF ReadHandoff
    <2>2. w \in CallDocs /\ w.op = op /\ w.stage = "update" /\ op \notin { "idle", "archive" }
      BY DEF AtDesk, CallDocs, Operations
    <2> HIDE DEF w
    <2>3. /\ managerCall' \in [ManagerCalls -> [HandoffIds -> CallDocs]]
          /\ managerCall'[c][h] = w
          /\ \A b \in ManagerCalls, g \in HandoffIds :
                b # c \/ g # h => managerCall'[b][g] = managerCall[b][g]
      BY <1>0, <2>1, <2>2, ManagerCallKept
    <2>4. Converting' \subseteq Converting /\ Completed' \subseteq Completed
      BY <2>1, <2>2, <2>3 DEF Converting, Completed
    <2>5. ConversionsInv'
      BY <1>0, <2>1, <2>4, NumbersKept
    <2>6. HoldsRow'
      BY <1>0, <2>1, <2>2, <2>3 DEF HoldsRow
    <2> QED BY <1>0, <2>1, <2>3, <2>5, <2>6 DEF HandoffsInv, HandoffsTyped
  <1>3. ASSUME NEW c \in ManagerCalls, NEW h \in HandoffIds, UpdateHandoff(c, h) PROVE HandoffsInv'
    <2> DEFINE old == managerCall[c][h]
               w == [old EXCEPT !.stage = IF old.op = "complete" THEN "lead" ELSE "commit"]
    <2>1. /\ old.stage = "update" /\ old.op \notin { "archive", "idle" } /\ handoffLock[h] = "free"
          /\ UNCHANGED << handoffs, handedLead, conversions >>
          /\ \/ CallGoes(c, h, AtDesk) /\ UNCHANGED handoffLock
             \/ CallGoes(c, h, w) /\ handoffLock' = [handoffLock EXCEPT ![h] = c]
      BY <1>0, <1>3 DEF UpdateHandoff, HoldsRow
    <2>2. PICK v \in CallDocs :
            /\ CallGoes(c, h, v) /\ v.op # "archive" /\ (v.op = "idle" => v.stage = "idle")
            /\ ~(v.op = "complete" /\ v.stage = "commit")
            /\ \/ v.stage = "idle" /\ UNCHANGED handoffLock
               \/ handoffLock' = [handoffLock EXCEPT ![h] = c]
      <3>1. AtDesk \in CallDocs /\ AtDesk.op = "idle" /\ AtDesk.stage = "idle"
        BY DEF AtDesk, CallDocs
      <3>2. /\ w \in CallDocs /\ w.op = old.op
            /\ w.stage = IF old.op = "complete" THEN "lead" ELSE "commit"
        BY <1>0 DEF CallDocs
      <3> HIDE DEF w
      <3> QED BY <2>1, <3>1, <3>2
    <2>3. /\ managerCall' \in [ManagerCalls -> [HandoffIds -> CallDocs]]
          /\ managerCall'[c][h] = v
          /\ \A b \in ManagerCalls, g \in HandoffIds :
                b # c \/ g # h => managerCall'[b][g] = managerCall[b][g]
      BY <1>0, <2>2, ManagerCallKept
    <2>4. Converting' \subseteq Converting /\ Completed' \subseteq Completed
      BY <2>1, <2>2, <2>3 DEF Converting, Completed
    <2>5. ConversionsInv'
      BY <1>0, <2>1, <2>4, NumbersKept
    <2>6. HandoffsTyped'
      BY <1>0, <2>1, <2>2, <2>3 DEF HandoffsTyped
    <2>7. HoldsRow'
      <3> SUFFICES ASSUME NEW b \in ManagerCalls, NEW g \in HandoffIds
                   PROVE  /\ managerCall'[b][g].op = "idle" => managerCall'[b][g].stage = "idle"
                          /\ managerCall'[b][g].op = "archive" => managerCall'[b][g].stage = "commit"
                          /\ managerCall'[b][g].stage \in { "lead", "commit" } /\ managerCall'[b][g].op # "archive"
                                => handoffLock'[g] = b
        BY DEF HoldsRow
      <3>1. CASE b = c /\ g = h
        BY <1>0, <2>2, <2>3, <3>1 DEF HandoffsTyped
      <3>2. CASE g # h
        BY <1>0, <2>1, <2>2, <2>3, <3>2 DEF HoldsRow, HandoffsTyped
      <3>3. CASE b # c /\ g = h
        BY <1>0, <2>1, <2>3, <3>3, HandoffsAssumption DEF HoldsRow
      <3> QED BY <3>1, <3>2, <3>3
    <2> QED BY <2>5, <2>6, <2>7 DEF HandoffsInv
  <1>4. ASSUME NEW c \in ManagerCalls, NEW h \in HandoffIds, ReadHandedLead(c, h),
               handedLead = "HANDED_TO_MANAGER"
        PROVE  HandoffsInv'
    <2> DEFINE w == [managerCall[c][h] EXCEPT !.stage = "commit"]
    <2>1. /\ managerCall[c][h].stage = "lead" /\ CallGoes(c, h, w)
          /\ UNCHANGED << handoffs, handedLead, handoffLock, conversions >>
      BY <1>4 DEF ReadHandedLead
    <2>2. w \in CallDocs /\ w.op = managerCall[c][h].op /\ w.stage = "commit"
      BY <1>0 DEF CallDocs
    <2> HIDE DEF w
    <2>3. /\ managerCall' \in [ManagerCalls -> [HandoffIds -> CallDocs]]
          /\ managerCall'[c][h] = w
          /\ \A b \in ManagerCalls, g \in HandoffIds :
                b # c \/ g # h => managerCall'[b][g] = managerCall[b][g]
      BY <1>0, <2>1, <2>2, ManagerCallKept
    <2>4. HandoffsTyped' /\ HoldsRow'
      BY <1>0, <2>1, <2>2, <2>3 DEF HandoffsTyped, HoldsRow
    <2>5. conversions = 0 /\ Cardinality(Converting') <= Cardinality(HandoffIds)
          /\ Cardinality(Converting') \in Nat
      BY <1>0, <1>4, SetsOfHandoffs, HandoffsAreFinite DEF ConversionsInv
    <2>6. Completed' = Completed
      BY <2>1 DEF Completed
    <2> QED BY <1>0, <2>1, <2>4, <2>5, <2>6 DEF HandoffsInv, ConversionsInv
  <1>5. ASSUME NEW c \in ManagerCalls, NEW h \in HandoffIds,
               managerCall[c][h].stage \in { "lead", "commit" }, managerCall[c][h].op # "archive",
               Commits(c, h)
        PROVE  /\ HoldsRow' /\ Converting' = Converting \ { h }
               /\ handoffLock' \in [HandoffIds -> ManagerCalls \cup { "free" }]
               /\ managerCall' \in [ManagerCalls -> [HandoffIds -> CallDocs]]
    <2>1. AtDesk \in CallDocs /\ AtDesk.op = "idle" /\ AtDesk.stage = "idle"
      BY DEF AtDesk, CallDocs
    <2>2. /\ managerCall' \in [ManagerCalls -> [HandoffIds -> CallDocs]]
          /\ managerCall'[c][h] = AtDesk
          /\ \A b \in ManagerCalls, g \in HandoffIds :
                b # c \/ g # h => managerCall'[b][g] = managerCall[b][g]
          /\ handoffLock' = [handoffLock EXCEPT ![h] = "free"]
      BY <1>0, <1>5, <2>1, ManagerCallKept DEF Commits
    <2>3. \A b \in ManagerCalls \ { c } :
            ~(managerCall[b][h].stage \in { "lead", "commit" } /\ managerCall[b][h].op # "archive")
      BY <1>0, <1>5 DEF HoldsRow
    <2>4. handoffLock' \in [HandoffIds -> ManagerCalls \cup { "free" }]
          /\ \A g \in HandoffIds \ { h } : handoffLock'[g] = handoffLock[g]
      BY <1>0, <2>2 DEF HandoffsTyped
    <2>5. HoldsRow'
      BY <1>0, <2>1, <2>2, <2>3, <2>4 DEF HoldsRow
    <2>6. Converting' = Converting \ { h }
      BY <2>1, <2>2, <2>3 DEF Converting
    <2> QED BY <2>2, <2>4, <2>5, <2>6
  <1>6. ASSUME NEW c \in ManagerCalls, NEW h \in HandoffIds, ReadHandedLead(c, h),
               handedLead # "HANDED_TO_MANAGER"
        PROVE  HandoffsInv'
    <2>1. /\ managerCall[c][h].stage = "lead" /\ Commits(c, h)
          /\ UNCHANGED << handoffs, handedLead, conversions >>
      BY <1>6 DEF ReadHandedLead
    <2>2. /\ HoldsRow' /\ Converting' = Converting \ { h }
          /\ handoffLock' \in [HandoffIds -> ManagerCalls \cup { "free" }]
          /\ managerCall' \in [ManagerCalls -> [HandoffIds -> CallDocs]]
      <3>1. managerCall[c][h].op # "archive"
        BY <1>0, <2>1 DEF HoldsRow
      <3> QED BY <1>5, <2>1, <3>1
    <2>3. Converting' \subseteq Converting /\ Completed' \subseteq Completed
      BY <2>1, <2>2 DEF Completed
    <2>4. ConversionsInv'
      BY <1>0, <2>1, <2>3, NumbersKept
    <2> QED BY <1>0, <2>1, <2>2, <2>4 DEF HandoffsInv, HandoffsTyped
  <1>7. ASSUME NEW c \in ManagerCalls, NEW h \in HandoffIds, CommitHandoff(c, h) PROVE HandoffsInv'
    <2> DEFINE op == managerCall[c][h].op
    <2>1. /\ managerCall[c][h].stage = "commit" /\ op # "archive" /\ Commits(c, h)
          /\ handoffs' = [handoffs EXCEPT ![h] = Writes[op]]
          /\ IF op = "complete" THEN handedLead' = "CONVERTED" /\ conversions' = conversions + 1
                                ELSE UNCHANGED << handedLead, conversions >>
      BY <1>7 DEF CommitHandoff
    <2>2. /\ HoldsRow' /\ Converting' = Converting \ { h }
          /\ handoffLock' \in [HandoffIds -> ManagerCalls \cup { "free" }]
          /\ managerCall' \in [ManagerCalls -> [HandoffIds -> CallDocs]]
      BY <1>5, <2>1
    <2>3. op \in { "accept", "reject", "complete", "reassign" }
      BY <1>0, <2>1 DEF HoldsRow, CallDocs, Operations
    <2>4. /\ Writes[op] \in HandoffStatuses /\ (Writes[op] = "completed" <=> op = "complete")
      BY <2>3 DEF Writes, HandoffStatuses
    <2>5. handoffs' \in [HandoffIds -> HandoffStatuses]
      BY <1>0, <2>1, <2>4 DEF HandoffsTyped
    <2>6. CASE op = "complete"
      <3>1. h \in Converting /\ handedLead' = "CONVERTED" /\ conversions' = conversions + 1
        BY <2>1, <2>6 DEF Converting
      <3>2. Completed' = Completed \cup { h }
        BY <1>0, <2>1, <2>4, <2>6 DEF Completed, HandoffsTyped
      <3>3. IsFiniteSet(Converting) /\ IsFiniteSet(Completed) /\ Cardinality(Converting) \in Nat
            /\ Cardinality(Completed) \in Nat /\ Cardinality(HandoffIds) \in Nat
        BY SetsOfHandoffs, HandoffsAreFinite
      <3>4. Cardinality(Converting') = Cardinality(Converting) - 1
        BY <2>2, <3>1, <3>3, FS_RemoveElement
      <3>5. Cardinality(Completed') <= Cardinality(Completed) + 1
        <4>1. CASE h \in Completed
          <5>1. Completed' = Completed
            BY <3>2, <4>1
          <5> QED BY <3>3, <5>1
        <4>2. CASE h \notin Completed
          <5>1. Cardinality(Completed') = Cardinality(Completed) + 1
            BY <3>2, <3>3, <4>2, FS_AddElement
          <5> QED BY <3>3, <5>1
        <4> QED BY <4>1, <4>2
      <3>6. Cardinality(Completed') \in Nat
        BY SetsOfHandoffs, HandoffsAreFinite
      <3>7. ConversionsInv'
        BY <1>0, <3>1, <3>3, <3>4, <3>5, <3>6 DEF ConversionsInv, HandoffsTyped
      <3> QED BY <1>0, <2>2, <2>5, <3>1, <3>7 DEF HandoffsInv, HandoffsTyped
    <2>7. CASE op # "complete"
      <3>1. UNCHANGED << handedLead, conversions >>
        BY <2>1, <2>7
      <3>2. Converting' \subseteq Converting /\ Completed' \subseteq Completed
        BY <1>0, <2>1, <2>2, <2>4, <2>7 DEF Completed, HandoffsTyped
      <3>3. ConversionsInv'
        BY <1>0, <3>1, <3>2, NumbersKept
      <3> QED BY <1>0, <2>2, <2>5, <3>1, <3>3 DEF HandoffsInv, HandoffsTyped
    <2> QED BY <2>6, <2>7
  <1>8. ASSUME NEW c \in ManagerCalls, NEW h \in HandoffIds, ReadToArchive(c, h) PROVE HandoffsInv'
    <2> DEFINE w == [AtDesk EXCEPT !.op = "archive", !.stage = "commit"]
    <2>1. CallGoes(c, h, w) /\ UNCHANGED << handoffs, handedLead, handoffLock, conversions >>
      BY <1>8 DEF ReadToArchive
    <2>2. w \in CallDocs /\ w.op = "archive" /\ w.stage = "commit"
      BY DEF AtDesk, CallDocs, Operations
    <2> HIDE DEF w
    <2>3. /\ managerCall' \in [ManagerCalls -> [HandoffIds -> CallDocs]]
          /\ managerCall'[c][h] = w
          /\ \A b \in ManagerCalls, g \in HandoffIds :
                b # c \/ g # h => managerCall'[b][g] = managerCall[b][g]
      BY <1>0, <2>1, <2>2, ManagerCallKept
    <2>4. Converting' \subseteq Converting /\ Completed' \subseteq Completed
      BY <2>1, <2>2, <2>3 DEF Converting, Completed
    <2>5. ConversionsInv'
      BY <1>0, <2>1, <2>4, NumbersKept
    <2> QED BY <1>0, <2>1, <2>2, <2>3, <2>5 DEF HandoffsInv, HandoffsTyped, HoldsRow
  <1>9. ASSUME NEW c \in ManagerCalls, NEW h \in HandoffIds, ArchiveHanded(c, h) PROVE HandoffsInv'
    <2>1. /\ CallGoes(c, h, AtDesk) /\ handedLead' = "ARCHIVED"
          /\ UNCHANGED << handoffs, handoffLock, conversions >>
      BY <1>9 DEF ArchiveHanded
    <2>2. AtDesk \in CallDocs /\ AtDesk.op = "idle" /\ AtDesk.stage = "idle"
      BY DEF AtDesk, CallDocs
    <2>3. /\ managerCall' \in [ManagerCalls -> [HandoffIds -> CallDocs]]
          /\ managerCall'[c][h] = AtDesk
          /\ \A b \in ManagerCalls, g \in HandoffIds :
                b # c \/ g # h => managerCall'[b][g] = managerCall[b][g]
      BY <1>0, <2>1, <2>2, ManagerCallKept
    <2>4. Converting' \subseteq Converting /\ Completed' = Completed
      BY <2>1, <2>2, <2>3 DEF Converting, Completed
    <2>5. Cardinality(Converting') <= Cardinality(Converting) /\ Cardinality(Converting') \in Nat
          /\ Cardinality(Converting) \in Nat /\ Cardinality(HandoffIds) \in Nat
      BY <2>4, SmallerSets, SetsOfHandoffs, HandoffsAreFinite
    <2>6. ConversionsInv'
      BY <1>0, <2>1, <2>4, <2>5 DEF ConversionsInv, HandoffsTyped
    <2>7. HandoffsTyped' /\ HoldsRow'
      BY <1>0, <2>1, <2>2, <2>3 DEF HandoffsTyped, HoldsRow
    <2> QED BY <2>6, <2>7 DEF HandoffsInv
  <1>10. CASE UNCHANGED handoffsVars
    BY <1>10 DEF handoffsVars, HandoffsInv, HandoffsTyped, HoldsRow, ConversionsInv, Converting, Completed
  <1> QED BY <1>1, <1>2, <1>3, <1>4, <1>6, <1>7, <1>8, <1>9, <1>10 DEF HandoffsNext

-----------------------------------------------------------------------------
\* Handoffs, locks and calls have their types.
THEOREM HandoffsTypeCorrect == HandoffsSpec => []HandoffsTypeOK
  <1>1. HandoffsInv => HandoffsTypeOK
    BY DEF HandoffsInv, HandoffsTyped, HandoffsTypeOK, CallDocs
  <1> QED BY <1>1, HandoffsInvInit, HandoffsInvInductive, PTL DEF HandoffsSpec

(* complete writes the handoff and the lead it read without a lock in one   *)
(* transaction: each completed handoff has its conversion, and no handoff   *)
(* more than one, though several may convert the same lead. *)
THEOREM CompletionsDoConvert == HandoffsSpec => []CompletionsConvert
  <1>1. HandoffsInv => CompletionsConvert
    <2> SUFFICES ASSUME HandoffsInv PROVE CompletionsConvert
      OBVIOUS
    <2>1. Cardinality(Converting) \in Nat /\ Cardinality(HandoffIds) \in Nat /\ conversions \in Nat
      BY SetsOfHandoffs, HandoffsAreFinite DEF HandoffsInv, HandoffsTyped
    <2> QED BY <2>1 DEF HandoffsInv, ConversionsInv, CompletionsConvert, Completed
  <1> QED BY <1>1, HandoffsInvInit, HandoffsInvInductive, PTL DEF HandoffsSpec

-----------------------------------------------------------------------------
(* Bulk requests, for any number of leads and overlapping requests.         *)

BulkDocs == [op : Requests \cup { "none" }, stage : BulkStages, todo : Seq(BulkLeads),
             copies : [BulkLeads -> Row], held : SUBSET BulkLeads]

\* A request that goes through a page has its leads in order, those it holds behind it.
BulkOK(w) ==
    /\ w.stage = "update" => w.todo # << >>
    /\ w.op # "send_listed" =>
        /\ \A i, j \in DOMAIN w.todo : i < j => w.todo[i] < w.todo[j]
        /\ \A l \in w.held, i \in DOMAIN w.todo : l < w.todo[i]

BulkInv ==
    /\ rows \in [BulkLeads -> Row] /\ bulk \in [BulkCalls -> BulkDocs]
    /\ \A c \in BulkCalls : BulkOK(bulk[c])

\* A request that is none.
LEMMA NotBulkOK == NotBulk \in BulkDocs /\ BulkOK(NotBulk)
  <1>1. NotBulk.todo = << >> /\ NotBulk.stage = "idle" /\ NotBulk.held = {} /\ DOMAIN << >> = {}
    BY DEF NotBulk
  <1>2. BulkOK(NotBulk)
    BY <1>1 DEF BulkOK
  <1>3. NotBulk \in BulkDocs
    BY DEF NotBulk, BulkDocs, BulkStages, Row
  <1> QED BY <1>2, <1>3

\* The invariant holds at first.
LEMMA BulkInvInit == BulkInit => BulkInv
  BY NotBulkOK DEF BulkInit, BulkInv

\* One request goes on.
LEMMA BulkGoesOn ==
  ASSUME BulkInv, NEW c \in BulkCalls, NEW w \in BulkDocs, BulkOK(w), BulkGoes(c, w),
         rows' \in [BulkLeads -> Row]
  PROVE  BulkInv'
  BY DEF BulkInv, BulkGoes

\* The rest of a list keeps its order, and its first lead is before the rest.
LEMMA RestInOrder ==
  ASSUME NEW list \in Seq(BulkLeads), list # << >>
  PROVE  /\ Tail(list) \in Seq(BulkLeads) /\ Head(list) \in BulkLeads
         /\ \A i \in DOMAIN Tail(list) : i + 1 \in DOMAIN list /\ Tail(list)[i] = list[i + 1] /\ i \in Nat /\ i > 0
         /\ 1 \in DOMAIN list /\ Head(list) = list[1]
  OBVIOUS

\* So the rest is in order and behind what is held, with the first lead among it.
LEMMA RestOK ==
  ASSUME NEW w \in BulkDocs, BulkOK(w), w.todo # << >>, NEW held \in { w.held, {}, w.held \cup { Head(w.todo) } }
  PROVE  w.op # "send_listed" =>
            /\ \A i, j \in DOMAIN Tail(w.todo) : i < j => Tail(w.todo)[i] < Tail(w.todo)[j]
            /\ \A l \in held, i \in DOMAIN Tail(w.todo) : l < Tail(w.todo)[i]
  <1> SUFFICES ASSUME w.op # "send_listed"
               PROVE  /\ \A i, j \in DOMAIN Tail(w.todo) : i < j => Tail(w.todo)[i] < Tail(w.todo)[j]
                      /\ \A l \in held, i \in DOMAIN Tail(w.todo) : l < Tail(w.todo)[i]
    OBVIOUS
  <1> DEFINE todo == w.todo
             rest == Tail(todo)
  <1>1. todo \in Seq(BulkLeads) /\ todo # << >>
    BY DEF BulkDocs
  <1>2. /\ \A i \in DOMAIN rest : i + 1 \in DOMAIN todo /\ rest[i] = todo[i + 1] /\ i \in Nat /\ i > 0
        /\ 1 \in DOMAIN todo /\ Head(todo) = todo[1]
    BY <1>1, RestInOrder
  <1>3. /\ \A i, j \in DOMAIN todo : i < j => todo[i] < todo[j]
        /\ \A l \in w.held, i \in DOMAIN todo : l < todo[i]
    BY DEF BulkOK
  <1> HIDE DEF todo, rest
  <1>4. \A i, j \in DOMAIN rest : i < j => rest[i] < rest[j]
    BY <1>2, <1>3
  <1>5. \A i \in DOMAIN rest : Head(todo) < rest[i]
    BY <1>2, <1>3
  <1>6. \A l \in w.held, i \in DOMAIN rest : l < rest[i]
    BY <1>2, <1>3
  <1>7. \A l \in held, i \in DOMAIN rest : l < rest[i]
    BY <1>5, <1>6 DEF todo
  <1> QED BY <1>4, <1>7 DEF todo, rest

\* Every step keeps the requests in order.
LEMMA BulkInvInductive == BulkInv /\ [BulkNext]_bulkVars => BulkInv'
  <1> SUFFICES ASSUME BulkInv, [BulkNext]_bulkVars
               PROVE  BulkInv'
    OBVIOUS
  <1>0. \A c \in BulkCalls : bulk[c] \in BulkDocs /\ BulkOK(bulk[c]) /\ bulk[c].todo \in Seq(BulkLeads)
    BY DEF BulkInv, BulkDocs
  <1>1. rows \in [BulkLeads -> Row]
    BY DEF BulkInv
  <1>2. ASSUME NEW c \in BulkCalls, NEW op \in Requests, NEW list \in Lists(op), StartBulk(c, op, list)
        PROVE  BulkInv'
    <2> DEFINE w == [NotBulk EXCEPT !.op = op, !.stage = "http", !.todo = list, !.copies = rows]
    <2>1. list \in Seq(BulkLeads) /\ (op # "send_listed" => \A i, j \in DOMAIN list : i < j => list[i] < list[j])
      <3>1. CASE op # "send_listed"
        <4>1. list = [i \in BulkLeads |-> i]
          BY <3>1 DEF Lists, Page
        <4>2. list \in [1 .. LeadCount -> BulkLeads] /\ LeadCount \in Nat
          BY <4>1, BulkAssumption DEF BulkLeads
        <4> QED BY <4>1, <4>2
      <3>2. CASE op = "send_listed"
        <4>1. PICK n \in BulkLeads : list \in [1 .. n -> BulkLeads]
          BY <3>2 DEF Lists
        <4>2. n \in Nat
          BY BulkAssumption DEF BulkLeads
        <4> QED BY <3>2, <4>1, <4>2
      <3> QED BY <3>1, <3>2
    <2>2. w \in BulkDocs /\ w.op = op /\ w.stage = "http" /\ w.todo = list /\ w.held = {}
      <3>1. NotBulk \in BulkDocs /\ NotBulk.held = {}
        BY NotBulkOK DEF NotBulk
      <3> HIDE DEF NotBulk
      <3> QED BY <1>1, <2>1, <3>1 DEF BulkDocs, BulkStages
    <2> HIDE DEF w
    <2>3. w \in BulkDocs
      BY <2>2
    <2>4. BulkOK(w)
      BY <2>1, <2>2 DEF BulkOK
    <2>5. BulkGoes(c, w) /\ rows' = rows
      BY <1>2 DEF StartBulk, w
    <2> QED BY <1>1, <2>3, <2>4, <2>5, BulkGoesOn
  <1>3. ASSUME NEW c \in BulkCalls, HttpCall(c)
        PROVE  BulkInv'
    <2> DEFINE w == bulk[c]
               x == [w EXCEPT !.todo = Tail(w.todo)]
               y == [w EXCEPT !.stage = "update"]
    <2>1. w \in BulkDocs /\ BulkOK(w) /\ w.todo # << >> /\ w.stage \in { "http", "aborted" } /\ w.todo \in Seq(BulkLeads)
      BY <1>0, <1>3 DEF HttpCall
    <2>2. rows' = rows /\ (BulkGoes(c, x) \/ BulkGoes(c, y))
      BY <1>3 DEF HttpCall
    <2>3. x \in BulkDocs /\ BulkOK(x)
      <3>1. Tail(w.todo) \in Seq(BulkLeads)
        BY <2>1
      <3>2. x \in BulkDocs /\ x.op = w.op /\ x.stage = w.stage /\ x.todo = Tail(w.todo) /\ x.held = w.held
        BY <2>1, <3>1 DEF BulkDocs
      <3> QED BY <2>1, <3>2, RestOK DEF BulkOK
    <2>4. y \in BulkDocs /\ BulkOK(y)
      <3>1. y \in BulkDocs /\ y.op = w.op /\ y.todo = w.todo /\ y.held = w.held
        BY <2>1 DEF BulkDocs, BulkStages
      <3> QED BY <2>1, <3>1 DEF BulkOK
    <2> HIDE DEF x, y
    <2> QED BY <1>1, <2>2, <2>3, <2>4, BulkGoesOn
  <1>4. ASSUME NEW c \in BulkCalls, UpdateRow(c)
        PROVE  BulkInv'
    <2> DEFINE w == bulk[c]
               l == Head(w.todo)
               row == IF w.op = "enrich_all" THEN [w.copies[l] EXCEPT !.domain = TRUE] ELSE [w.copies[l] EXCEPT !.sent = TRUE]
               copies == [w.copies EXCEPT ![l] = row]
               x == [w EXCEPT !.stage = "http", !.todo = Tail(w.todo), !.held = w.held \cup { l }, !.copies = copies]
    <2>1. w \in BulkDocs /\ BulkOK(w) /\ w.stage = "update" /\ w.todo # << >> /\ w.todo \in Seq(BulkLeads)
      BY <1>0, <1>4 DEF UpdateRow, BulkOK
    <2>2. l \in BulkLeads /\ Tail(w.todo) \in Seq(BulkLeads)
      BY <2>1
    <2>3. w.copies \in [BulkLeads -> Row] /\ w.held \subseteq BulkLeads /\ w.op \in Requests \cup { "none" }
      BY <2>1 DEF BulkDocs
    <2>4. row \in Row
      BY <2>2, <2>3 DEF Row
    <2> HIDE DEF l, row
    <2>5. copies \in [BulkLeads -> Row]
      BY <2>2, <2>3, <2>4
    <2>6. BulkGoes(c, x) /\ rows' = rows
      BY <1>4, <2>2, <2>3 DEF UpdateRow, l, row
    <2> HIDE DEF copies
    <2>7. x \in BulkDocs /\ x.op = w.op /\ x.stage = "http" /\ x.todo = Tail(w.todo) /\ x.held = w.held \cup { l }
      BY <2>1, <2>2, <2>3, <2>5 DEF BulkDocs, BulkStages
    <2>8. BulkOK(x)
      <3>1. x.op = w.op /\ x.stage = "http" /\ x.todo = Tail(w.todo) /\ x.held = w.held \cup { Head(w.todo) }
        BY <2>7 DEF l
      <3> QED BY <2>1, <3>1, RestOK DEF BulkOK
    <2> QED BY <1>1, <2>6, <2>7, <2>8, BulkGoesOn
  <1>5. ASSUME NEW c \in BulkCalls, AbortDeadlock(c)
        PROVE  BulkInv'
    <2> DEFINE w == bulk[c]
               x == [w EXCEPT !.stage = "aborted", !.todo = Tail(w.todo), !.held = {}]
    <2>1. w \in BulkDocs /\ BulkOK(w) /\ w.todo \in Seq(BulkLeads)
      BY <1>0
    <2>2. w.todo # << >>
      <3>1. PICK S \in SUBSET BulkCalls : c \in S /\ Circle(S)
        BY <1>5 DEF AbortDeadlock
      <3>2. WaitsFor(c) # {}
        BY <3>1 DEF Circle
      <3> QED BY <2>1, <3>2 DEF BulkOK, WaitsFor
    <2>3. BulkGoes(c, x) /\ rows' = rows
      BY <1>5 DEF AbortDeadlock
    <2>4. Tail(w.todo) \in Seq(BulkLeads)
      BY <2>1, <2>2
    <2>5. x \in BulkDocs /\ x.op = w.op /\ x.stage = "aborted" /\ x.todo = Tail(w.todo) /\ x.held = {}
      BY <2>1, <2>4 DEF BulkDocs, BulkStages
    <2>6. BulkOK(x)
      BY <2>1, <2>2, <2>5, RestOK DEF BulkOK
    <2> HIDE DEF x
    <2> QED BY <1>1, <2>3, <2>5, <2>6, BulkGoesOn
  <1>6. ASSUME NEW c \in BulkCalls, CommitBulk(c)
        PROVE  BulkInv'
    <2>1. bulk[c].copies \in [BulkLeads -> Row]
      BY <1>0 DEF BulkDocs
    <2>2. rows' \in [BulkLeads -> Row]
      BY <1>1, <1>6, <2>1 DEF CommitBulk
    <2> QED BY <1>6, <2>2, NotBulkOK, BulkGoesOn DEF CommitBulk
  <1>7. CASE UNCHANGED bulkVars
    BY <1>7 DEF BulkInv, bulkVars
  <1> QED BY <1>2, <1>3, <1>4, <1>5, <1>6, <1>7 DEF BulkNext

\* Of the requests of a circle the one that waits for the smallest lead is waited for
\* by one that wants a lead it holds, a smaller one.
LEMMA InvForbidsPageCircles == BulkInv => CircleNeedsAList
  <1> SUFFICES ASSUME BulkInv, NEW S \in SUBSET BulkCalls, Circle(S), \A c \in S : bulk[c].op # "send_listed"
               PROVE  FALSE
    BY DEF CircleNeedsAList
  <1> DEFINE Waiting == { c \in S : bulk[c].stage = "update" }
             first(c) == Head(bulk[c].todo)
             Firsts == { first(c) : c \in Waiting }
  <1>1. \A c \in S : \E d \in Waiting : first(d) \in bulk[c].held
    BY DEF Circle, WaitsFor, Holder
  <1>2. \A d \in Waiting : /\ bulk[d].todo \in Seq(BulkLeads) /\ bulk[d].todo # << >> /\ first(d) \in BulkLeads
                           /\ 1 \in DOMAIN bulk[d].todo /\ first(d) = bulk[d].todo[1]
                           /\ \A l \in bulk[d].held, i \in DOMAIN bulk[d].todo : l < bulk[d].todo[i]
    <2> SUFFICES ASSUME NEW d \in Waiting
                 PROVE  /\ bulk[d].todo \in Seq(BulkLeads) /\ bulk[d].todo # << >> /\ first(d) \in BulkLeads
                        /\ 1 \in DOMAIN bulk[d].todo /\ first(d) = bulk[d].todo[1]
                        /\ \A l \in bulk[d].held, i \in DOMAIN bulk[d].todo : l < bulk[d].todo[i]
      OBVIOUS
    <2>1. bulk[d].todo \in Seq(BulkLeads) /\ bulk[d].todo # << >>
          /\ \A l \in bulk[d].held, i \in DOMAIN bulk[d].todo : l < bulk[d].todo[i]
      BY DEF BulkInv, BulkDocs, BulkOK
    <2> QED BY <2>1, RestInOrder
  <1>3. Waiting # {} /\ Firsts # {}
    BY <1>1 DEF Circle
  <1>4. Firsts \subseteq Nat
    BY <1>2 DEF BulkLeads
  <1>5. PICK x \in Firsts : \A y \in Firsts : ~(y < x)
    <2>1. IsWellFoundedOn(OpToRel(<, Nat), Nat)
      BY NatLessThanWellFounded
    <2>2. PICK x \in Firsts : \A y \in Firsts : ~(<< y, x >> \in OpToRel(<, Nat))
      BY <1>3, <1>4, <2>1, WFMin
    <2> QED BY <1>4, <2>2 DEF OpToRel
  <1>6. PICK d \in Waiting : x = first(d)
    OBVIOUS
  <1>7. PICK e \in Waiting : first(e) \in bulk[d].held
    BY <1>1
  <1>8. first(e) < first(d)
    BY <1>2, <1>7
  <1> QED BY <1>5, <1>6, <1>8

(* Types of the bulk requests (app/api/leads.py: enrich_all_leads,          *)
(* send_campaign), for any number of leads and overlapping requests. *)
THEOREM BulkTypes == BulkSpec => []BulkTypeOK
  <1>1. BulkInv => BulkTypeOK
    BY DEF BulkInv, BulkTypeOK, BulkDocs
  <1> QED BY <1>1, BulkInvInit, BulkInvInductive, PTL DEF BulkSpec

(* Requests that go through a page never wait in a circle: whoever waits    *)
(* wants a lead behind all it holds (find_paginated orders by created_at). *)
THEOREM BulkCircles == BulkSpec => []CircleNeedsAList
  <1> QED BY InvForbidsPageCircles, BulkInvInit, BulkInvInductive, PTL DEF BulkSpec

-----------------------------------------------------------------------------
(* The composition.                                                         *)

\* A step of one service leaves the others alone.
LEMMA OthersKeep ==
  ASSUME NEW S, On(S), OthersStay
  PROVE  /\ service \in S /\ service' = service
         /\ "lifecycle" \notin S => UNCHANGED vars
         /\ "outbound" \notin S => UNCHANGED outboundVars
         /\ "recovery" \notin S => UNCHANGED recoveryVars
         /\ "handoffs" \notin S => UNCHANGED handoffsVars
         /\ "desk" \notin S /\ "deals" \notin S => UNCHANGED deskVars
         /\ "bulk" \notin S => UNCHANGED bulkVars
  BY DEF On, OthersStay

\* Every step of the composition is a step of one service.
LEMMA OneServiceSteps ==
  ASSUME [OutreachNext]_outreachVars
  PROVE  /\ [Next]_vars /\ [OutboundNext]_outboundVars /\ [RecoveryNext]_recoveryVars
         /\ [HandoffsNext]_handoffsVars /\ [DeskNext]_deskVars /\ [BulkNext]_bulkVars
         /\ UNCHANGED service
  <1>1. ASSUME OutboundStep
        PROVE  OutboundNext /\ On({ "outbound" }) /\ OthersStay
    BY <1>1 DEF OutboundStep, OutboundNext
  <1>2. ASSUME HandoffsStep
        PROVE  HandoffsNext /\ On({ "handoffs" }) /\ OthersStay
    BY <1>2 DEF HandoffsStep, HandoffsNext
  <1>3. ASSUME DeskStep
        PROVE  DeskNext /\ (On({ "desk" }) \/ On({ "deals" }) \/ On({ "desk", "deals" })) /\ OthersStay
    <2>1. "mark_qualified" \in DOMAIN StatusAfter
      BY DEF StatusAfter
    <2> QED BY <1>3, <2>1 DEF DeskStep, DeskNext
  <1>4. ASSUME BulkStep
        PROVE  BulkNext /\ On({ "bulk" }) /\ OthersStay
    BY <1>4 DEF BulkStep, BulkNext
  <1>5. ASSUME LifecycleStep
        PROVE  Next /\ On({ "lifecycle" }) /\ OthersStay
    BY <1>5 DEF LifecycleStep, Next
  <1>6. ASSUME RecoveryStep
        PROVE  RecoveryNext /\ On({ "recovery" }) /\ OthersStay
    BY <1>6 DEF RecoveryStep, RecoveryNext, AskedSteps, Steps
  <1>7. ASSUME UNCHANGED outreachVars
        PROVE  UNCHANGED << vars, outboundVars, recoveryVars, handoffsVars, deskVars, bulkVars, service >>
    BY <1>7 DEF outreachVars
  <1> QED BY <1>1, <1>2, <1>3, <1>4, <1>5, <1>6, <1>7, OthersKeep DEF OutreachNext

(* The services around the outreach together do what each does alone: what  *)
(* is proved of one of them holds of the composition. *)
THEOREM OutreachIsEach ==
  OutreachSpec => /\ Spec /\ OutboundSpec /\ RecoverySpec
                  /\ HandoffsSpec /\ DeskSpec /\ BulkSpec
  <1>1. OutreachInit => /\ Init /\ OutboundInit /\ RecoveryInit
                        /\ HandoffsInit /\ DeskInit /\ BulkInit
    BY DEF OutreachInit
  <1>2. [OutreachNext]_outreachVars
            => /\ [Next]_vars /\ [OutboundNext]_outboundVars /\ [RecoveryNext]_recoveryVars
               /\ [HandoffsNext]_handoffsVars /\ [DeskNext]_deskVars /\ [BulkNext]_bulkVars
    BY OneServiceSteps
  <1> QED BY <1>1, <1>2, PTL
          DEF OutreachSpec, Spec, OutboundSpec, RecoverySpec, HandoffsSpec, DeskSpec, BulkSpec

(* Types of the services around the outreach. *)
THEOREM OutreachTypes == OutreachSpec => []OutreachTypeOK
  <1>1. OutreachInit => service \in Services
    BY DEF OutreachInit
  <1>2. service \in Services /\ [OutreachNext]_outreachVars => (service \in Services)'
    BY OneServiceSteps
  <1>3. OutreachSpec => [](service \in Services)
    BY <1>1, <1>2, PTL DEF OutreachSpec
  <1>4. service \in Services /\ TypeOK /\ OutboundTypeOK /\ RecoveryTypeOK
        /\ HandoffsTypeOK /\ DeskTypeOK /\ BulkTypeOK => OutreachTypeOK
    BY DEF Services, OutreachTypeOK
  <1> QED BY <1>3, <1>4, OutreachIsEach, TypeCorrect, OutboundTypeCorrect, RecoveryTypes,
             HandoffsTypeCorrect, DeskTypeCorrect, BulkTypes, PTL
===============================================================================
