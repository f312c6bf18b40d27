--------------------------- MODULE Operations_proof --------------------------
(***************************************************************************)
(* Proofs about Governance, Guards, ChaosDrills, SignedBackups,            *)
(* Deployments and Jobs, for any number of overlapping calls, and about    *)
(* the composition of all operations services (with Approvals_proof).      *)
(* Each invariant says the same of a value in Redis and                    *)
(* of its copies in flight, which any call may set later.                  *)
(***************************************************************************)
EXTENDS MC_Operations, Approvals_proof

(* Governance. *)

ApprovalDocs == DOMAIN Needed \cup { "auto" }
AskedDocs == [status : { "none", "pending", "approved", "rejected", "expired" }, type : ApprovalDocs,
              approvals : 0 .. 3]
PromotionDocs == [status : { "none", "pending", "approved", "promoted" }, passed : BOOLEAN]
CallOps == { "idle", "set_entry", "ask_approval", "set_request", "approve", "reject", "read_entry",
             "set_reason", "gate_sandbox", "gate_trust", "gate_approval", "promote", "transition" }
Calls == [op : CallOps, target : LifecycleStates, entry : Entries, asked : AskedDocs,
          passed : SUBSET Gates, promotion : PromotionDocs]

PastReview == { "approved", "active", "suspended", "deprecated" }

\* An entry, in Redis or in flight, that was granted if it is past the review.
EntryOK(e, granted) ==
    /\ e \in Entries
    /\ e # NoEntry =>
        /\ Len(e.history) > 0 /\ e.version = Len(e.history) /\ e.history[1] = "draft"
        /\ \A i \in 2 .. Len(e.history) : e.history[i] \in ValidTransitions[e.history[i - 1]]
        /\ e.type # "none" /\ EntryState(e) \in PastReview => granted

AskedOK(a, granted) == a \in AskedDocs /\ (a.status = "approved" => granted)

PromotionOK(p, passed, force) ==
    /\ p \in PromotionDocs
    /\ p.passed => passed = Gates
    /\ p.status = "promoted" => force \/ passed = Gates

\* A call in flight: its copies, and what it has checked before it sets one.
CallOK(w, granted, passed, force) ==
    /\ w \in Calls
    /\ EntryOK(w.entry, granted)
    /\ PromotionOK(w.promotion, passed, force)
    /\ w.passed \subseteq passed
    /\ w.op \in { "set_entry", "ask_approval" } =>
            w.entry # NoEntry /\ w.target \in ValidTransitions[EntryState(w.entry)]
    /\ w.op = "set_entry" /\ w.entry.type # "none" /\ w.target = "approved" => granted
    /\ w.op = "promote" => w.promotion.passed \/ force

GovernanceInv ==
    /\ EntryOK(entry, everApproved)
    /\ AskedOK(asked, everApproved)
    /\ PromotionOK(promotion, everPassed, forced)
    /\ governor \in [Governors -> Calls]
    /\ \A g \in Governors : CallOK(governor[g], everApproved, everPassed, forced)
    /\ { sandbox, trusted, everApproved, forced } \subseteq BOOLEAN /\ everPassed \subseteq Gates

-----------------------------------------------------------------------------
\* A grant is needed to become approved, and from there only leads past the review.
LEMMA ReviewIsPassedOnce ==
  \A s, t \in LifecycleStates :
        t \in ValidTransitions[s] /\ t \in PastReview => t = "approved" \/ s \in PastReview
  BY DEF LifecycleStates, ValidTransitions, PastReview

\* What a call and Redis begin with.
LEMMA NothingIsOK ==
  ASSUME NEW granted, NEW passed, NEW force
  PROVE  /\ EntryOK(NoEntry, granted)
         /\ AskedOK(NotAsked, granted)
         /\ PromotionOK(NotPromoted, passed, force)
  <1>1. DOMAIN Needed = { "none", "single", "dual", "committee" }
    BY DEF Needed
  <1>2. << >> \in Seq(LifecycleStates)
    OBVIOUS
  <1>3. 0 \in 0 .. MaxVersion
    BY GovernanceAssumption
  <1>4. NoEntry \in Entries
    BY <1>1, <1>2, <1>3 DEF NoEntry, Entries
  <1>5. NotAsked \in AskedDocs /\ NotAsked.status # "approved"
    BY <1>1 DEF NotAsked, AskedDocs, ApprovalDocs
  <1>6. NotPromoted \in PromotionDocs /\ ~NotPromoted.passed /\ NotPromoted.status # "promoted"
    BY DEF NotPromoted, PromotionDocs
  <1> QED BY <1>4, <1>5, <1>6 DEF EntryOK, AskedOK, PromotionOK

\* A call that does nothing is in order, whatever has been granted.
LEMMA IdleOK ==
  ASSUME NEW granted, NEW passed, NEW force
  PROVE  CallOK(GovernorIdle, granted, passed, force) /\ GovernorIdle \in Calls
  <1>1. /\ GovernorIdle.op = "idle" /\ GovernorIdle.entry = NoEntry /\ GovernorIdle.passed = {}
        /\ GovernorIdle.promotion = NotPromoted
    BY DEF GovernorIdle
  <1>2. NoEntry \in Entries /\ NotAsked \in AskedDocs /\ NotPromoted \in PromotionDocs
    BY NothingIsOK DEF EntryOK, AskedOK, PromotionOK
  <1>3. GovernorIdle \in Calls
    BY <1>2 DEF GovernorIdle, Calls, CallOps, LifecycleStates
  <1> QED BY <1>1, <1>3, NothingIsOK DEF CallOK

\* What held stays true when more was granted, passed and forced.
LEMMA CallStaysOK ==
  ASSUME NEW w, NEW granted \in BOOLEAN, NEW passed \in SUBSET Gates, NEW force \in BOOLEAN,
         NEW grantedLater \in BOOLEAN, NEW passedLater \in SUBSET Gates, NEW forceLater \in BOOLEAN,
         granted => grantedLater, passed \subseteq passedLater, force => forceLater,
         CallOK(w, granted, passed, force)
  PROVE  CallOK(w, grantedLater, passedLater, forceLater)
  BY DEF CallOK, EntryOK, PromotionOK

\* A step: one call goes on, the others stay, and the values set are as they should be.
LEMMA StepKeepsInv ==
  ASSUME GovernanceInv, NEW g \in Governors, NEW w, Goes(g, w),
         everApproved' \in BOOLEAN, everPassed' \subseteq Gates, forced' \in BOOLEAN,
         everApproved => everApproved', everPassed \subseteq everPassed', forced => forced',
         CallOK(w, everApproved', everPassed', forced'),
         EntryOK(entry', everApproved'), AskedOK(asked', everApproved'),
         PromotionOK(promotion', everPassed', forced'),
         sandbox' \in BOOLEAN, trusted' \in BOOLEAN
  PROVE  GovernanceInv'
  <1>1. ASSUME NEW h \in Governors PROVE CallOK(governor'[h], everApproved', everPassed', forced')
    <2>1. CASE h = g
      BY <2>1 DEF Goes, GovernanceInv
    <2>2. CASE h # g
      <3>1. governor'[h] = governor[h] /\ CallOK(governor[h], everApproved, everPassed, forced)
        BY <2>2 DEF Goes, GovernanceInv
      <3>2. everApproved \in BOOLEAN /\ everPassed \in SUBSET Gates /\ forced \in BOOLEAN
        BY DEF GovernanceInv
      <3> QED BY <3>1, <3>2, CallStaysOK
    <2> QED BY <2>1, <2>2
  <1>2. w \in Calls
    BY DEF CallOK
  <1>3. governor' \in [Governors -> Calls]
    BY <1>2 DEF Goes, GovernanceInv
  <1> QED BY <1>1, <1>3 DEF GovernanceInv

\* The invariant of the governance services holds at the start.
LEMMA GovernanceInvInit == GovernanceInit => GovernanceInv
  <1> SUFFICES ASSUME GovernanceInit PROVE GovernanceInv
    OBVIOUS
  <1>1. CallOK(GovernorIdle, FALSE, {}, FALSE) /\ GovernorIdle \in Calls
    BY IdleOK
  <1>2. EntryOK(NoEntry, FALSE) /\ AskedOK(NotAsked, FALSE) /\ PromotionOK(NotPromoted, {}, FALSE)
    BY NothingIsOK
  <1> QED BY <1>1, <1>2 DEF GovernanceInit, GovernanceInv

-----------------------------------------------------------------------------
\* An entry that goes one valid transition on is as good as it was.
LEMMA EntryGoesOn ==
  ASSUME NEW e, NEW granted, EntryOK(e, granted), e # NoEntry, e.version < MaxVersion,
         NEW target \in LifecycleStates, target \in ValidTransitions[EntryState(e)],
         e.type # "none" /\ target = "approved" => granted
  PROVE  EntryOK([type |-> e.type, version |-> e.version + 1, history |-> Append(e.history, target)], granted)
  <1> DEFINE h == e.history
             n == Len(h)
             new == [type |-> e.type, version |-> e.version + 1, history |-> Append(h, target)]
  <1>1. /\ h \in Seq(LifecycleStates) /\ n \in Nat /\ n > 0 /\ e.version = n /\ h[1] = "draft"
        /\ \A i \in 2 .. n : h[i] \in ValidTransitions[h[i - 1]]
        /\ e.type \in DOMAIN Needed \cup { "auto" }
        /\ h[n] \in LifecycleStates /\ target \in ValidTransitions[h[n]]
        /\ e.type # "none" /\ h[n] \in PastReview => granted
    BY DEF EntryOK, Entries, EntryState
  <1>2. /\ Append(h, target) \in Seq(LifecycleStates) /\ Len(Append(h, target)) = n + 1
        /\ \A i \in 1 .. n : Append(h, target)[i] = h[i]
        /\ Append(h, target)[n + 1] = target
    BY <1>1
  <1>3. new \in Entries
    BY <1>1, <1>2, GovernanceAssumption DEF Entries
  <1>4. new.type = e.type /\ new.version = n + 1 /\ new.history = Append(h, target)
    BY <1>1
  <1>5. ASSUME NEW i \in 2 .. n + 1 PROVE new.history[i] \in ValidTransitions[new.history[i - 1]]
    <2>1. CASE i = n + 1
      BY <1>1, <1>2, <1>4, <2>1
    <2>2. CASE i # n + 1
      <3>1. i \in 2 .. n /\ i - 1 \in 1 .. n /\ i \in 1 .. n
        BY <1>1, <2>2
      <3> QED BY <1>1, <1>2, <1>4, <3>1
    <2> QED BY <2>1, <2>2
  <1>6. new.type # "none" /\ EntryState(new) \in PastReview => granted
    <2>1. EntryState(new) = target
      BY <1>1, <1>2, <1>4 DEF EntryState
    <2>2. target \in PastReview => target = "approved" \/ h[n] \in PastReview
      BY <1>1, ReviewIsPassedOnce
    <2> QED BY <1>1, <1>4, <2>1, <2>2
  <1>7. Len(new.history) = n + 1 /\ new.history[1] = "draft"
    BY <1>1, <1>2, <1>4
  <1> HIDE DEF new, h, n
  <1>8. Len(new.history) > 0
    BY <1>1, <1>7
  <1>9. EntryOK(new, granted)
    BY <1>3, <1>4, <1>5, <1>6, <1>7, <1>8 DEF EntryOK
  <1> QED BY <1>9 DEF new, h

\* What transition_state goes on to after it read the entry.
LEMMA BeginOK ==
  ASSUME GovernanceInv, NEW g \in Governors, NEW target \in LifecycleStates
  PROVE  CallOK(BeginTransition(g, target), everApproved, everPassed, forced)
  <1> DEFINE w == [governor[g] EXCEPT !.op = IF target = "approved" /\ entry.type # "none"
                                             THEN "ask_approval" ELSE "set_entry",
                                      !.target = target, !.entry = entry]
  <1>1. CASE entry # NoEntry /\ target \in ValidTransitions[EntryState(entry)]
    <2>1. BeginTransition(g, target) = w
      BY <1>1 DEF BeginTransition
    <2>2. governor[g] \in Calls /\ CallOK(governor[g], everApproved, everPassed, forced)
          /\ EntryOK(entry, everApproved) /\ entry \in Entries
      BY DEF GovernanceInv, EntryOK
    <2>3. w \in Calls
      BY <2>2 DEF Calls, CallOps
    <2>4. /\ w.op = IF target = "approved" /\ entry.type # "none" THEN "ask_approval" ELSE "set_entry"
          /\ w.target = target /\ w.entry = entry
          /\ w.promotion = governor[g].promotion /\ w.passed = governor[g].passed
      BY <2>2 DEF Calls
    <2> HIDE DEF w
    <2> QED BY <1>1, <2>1, <2>2, <2>3, <2>4 DEF CallOK
  <1>2. CASE ~(entry # NoEntry /\ target \in ValidTransitions[EntryState(entry)])
    BY <1>2, IdleOK DEF BeginTransition
  <1> QED BY <1>1, <1>2

\* Inductive step of the invariant: one step for each action.
LEMMA GovernanceInvInductive == GovernanceInv /\ [GovernanceNext]_governanceVars => GovernanceInv'
  <1> SUFFICES ASSUME GovernanceInv, [GovernanceNext]_governanceVars PROVE GovernanceInv'
    OBVIOUS
  <1>0. /\ EntryOK(entry, everApproved) /\ AskedOK(asked, everApproved)
        /\ PromotionOK(promotion, everPassed, forced)
        /\ governor \in [Governors -> Calls]
        /\ \A g \in Governors : CallOK(governor[g], everApproved, everPassed, forced) /\ governor[g] \in Calls
        /\ sandbox \in BOOLEAN /\ trusted \in BOOLEAN /\ everApproved \in BOOLEAN /\ forced \in BOOLEAN
        /\ everPassed \subseteq Gates
        /\ CallOK(GovernorIdle, everApproved, everPassed, forced) /\ GovernorIdle \in Calls
    BY IdleOK DEF GovernanceInv
  <1>1. ASSUME NEW t \in ApprovalTypes, CreateLifecycleEntry(t) PROVE GovernanceInv'
    <2> DEFINE new == [type |-> t, version |-> 1, history |-> << "draft" >>]
    <2>1. new.type = t /\ new.version = 1 /\ new.history = << "draft" >> /\ EntryState(new) = "draft"
      BY DEF EntryState
    <2>2. entry' = new
      BY <1>1 DEF CreateLifecycleEntry
    <2>3. EntryOK(new, everApproved)
      <3>1. new \in Entries
        BY GovernanceAssumption DEF Entries, LifecycleStates
      <3> HIDE DEF new
      <3> QED BY <2>1, <3>1 DEF EntryOK, PastReview
    <2> QED BY <1>0, <1>1, <2>2, <2>3 DEF CreateLifecycleEntry, GovernanceInv, governanceHistory, gateVars
  <1>2. ASSUME NEW ok \in BOOLEAN, RunSandboxTest(ok) \/ CalculateTrustScore(ok) PROVE GovernanceInv'
    BY <1>0, <1>2 DEF RunSandboxTest, CalculateTrustScore, GovernanceInv, governanceHistory, gateVars
  <1>3. ASSUME NEW g \in Governors, NEW target \in LifecycleStates, TransitionState(g, target)
        PROVE  GovernanceInv'
    BY <1>0, <1>3, BeginOK, StepKeepsInv DEF TransitionState, governanceHistory, gateVars
  <1>4. ASSUME NEW g \in Governors, AskApproval(g) PROVE GovernanceInv'
    <2> DEFINE w == [governor[g] EXCEPT !.op = "set_entry"]
    <2>1. CASE asked.status = "approved"
      <3>1. Goes(g, w)
        BY <1>4, <2>1 DEF AskApproval
      <3>2. /\ w \in Calls /\ w.op = "set_entry" /\ w.entry = governor[g].entry
            /\ w.target = governor[g].target /\ w.passed = governor[g].passed
            /\ w.promotion = governor[g].promotion
        BY <1>0 DEF Calls, CallOps
      <3>3. everApproved /\ governor[g].op = "ask_approval"
        BY <1>0, <1>4, <2>1 DEF AskApproval, AskedOK
      <3> HIDE DEF w
      <3>4. CallOK(w, everApproved, everPassed, forced)
        BY <1>0, <3>2, <3>3 DEF CallOK
      <3> QED BY <1>0, <1>4, <3>1, <3>4, StepKeepsInv DEF AskApproval, governanceHistory, gateVars
    <2>2. CASE asked.status # "approved"
      BY <1>0, <1>4, <2>2, StepKeepsInv DEF AskApproval, governanceHistory, gateVars
    <2> QED BY <2>1, <2>2
  <1>5. ASSUME NEW g \in Governors, SetEntry(g) PROVE GovernanceInv'
    <2> DEFINE copy == governor[g].entry
               new == [type |-> copy.type, version |-> copy.version + 1,
                       history |-> Append(copy.history, governor[g].target)]
    <2>1. /\ governor[g].op = "set_entry" /\ copy.version < MaxVersion
          /\ entry' = new /\ Goes(g, GovernorIdle)
      BY <1>5 DEF SetEntry
    <2>2. EntryOK(copy, everApproved) /\ copy # NoEntry
          /\ governor[g].target \in LifecycleStates
          /\ governor[g].target \in ValidTransitions[EntryState(copy)]
          /\ (copy.type # "none" /\ governor[g].target = "approved" => everApproved)
      BY <1>0, <2>1 DEF CallOK, Calls
    <2>3. EntryOK(new, everApproved)
      BY <2>1, <2>2, EntryGoesOn
    <2> HIDE DEF new, copy
    <2> QED BY <1>0, <1>5, <2>1, <2>3, StepKeepsInv DEF SetEntry, governanceHistory, gateVars
  <1>6. ASSUME NEW g \in Governors, ReadType(g) PROVE GovernanceInv'
    <2> DEFINE type == IF entry = NoEntry THEN "single" ELSE entry.type
               w == [GovernorIdle EXCEPT !.op = "set_request", !.asked = [NotAsked EXCEPT !.type = type]]
    <2>1. type \in ApprovalDocs
      BY <1>0 DEF EntryOK, Entries, ApprovalDocs, Needed
    <2> HIDE DEF type
    <2>2. [NotAsked EXCEPT !.type = type] \in AskedDocs
      BY <2>1 DEF NotAsked, AskedDocs
    <2>3. CallOK(w, everApproved, everPassed, forced)
      <3>1. /\ w \in Calls /\ w.op = "set_request" /\ w.entry = GovernorIdle.entry
            /\ w.passed = GovernorIdle.passed /\ w.promotion = GovernorIdle.promotion
        BY <1>0, <2>2 DEF Calls, CallOps
      <3> HIDE DEF w
      <3> QED BY <1>0, <3>1 DEF CallOK
    <2>4. Goes(g, w)
      BY <1>6 DEF ReadType, type
    <2> HIDE DEF w
    <2> QED BY <1>0, <1>6, <2>3, <2>4, StepKeepsInv DEF ReadType, governanceHistory, gateVars
  <1>7. ASSUME NEW g \in Governors, SetRequestOf(g) PROVE GovernanceInv'
    <2>1. AskedOK(asked', everApproved)
      BY <1>0, <1>7 DEF SetRequestOf, Calls, AskedDocs, AskedOK
    <2> QED BY <1>0, <1>7, <2>1, StepKeepsInv DEF SetRequestOf, governanceHistory, gateVars
  <1>8. ASSUME NEW g \in Governors, NEW op \in { "approve", "reject" }, ReadAsked(g, op) PROVE GovernanceInv'
    <2> DEFINE w == [GovernorIdle EXCEPT !.op = op, !.asked = asked]
    <2>1. CallOK(w, everApproved, everPassed, forced)
      <3>1. /\ w \in Calls /\ w.op = op /\ w.entry = GovernorIdle.entry
            /\ w.passed = GovernorIdle.passed /\ w.promotion = GovernorIdle.promotion
        BY <1>0 DEF Calls, CallOps, AskedOK
      <3> HIDE DEF w
      <3> QED BY <1>0, <3>1 DEF CallOK
    <2>2. Goes(g, w)
      BY <1>8 DEF ReadAsked
    <2> HIDE DEF w
    <2> QED BY <1>0, <1>8, <2>1, <2>2, StepKeepsInv DEF ReadAsked, governanceHistory, gateVars
  <1>9. ASSUME NEW g \in Governors, SetApproval(g) PROVE GovernanceInv'
    <2> DEFINE old == governor[g].asked
               n == old.approvals + 1
               granted == Granted(old.type, n)
    <2>1. old \in AskedDocs
      BY <1>0 DEF Calls
    <2>2. granted \in BOOLEAN /\ n \in 0 .. 3
      BY <1>9, <2>1 DEF SetApproval, Granted, AskedDocs
    <2>3. \/ /\ asked' = [old EXCEPT !.approvals = n, !.status = IF granted THEN "approved" ELSE "pending"]
             /\ everApproved' = (everApproved \/ granted)
          \/ /\ asked' = [old EXCEPT !.status = "expired"]
             /\ everApproved' = everApproved
      BY <1>9 DEF SetApproval
    <2>4. AskedOK(asked', everApproved') /\ everApproved' \in BOOLEAN /\ (everApproved => everApproved')
      <3> HIDE DEF granted, n, old
      <3> QED BY <1>0, <2>1, <2>2, <2>3 DEF AskedOK, AskedDocs
    <2>5. EntryOK(entry, everApproved')
      BY <1>0, <2>4 DEF EntryOK
    <2>6. CallOK(GovernorIdle, everApproved', everPassed, forced)
      BY IdleOK
    <2> QED BY <1>0, <1>9, <2>4, <2>5, <2>6, StepKeepsInv DEF SetApproval, gateVars
  <1>10. ASSUME NEW g \in Governors, SetRejection(g) PROVE GovernanceInv'
    <2> DEFINE w == [GovernorIdle EXCEPT !.op = "read_entry"]
    <2>1. CallOK(w, everApproved, everPassed, forced)
      <3>1. /\ w \in Calls /\ w.op = "read_entry" /\ w.entry = GovernorIdle.entry
            /\ w.passed = GovernorIdle.passed /\ w.promotion = GovernorIdle.promotion
        BY <1>0 DEF Calls, CallOps
      <3> HIDE DEF w
      <3> QED BY <1>0, <3>1 DEF CallOK
    <2>2. AskedOK(asked', everApproved)
      BY <1>0, <1>10 DEF SetRejection, Calls, AskedDocs, AskedOK
    <2>3. Goes(g, w)
      BY <1>10 DEF SetRejection
    <2> HIDE DEF w
    <2> QED BY <1>0, <1>10, <2>1, <2>2, <2>3, StepKeepsInv DEF SetRejection, governanceHistory, gateVars
  <1>11. ASSUME NEW g \in Governors, ReadEntry(g) PROVE GovernanceInv'
    <2> DEFINE w == [GovernorIdle EXCEPT !.op = "set_reason", !.entry = entry]
    <2>1. CallOK(w, everApproved, everPassed, forced)
      <3>1. /\ w \in Calls /\ w.op = "set_reason" /\ w.entry = entry
            /\ w.passed = GovernorIdle.passed /\ w.promotion = GovernorIdle.promotion
        BY <1>0 DEF Calls, CallOps, EntryOK
      <3> HIDE DEF w
      <3> QED BY <1>0, <3>1 DEF CallOK
    <2>2. Goes(g, GovernorIdle) \/ Goes(g, w)
      BY <1>11 DEF ReadEntry
    <2> HIDE DEF w
    <2> QED BY <1>0, <1>11, <2>1, <2>2, StepKeepsInv DEF ReadEntry, governanceHistory, gateVars
  <1>12. ASSUME NEW g \in Governors, SetReason(g) PROVE GovernanceInv'
    BY <1>0, <1>12, StepKeepsInv DEF SetReason, governanceHistory, gateVars, CallOK
  <1>13. ASSUME NEW g \in Governors, NEW gate \in Gates, CheckGate(g, gate) PROVE GovernanceInv'
    <2> DEFINE ok == CASE gate = "sandbox" -> sandbox [] gate = "trust" -> trusted
                       [] OTHER -> asked.status = "approved"
               op == CASE gate = "sandbox" -> "gate_sandbox" [] gate = "trust" -> "gate_trust"
                       [] OTHER -> "gate_approval"
               passed == IF ok THEN governor[g].passed \cup { gate } ELSE governor[g].passed
               w == [governor[g] EXCEPT !.op = op, !.passed = passed]
    <2>1. /\ Goes(g, w) /\ everPassed' = IF ok THEN everPassed \cup { gate } ELSE everPassed
          /\ op \in { "gate_sandbox", "gate_trust", "gate_approval" }
      BY <1>13 DEF CheckGate
    <2> HIDE DEF ok, op
    <2>2. everPassed' \subseteq Gates /\ everPassed \subseteq everPassed' /\ passed \subseteq everPassed'
          /\ passed \subseteq Gates
      BY <1>0, <2>1 DEF CallOK
    <2> HIDE DEF passed
    <2>3. /\ w \in Calls /\ w.op = op /\ w.entry = governor[g].entry
          /\ w.passed = passed /\ w.promotion = governor[g].promotion
      BY <1>0, <2>1, <2>2 DEF Calls, CallOps
    <2> HIDE DEF w
    <2>4. CallOK(w, everApproved, everPassed', forced)
      <3>1. CallOK(governor[g], everApproved, everPassed', forced)
        BY <1>0, <2>2, CallStaysOK
      <3> QED BY <2>1, <2>2, <2>3, <3>1 DEF CallOK
    <2>5. PromotionOK(promotion, everPassed', forced)
      BY <1>0, <2>2 DEF PromotionOK
    <2> QED BY <1>0, <1>13, <2>1, <2>2, <2>4, <2>5, StepKeepsInv DEF CheckGate, gateVars
  <1>14. ASSUME NEW g \in Governors, NEW conflicts \in BOOLEAN, SetPromotion(g, conflicts) PROVE GovernanceInv'
    <2> DEFINE ok == governor[g].passed = Gates /\ ~conflicts
    <2>1. promotion' = [status |-> IF ok THEN "approved" ELSE "pending", passed |-> ok]
      BY <1>14 DEF SetPromotion
    <2>2. ok \in BOOLEAN /\ (ok => everPassed = Gates)
      BY <1>0 DEF CallOK
    <2> HIDE DEF ok
    <2>3. PromotionOK(promotion', everPassed, forced)
      BY <2>1, <2>2 DEF PromotionOK, PromotionDocs
    <2> QED BY <1>0, <1>14, <2>3, StepKeepsInv DEF SetPromotion, governanceHistory, gateVars
  <1>15. ASSUME NEW g \in Governors, NEW force \in BOOLEAN, ReadPromotion(g, force) PROVE GovernanceInv'
    <2> DEFINE w == [GovernorIdle EXCEPT !.op = "promote", !.promotion = promotion]
    <2>1. forced' \in BOOLEAN /\ (forced => forced') /\ (promotion.passed \/ forced') /\ Goes(g, w)
      BY <1>0, <1>15 DEF ReadPromotion, PromotionOK, PromotionDocs
    <2>2. PromotionOK(promotion, everPassed, forced')
      BY <1>0, <2>1 DEF PromotionOK
    <2>3. CallOK(w, everApproved, everPassed, forced')
      <3>1. /\ w \in Calls /\ w.op = "promote" /\ w.entry = GovernorIdle.entry
            /\ w.passed = GovernorIdle.passed /\ w.promotion = promotion
        BY <1>0 DEF Calls, CallOps, PromotionOK
      <3>2. CallOK(GovernorIdle, everApproved, everPassed, forced')
        BY IdleOK
      <3> HIDE DEF w
      <3> QED BY <2>1, <2>2, <3>1, <3>2 DEF CallOK
    <2> HIDE DEF w
    <2> QED BY <1>0, <1>15, <2>1, <2>2, <2>3, StepKeepsInv DEF ReadPromotion, gateVars
  <1>16. ASSUME NEW g \in Governors, SetPromoted(g) PROVE GovernanceInv'
    <2> DEFINE w == [GovernorIdle EXCEPT !.op = "transition"]
    <2>1. CallOK(w, everApproved, everPassed, forced)
      <3>1. /\ w \in Calls /\ w.op = "transition" /\ w.entry = GovernorIdle.entry
            /\ w.passed = GovernorIdle.passed /\ w.promotion = GovernorIdle.promotion
        BY <1>0 DEF Calls, CallOps
      <3> HIDE DEF w
      <3> QED BY <1>0, <3>1 DEF CallOK
    <2>2. PromotionOK(promotion', everPassed, forced)
      <3>1. governor[g].op = "promote" /\ promotion' = [governor[g].promotion EXCEPT !.status = "promoted"]
        BY <1>16 DEF SetPromoted
      <3>2. governor[g].promotion \in PromotionDocs /\ CallOK(governor[g], everApproved, everPassed, forced)
        BY <1>0 DEF Calls
      <3> QED BY <3>1, <3>2 DEF CallOK, PromotionOK, PromotionDocs
    <2>3. Goes(g, w)
      BY <1>16 DEF SetPromoted
    <2> HIDE DEF w
    <2> QED BY <1>0, <1>16, <2>1, <2>2, <2>3, StepKeepsInv DEF SetPromoted, governanceHistory, gateVars
  <1>17. ASSUME NEW g \in Governors, Activate(g) PROVE GovernanceInv'
    BY <1>0, <1>17, BeginOK, StepKeepsInv DEF Activate, governanceHistory, gateVars, LifecycleStates
  <1>18. CASE UNCHANGED governanceVars
    BY <1>0, <1>18 DEF governanceVars, governanceHistory, gateVars, GovernanceInv
  <1> QED BY <1>1, <1>2, <1>3, <1>4, <1>5, <1>6, <1>7, <1>8, <1>9, <1>10, <1>11, <1>12, <1>13, <1>14,
             <1>15, <1>16, <1>17, <1>18 DEF GovernanceNext

-----------------------------------------------------------------------------
\* The documents have the fields that the calls read.
THEOREM GovernanceTypeCorrect == GovernanceSpec => []GovernanceTypeOK
  <1>1. GovernanceInv => GovernanceTypeOK
    BY DEF GovernanceInv, GovernanceTypeOK, EntryOK, AskedOK, PromotionOK, AskedDocs, PromotionDocs,
           ApprovalDocs, CallOK, Calls
  <1> QED BY <1>1, GovernanceInvInit, GovernanceInvInductive, PTL DEF GovernanceSpec

(* Whatever overlaps, an entry's history is a path of VALID_TRANSITIONS     *)
(* that begins with the draft and has one state for each version.  *)
THEOREM HistoriesArePaths == GovernanceSpec => []HistoryIsAPath
  <1>1. GovernanceInv => HistoryIsAPath
    BY DEF GovernanceInv, HistoryIsAPath, EntryOK
  <1> QED BY <1>1, GovernanceInvInit, GovernanceInvInductive, PTL DEF GovernanceSpec

(* transition_state lets an entry that needs an approval past the review    *)
(* only after a request for the entity was granted. *)
THEOREM ReviewsWereApproved == GovernanceSpec => []PastReviewWasApproved
  <1>1. GovernanceInv => PastReviewWasApproved
    BY DEF GovernanceInv, PastReviewWasApproved, EntryOK, PastReview
  <1> QED BY <1>1, GovernanceInvInit, GovernanceInvInductive, PTL DEF GovernanceSpec

(* promote_to_active marks a promotion only when every gate had passed at   *)
(* some time or the call was forced, however old the verdict it read.  *)
THEOREM PromotionsPassedGates == GovernanceSpec => []PromotedPassedGates
  <1>1. GovernanceInv => PromotedPassedGates
    BY DEF GovernanceInv, PromotedPassedGates, PromotionOK
  <1> QED BY <1>1, GovernanceInvInit, GovernanceInvInductive, PTL DEF GovernanceSpec

-----------------------------------------------------------------------------
(* The protection guards of decision_safety. *)

\* A guard counts at most the violations in the log: counts get lost when calls
\* overlap, none is invented.
CountsAreLogged ==
    /\ \A i \in GuardIds : guards[i].violations <= violationLog[i]
    /\ \A c \in GuardCalls : guardCall[c].copy.violations <= violationLog[guardCall[c].id]

\* A call that found its guard in the list of active ones, or made it, has an active copy.
CopiesAreActive ==
    \A c \in GuardCalls : guardCall[c].op \in { "log", "set" } => guardCall[c].copy.active

GuardsInv == GuardsTypeOK /\ CountsAreLogged /\ CopiesAreActive /\ GuardOffOnlyByHand

\* The invariant of the guards holds at the start.
LEMMA GuardsInvInit == GuardsInit => GuardsInv
  BY GuardsAssumption DEF GuardsInit, GuardsInv, GuardsTypeOK, GuardDocs, CountsAreLogged,
     CopiesAreActive, GuardOffOnlyByHand, GuardIds, NoGuard, AtGuard

\* What the invariant asks of a call w in flight, with the log of violations as it is.
GuardCallOK(w, log) ==
    /\ w \in [op : { "idle", "log", "set", "toggle" }, id : GuardIds, copy : GuardDocs]
    /\ w.copy.violations <= log[w.id]
    /\ w.op \in { "log", "set" } => w.copy.active

\* A step in which the call c goes on to w, the log only grows and the guards stay.
LEMMA GuardCallGoesOn ==
  ASSUME GuardsInv, NEW c \in GuardCalls, NEW w, GuardGoes(c, w), GuardCallOK(w, violationLog'),
         violationLog' \in [GuardIds -> 0 .. MaxViolations],
         \A i \in GuardIds : violationLog[i] <= violationLog'[i],
         UNCHANGED << guards, switchedOff >>, toggles' \in 0 .. MaxToggles
  PROVE  GuardsInv'
  <1> USE GuardsAssumption DEF GuardsInv, GuardsTypeOK, GuardCallOK, GuardGoes
  <1>1. GuardsTypeOK'
    OBVIOUS
  <1>2. CountsAreLogged'
    <2>1. ASSUME NEW i \in GuardIds PROVE guards'[i].violations <= violationLog'[i]
      <3>1. guards[i].violations \in Nat /\ violationLog[i] \in Nat /\ violationLog'[i] \in Nat
        BY DEF GuardDocs
      <3> QED BY <3>1 DEF CountsAreLogged
    <2>2. ASSUME NEW d \in GuardCalls
          PROVE  guardCall'[d].copy.violations <= violationLog'[guardCall'[d].id]
      <3>1. /\ guardCall[d].id \in GuardIds /\ guardCall[d].copy.violations \in Nat
            /\ violationLog[guardCall[d].id] \in Nat /\ violationLog'[guardCall[d].id] \in Nat
        BY DEF GuardDocs
      <3>2. guardCall'[d] = IF d = c THEN w ELSE guardCall[d]
        OBVIOUS
      <3> QED BY <3>1, <3>2 DEF CountsAreLogged
    <2> QED BY <2>1, <2>2 DEF CountsAreLogged
  <1>3. CopiesAreActive' /\ GuardOffOnlyByHand'
    BY DEF CopiesAreActive, GuardOffOnlyByHand
  <1> QED BY <1>1, <1>2, <1>3

\* A step in which the call c sets its copy and ends.
LEMMA GuardCallSets ==
  ASSUME GuardsInv, NEW c \in GuardCalls, GuardGoes(c, AtGuard),
         guards' = [guards EXCEPT ![guardCall[c].id] = guardCall[c].copy],
         switchedOff' \in [GuardIds -> BOOLEAN],
         \A i \in GuardIds : i # guardCall[c].id => switchedOff'[i] = switchedOff[i],
         guardCall[c].copy.active \/ switchedOff'[guardCall[c].id],
         UNCHANGED << violationLog, toggles >>
  PROVE  GuardsInv'
  <1> USE GuardsAssumption DEF GuardsInv, GuardsTypeOK, GuardGoes
  <1>0. AtGuard \in [op : { "idle", "log", "set", "toggle" }, id : GuardIds, copy : GuardDocs]
        /\ AtGuard.op = "idle" /\ AtGuard.copy.violations = 0
    BY DEF AtGuard, NoGuard, GuardDocs, GuardIds
  <1>1. GuardsTypeOK'
    BY <1>0
  <1>2. CountsAreLogged'
    BY <1>0 DEF CountsAreLogged
  <1>3. CopiesAreActive'
    BY <1>0 DEF CopiesAreActive
  <1>4. GuardOffOnlyByHand'
    BY DEF GuardOffOnlyByHand
  <1> QED BY <1>1, <1>2, <1>3, <1>4

\* No step of the guards, in any order of the calls, breaks it.
LEMMA GuardsInvInductive == GuardsInv /\ [GuardsNext]_guardsVars => GuardsInv'
  <1> SUFFICES ASSUME GuardsInv, [GuardsNext]_guardsVars PROVE GuardsInv'
    OBVIOUS
  <1> USE GuardsAssumption
  <1>0. /\ guards \in [GuardIds -> GuardDocs] /\ violationLog \in [GuardIds -> 0 .. MaxViolations]
        /\ switchedOff \in [GuardIds -> BOOLEAN] /\ toggles \in 0 .. MaxToggles
        /\ \A c \in GuardCalls : GuardCallOK(guardCall[c], violationLog)
        /\ \A i \in GuardIds : violationLog[i] <= violationLog[i] /\ guards[i].violations <= violationLog[i]
    BY DEF GuardsInv, GuardsTypeOK, CountsAreLogged, CopiesAreActive, GuardCallOK
  <1>1. ASSUME NEW c \in GuardCalls, NEW i \in GuardIds, FindGuard(c, i) PROVE GuardsInv'
    <2> DEFINE w == [op |-> "set", id |-> i, copy |-> NewGuard]
    <2>1. GuardCallOK(w, violationLog)
      BY <1>0 DEF GuardCallOK, NewGuard, GuardDocs
    <2> HIDE DEF w
    <2> QED BY <1>0, <1>1, <2>1, GuardCallGoesOn DEF FindGuard, w
  <1>2. ASSUME NEW c \in GuardCalls, NEW matching \in SUBSET GuardIds, CheckGuard(c, matching)
        PROVE  GuardsInv'
    <2>1. PICK i \in Listed(matching) : GuardGoes(c, [op |-> "log", id |-> i, copy |-> guards[i]])
      BY <1>2 DEF CheckGuard
    <2> DEFINE w == [op |-> "log", id |-> i, copy |-> guards[i]]
    <2>2. GuardCallOK(w, violationLog)
      BY <1>0, <2>1 DEF GuardCallOK, Listed
    <2> QED BY <1>0, <1>2, <2>1, <2>2, GuardCallGoesOn DEF CheckGuard
  <1>3. ASSUME NEW c \in GuardCalls, LogViolation(c) PROVE GuardsInv'
    <2> DEFINE v == guardCall[c]
               w == [op |-> "set", id |-> v.id, copy |-> [v.copy EXCEPT !.violations = @ + 1]]
    <2>1. GuardGoes(c, w) /\ violationLog' = [violationLog EXCEPT ![v.id] = @ + 1]
          /\ violationLog[v.id] < MaxViolations /\ v.op = "log"
      BY <1>3 DEF LogViolation
    <2>2. GuardCallOK(v, violationLog)
      BY <1>0
    <2>3. violationLog' \in [GuardIds -> 0 .. MaxViolations]
          /\ violationLog'[v.id] = violationLog[v.id] + 1
          /\ \A i \in GuardIds : violationLog[i] <= violationLog'[i]
      BY <1>0, <2>1, <2>2 DEF GuardCallOK
    <2>5. GuardCallOK(w, violationLog')
      BY <1>0, <2>1, <2>2, <2>3 DEF GuardCallOK, GuardDocs
    <2> HIDE DEF w
    <2> QED BY <1>0, <1>3, <2>1, <2>3, <2>5, GuardCallGoesOn DEF LogViolation
  <1>4. ASSUME NEW c \in GuardCalls, SetGuard(c) PROVE GuardsInv'
    BY <1>0, <1>4, GuardCallSets DEF SetGuard, GuardCallOK
  <1>5. ASSUME NEW c \in GuardCalls, NEW i \in GuardIds, NEW on \in BOOLEAN, ToggleGuard(c, i, on)
        PROVE  GuardsInv'
    <2> DEFINE w == [op |-> "toggle", id |-> i, copy |-> [guards[i] EXCEPT !.active = on]]
    <2>1. GuardCallOK(w, violationLog)
      BY <1>0 DEF GuardCallOK, GuardDocs
    <2>2. GuardGoes(c, w) /\ toggles' \in 0 .. MaxToggles
      BY <1>0, <1>5 DEF ToggleGuard
    <2> HIDE DEF w
    <2> QED BY <1>0, <1>5, <2>1, <2>2, GuardCallGoesOn DEF ToggleGuard
  <1>6. ASSUME NEW c \in GuardCalls, SetToggled(c) PROVE GuardsInv'
    <2>1. guardCall[c].id \in GuardIds /\ guardCall[c].copy.active \in BOOLEAN
      BY <1>0 DEF GuardCallOK, GuardDocs
    <2> QED BY <1>0, <1>6, <2>1, GuardCallSets DEF SetToggled
  <1>7. CASE UNCHANGED guardsVars
    BY <1>7 DEF guardsVars, GuardsInv, GuardsTypeOK, CountsAreLogged, CopiesAreActive, GuardOffOnlyByHand
  <1> QED BY <1>1, <1>2, <1>3, <1>4, <1>5, <1>6, <1>7 DEF GuardsNext

\* The values in Redis and in flight keep their types, and no violation count
\* exceeds the number of violations recorded.
THEOREM GuardsTypeCorrect == GuardsSpec => []GuardsTypeOK
  <1>1. GuardsInv => GuardsTypeOK
    BY DEF GuardsInv
  <1> QED BY <1>1, GuardsInvInit, GuardsInvInductive, PTL DEF GuardsSpec

\* A guard is off only when the toggle that was set last said so: what overlapping
\* checks and initialisations set late can switch a guard on, never off.
THEOREM GuardsOffOnlyByHand == GuardsSpec => []GuardOffOnlyByHand
  <1>1. GuardsInv => GuardOffOnlyByHand
    BY DEF GuardsInv
  <1> QED BY <1>1, GuardsInvInit, GuardsInvInductive, PTL DEF GuardsSpec

-----------------------------------------------------------------------------
(* Chaos drills. *)

DrillOps == { "idle", "mark", "inject", "find", "remove", "clear", "store" }
Executed(id) == \E e \in executions : e.id = id

\* A drill that runs has its id alone and is not stored; a stop past its lookup
\* has an id that is stored.
DrillOK(c) ==
    /\ drillCall[c].op \in { "mark", "inject" } => ~drillCall[c].stop
    /\ drillCall[c].op = "find" => drillCall[c].stop
    /\ drillCall[c].op = "idle" => ~drillCall[c].stop
    /\ DrillRunning(c) =>
        /\ drillCall[c].id >= 1 /\ ~Executed(drillCall[c].id)
        /\ \A d \in Drillers : DrillRunning(d) /\ d # c => drillCall[d].id # drillCall[c].id
    /\ drillCall[c].stop =>
        /\ drillCall[c].id >= 1
        /\ drillCall[c].op # "find" => Executed(drillCall[c].id)

DrillsInv ==
    /\ DrillsTypeOK
    /\ drillCall \in [Drillers -> [op : DrillOps, id : Nat, stop : BOOLEAN]]
    /\ \A c \in Drillers : DrillOK(c)

\* The invariant of the drills holds at the start.
LEMMA DrillsInvInit == DrillsInit => DrillsInv
  BY DEF DrillsInit, DrillsInv, DrillsTypeOK, DrillIdle, DrillOps, DrillOK, DrillRunning

\* No step of a drill breaks it.
LEMMA DrillsInvInductive == DrillsInv /\ [DrillsNext]_drillsVars => DrillsInv'
  <1> SUFFICES ASSUME DrillsInv, [DrillsNext]_drillsVars PROVE DrillsInv'
    OBVIOUS
  <1> USE DEF DrillsInv, DrillsTypeOK, DrillOK, DrillRunning, DrillGoes, DrillIdle, DrillOps, Executed
  <1>0. Len(kinds) \in Nat
    OBVIOUS
  <1>1. ASSUME NEW c \in Drillers, NEW type \in DrillTypes, StartDrill(c, type) PROVE DrillsInv'
    <2>1. /\ kinds' \in Seq(DrillTypes) /\ Len(kinds') = Len(kinds) + 1
          /\ drillCall' = [drillCall EXCEPT ![c] = [op |-> "mark", id |-> Len(kinds) + 1, stop |-> FALSE]]
          /\ UNCHANGED << activeDrill, injections, executions >>
      BY <1>1 DEF StartDrill
    <2>2. DrillsTypeOK'
      BY <1>0, <2>1
    <2>3. drillCall' \in [Drillers -> [op : DrillOps, id : Nat, stop : BOOLEAN]]
      BY <1>0, <2>1
    <2>4. ASSUME NEW d \in Drillers PROVE DrillOK(d)'
      BY <1>0, <2>1
    <2> QED BY <2>2, <2>3, <2>4
  <1>2. ASSUME NEW c \in Drillers, MarkActive(c) PROVE DrillsInv'
    BY <1>0, <1>2 DEF MarkActive
  <1>3. ASSUME NEW c \in Drillers, Inject(c) PROVE DrillsInv'
    <2>1. kinds[drillCall[c].id] \in DrillTypes
      BY <1>0, <1>3 DEF Inject
    <2> QED BY <1>0, <1>3, <2>1 DEF Inject
  <1>4. ASSUME NEW c \in Drillers, NEW id \in DrillIds, StopDrill(c, id) PROVE DrillsInv'
    BY <1>0, <1>4 DEF StopDrill, DrillIds
  <1>5. ASSUME NEW c \in Drillers, GetExecution(c) PROVE DrillsInv'
    <2>1. CASE Executed(drillCall[c].id)
      BY <1>0, <1>5, <2>1 DEF GetExecution
    <2>2. CASE ~Executed(drillCall[c].id)
      BY <1>0, <1>5, <2>2 DEF GetExecution
    <2> QED BY <2>1, <2>2
  <1>6. ASSUME NEW c \in Drillers, RemoveInjection(c) PROVE DrillsInv'
    BY <1>0, <1>6 DEF RemoveInjection
  <1>7. ASSUME NEW c \in Drillers, ClearActive(c) PROVE DrillsInv'
    BY <1>0, <1>7 DEF ClearActive
  <1>8. ASSUME NEW c \in Drillers, StoreExecution(c) PROVE DrillsInv'
    <2> DEFINE e == [id |-> drillCall[c].id,
                     status |-> IF drillCall[c].stop THEN "cancelled" ELSE "completed"]
    <2>1. /\ executions' = executions \cup { e } /\ drillCall' = [drillCall EXCEPT ![c] = DrillIdle]
          /\ drillCall[c].op = "store" /\ UNCHANGED << activeDrill, injections, kinds >>
      BY <1>8 DEF StoreExecution
    <2>2. e \in [id : 1 .. Len(kinds), status : { "completed", "cancelled" }] /\ e.id = drillCall[c].id
      BY <1>0, <2>1
    <2> HIDE DEF e
    <2>3. DrillsTypeOK' /\ drillCall' \in [Drillers -> [op : DrillOps, id : Nat, stop : BOOLEAN]]
      BY <1>0, <2>1, <2>2
    <2>4. ASSUME NEW d \in Drillers PROVE DrillOK(d)'
      BY <1>0, <2>1, <2>2
    <2> QED BY <2>3, <2>4
  <1>9. ASSUME NEW c \in Drillers, DrillCrash(c) PROVE DrillsInv'
    BY <1>0, <1>9 DEF DrillCrash
  <1>10. ASSUME ActiveExpires PROVE DrillsInv'
    BY <1>0, <1>10 DEF ActiveExpires
  <1>11. ASSUME NEW type \in DrillTypes, InjectionExpires(type) PROVE DrillsInv'
    BY <1>0, <1>11 DEF InjectionExpires
  <1>12. CASE UNCHANGED drillsVars
    BY <1>12 DEF drillsVars
  <1> QED BY <1>1, <1>2, <1>3, <1>4, <1>5, <1>6, <1>7, <1>8, <1>9, <1>10, <1>11, <1>12 DEF DrillsNext

\* The types of drills, their markers, injections and executions.
THEOREM DrillsTypes == DrillsSpec => []DrillsTypeOK
  <1>1. DrillsInv => DrillsTypeOK
    BY DEF DrillsInv
  <1> QED BY <1>1, DrillsInvInit, DrillsInvInductive, PTL DEF DrillsSpec

\* The flags that nobody will remove are one per lost process, and the marker that nobody
\* will delete is a lost process's.
LeftFlags == injections \ Injecting
MarkerHeld ==
    activeDrill # 0 /\ drillCrashes = 0 =>
        \E c \in Drillers : /\ DrillRunning(c) /\ drillCall[c].id = activeDrill
                           /\ drillCall[c].op \in { "inject", "remove", "clear" }
LeftInv ==
    /\ IsFiniteSet(LeftFlags) /\ drillCrashes \in Nat
    /\ Cardinality(LeftFlags) <= drillCrashes /\ MarkerHeld

\* A step that leaves no further flag behind, and one in which a process is lost.
LEMMA LeftKept ==
  ASSUME LeftInv, LeftFlags' \subseteq LeftFlags, MarkerHeld', UNCHANGED drillCrashes
  PROVE  LeftInv'
  <1>1. IsFiniteSet(LeftFlags) /\ Cardinality(LeftFlags) \in Nat
        /\ Cardinality(LeftFlags) <= drillCrashes /\ drillCrashes \in Nat
    BY FS_CardinalityType DEF LeftInv
  <1>2. IsFiniteSet(LeftFlags') /\ Cardinality(LeftFlags') <= Cardinality(LeftFlags)
    BY <1>1, FS_Subset
  <1>3. Cardinality(LeftFlags') \in Nat
    BY <1>2, FS_CardinalityType
  <1> QED BY <1>1, <1>2, <1>3 DEF LeftInv

LEMMA LeftByLoss ==
  ASSUME LeftInv, NEW x, LeftFlags' \subseteq LeftFlags \cup { x }, drillCrashes' = drillCrashes + 1
  PROVE  LeftInv'
  <1> DEFINE more == LeftFlags \cup { x }
  <1>1. IsFiniteSet(LeftFlags) /\ Cardinality(LeftFlags) \in Nat
        /\ Cardinality(LeftFlags) <= drillCrashes /\ drillCrashes \in Nat
    BY FS_CardinalityType DEF LeftInv
  <1>2. IsFiniteSet(more)
        /\ (Cardinality(more) = Cardinality(LeftFlags) \/ Cardinality(more) = Cardinality(LeftFlags) + 1)
    <2>1. CASE x \in LeftFlags
      <3>1. more = LeftFlags
        BY <2>1
      <3> QED BY <1>1, <3>1
    <2>2. CASE x \notin LeftFlags
      BY <1>1, <2>2, FS_AddElement
    <2> QED BY <2>1, <2>2
  <1>3. IsFiniteSet(LeftFlags') /\ Cardinality(LeftFlags') <= Cardinality(more)
    BY <1>2, FS_Subset
  <1>4. Cardinality(LeftFlags') \in Nat
    BY <1>3, FS_CardinalityType
  <1> HIDE DEF more
  <1>5. MarkerHeld'
    BY <1>1 DEF MarkerHeld
  <1> QED BY <1>1, <1>2, <1>3, <1>4, <1>5 DEF LeftInv

\* At the start there is neither flag nor marker.
LEMMA LeftInvInit == DrillsInit => LeftInv
  <1>1. DrillsInit => LeftFlags = {} /\ drillCrashes = 0 /\ MarkerHeld
    BY DEF DrillsInit, LeftFlags, MarkerHeld
  <1> QED BY <1>1, FS_EmptySet DEF LeftInv

\* The ends of the drills keep the bound.
LEMMA LeftInvInductive == DrillsInv /\ LeftInv /\ [DrillsNext]_drillsVars => LeftInv'
  <1> SUFFICES ASSUME DrillsInv, LeftInv, [DrillsNext]_drillsVars PROVE LeftInv'
    OBVIOUS
  <1>0. /\ drillCall \in [Drillers -> [op : DrillOps, id : Nat, stop : BOOLEAN]]
        /\ drillCrashes \in Nat /\ Len(kinds) \in Nat /\ kinds \in Seq(DrillTypes)
        /\ \A c \in Drillers : DrillOK(c) /\ drillCall[c].id \in 0 .. Len(kinds)
        /\ MarkerHeld
    BY DEF DrillsInv, DrillsTypeOK, LeftInv
  <1>1. ASSUME NEW c \in Drillers, NEW type \in DrillTypes, StartDrill(c, type) PROVE LeftInv'
    <2>1. \A id \in 1 .. Len(kinds) : kinds'[id] = kinds[id]
      BY <1>0, <1>1 DEF StartDrill
    <2>2. LeftFlags' \subseteq LeftFlags
      BY <1>0, <1>1, <2>1 DEF StartDrill, DrillOK, Injecting, DrillRunning, DrillGoes, DrillIdle, DrillOps, LeftFlags
    <2>3. MarkerHeld' /\ UNCHANGED drillCrashes
      BY <1>0, <1>1 DEF StartDrill, Injecting, DrillRunning, DrillGoes, DrillIdle, DrillOps, MarkerHeld
    <2> QED BY <2>2, <2>3, LeftKept
  <1>2. ASSUME NEW c \in Drillers, MarkActive(c) PROVE LeftInv'
    <2>1. LeftFlags' \subseteq LeftFlags
      BY <1>0, <1>2 DEF MarkActive, Injecting, DrillRunning, DrillGoes, DrillIdle, DrillOps, LeftFlags
    <2>2. MarkerHeld'
      <3>1. DrillRunning(c)' /\ drillCall'[c].id = activeDrill' /\ drillCall'[c].op = "inject"
        BY <1>0, <1>2 DEF MarkActive, DrillOK, DrillRunning, DrillGoes, DrillOps
      <3> QED BY <3>1 DEF MarkerHeld
    <2>3. UNCHANGED drillCrashes
      BY <1>2 DEF MarkActive
    <2> QED BY <2>1, <2>2, <2>3, LeftKept
  <1>3. ASSUME NEW c \in Drillers, Inject(c) PROVE LeftInv'
    <2>1. LeftFlags' \subseteq LeftFlags
      BY <1>0, <1>3 DEF Inject, DrillOK, Injecting, DrillRunning, DrillGoes, DrillIdle, DrillOps, LeftFlags
    <2>2. MarkerHeld'
      BY <1>0, <1>3 DEF Inject, Injecting, DrillRunning, DrillGoes, DrillIdle, DrillOps, MarkerHeld
    <2>3. UNCHANGED drillCrashes
      BY <1>3 DEF Inject
    <2> QED BY <2>1, <2>2, <2>3, LeftKept
  <1>4. ASSUME NEW c \in Drillers, \/ \E id \in DrillIds : StopDrill(c, id)
                                  \/ GetExecution(c) \/ StoreExecution(c)
        PROVE  LeftInv'
    <2>1. LeftFlags' \subseteq LeftFlags
      BY <1>0, <1>4 DEF StopDrill, GetExecution, StoreExecution, DrillOK, Injecting, DrillRunning, DrillGoes, DrillIdle, DrillOps, LeftFlags
    <2>2. MarkerHeld'
      BY <1>0, <1>4 DEF StopDrill, GetExecution, StoreExecution, DrillOK, Injecting, DrillRunning, DrillGoes, DrillIdle, DrillOps, MarkerHeld
    <2>3. UNCHANGED drillCrashes
      BY <1>4 DEF StopDrill, GetExecution, StoreExecution
    <2> QED BY <2>1, <2>2, <2>3, LeftKept
  <1>5. ASSUME NEW c \in Drillers, RemoveInjection(c) PROVE LeftInv'
    <2>1. LeftFlags' \subseteq LeftFlags
      BY <1>0, <1>5 DEF RemoveInjection, Injecting, DrillRunning, DrillGoes, DrillIdle, DrillOps, LeftFlags
    <2>2. MarkerHeld'
      BY <1>0, <1>5 DEF RemoveInjection, Injecting, DrillRunning, DrillGoes, DrillIdle, DrillOps, MarkerHeld
    <2>3. UNCHANGED drillCrashes
      BY <1>5 DEF RemoveInjection
    <2> QED BY <2>1, <2>2, <2>3, LeftKept
  <1>6. ASSUME NEW c \in Drillers, ClearActive(c) PROVE LeftInv'
    <2>1. LeftFlags' \subseteq LeftFlags
      BY <1>0, <1>6 DEF ClearActive, Injecting, DrillRunning, DrillGoes, DrillIdle, DrillOps, LeftFlags
    <2>2. MarkerHeld' /\ UNCHANGED drillCrashes
      BY <1>6 DEF ClearActive, MarkerHeld
    <2> QED BY <2>1, <2>2, LeftKept
  <1>7. ASSUME NEW c \in Drillers, DrillCrash(c) PROVE LeftInv'
    <2>1. LeftFlags' \subseteq LeftFlags \cup { kinds[drillCall[c].id] }
      BY <1>0, <1>7 DEF DrillCrash, Injecting, DrillRunning, DrillGoes, DrillIdle, DrillOps, LeftFlags
    <2>2. drillCrashes' = drillCrashes + 1
      BY <1>7 DEF DrillCrash
    <2> QED BY <2>1, <2>2, LeftByLoss
  <1>8. ASSUME ActiveExpires \/ \E type \in DrillTypes : InjectionExpires(type) PROVE LeftInv'
    <2>1. LeftFlags' \subseteq LeftFlags
      BY <1>8 DEF ActiveExpires, InjectionExpires, Injecting, DrillRunning, DrillGoes, DrillIdle, DrillOps, LeftFlags
    <2>2. MarkerHeld' /\ UNCHANGED drillCrashes
      BY <1>0, <1>8 DEF ActiveExpires, InjectionExpires, MarkerHeld, DrillRunning
    <2> QED BY <2>1, <2>2, LeftKept
  <1>9. CASE UNCHANGED drillsVars
    BY <1>9 DEF drillsVars, LeftInv, LeftFlags, Injecting, DrillRunning, MarkerHeld
  <1> QED BY <1>1, <1>2, <1>3, <1>4, <1>5, <1>6, <1>7, <1>8, <1>9 DEF DrillsNext

\* Drills may overlap, overwrite and delete each other's keys: what is left of them when they
\* have ended is what lost processes left, for any number of calls, types and losses.
THEOREM DrillsCleanUp == DrillsSpec => []NothingLeftBehind
  <1>1. LeftInv => NothingLeftBehind
    BY DEF LeftInv, LeftFlags, MarkerHeld, NothingLeftBehind
  <1> QED BY <1>1, DrillsInvInit, DrillsInvInductive, LeftInvInit, LeftInvInductive, PTL DEF DrillsSpec

-----------------------------------------------------------------------------
(* Signed backups. *)

BackupOps == { "idle", "get_key", "set_key", "sign", "data", "check", "mark", "delete", "delete_data" }
Manifests == [status : { "none", "verified", "corrupted" }, key : Nat]

\* A call that creates a backup has its id alone until the manifest is there; one
\* that deletes data has deleted the manifest; one that verifies has read the key
\* after the manifest, or found the data altered.
BackupOK(c) ==
    LET w == backupCall[c]
    IN  /\ w.id <= backups /\ w.key <= madeKeys /\ w.copy.key <= madeKeys
        /\ w.op # "idle" => w.id \in BackupIds
        /\ w.op \in { "get_key", "set_key", "sign" } /\ w.creates =>
            /\ manifests[w.id] = NoManifest
            /\ \A d \in BackupCalls : d # c => backupCall[d].id # w.id
        /\ w.op = "delete_data" => manifests[w.id].status # "verified"
        /\ w.op \in { "check", "mark" } => ~w.creates
        /\ w.op = "mark" => w.id \in altered
        /\ w.op = "sign" => w.copy.key <= w.key

BackupCallDocs == [op : BackupOps, id : Nat, creates : BOOLEAN, copy : Manifests, key : Nat]

BackupsTyped ==
    /\ signingKey = madeKeys /\ madeKeys \in Nat /\ backups \in 0 .. MaxBackups
    /\ manifests \in [BackupIds -> Manifests]
    /\ \A id \in BackupIds : manifests[id].key <= madeKeys /\ (id > backups => manifests[id] = NoManifest)
    /\ backupData \subseteq BackupIds /\ altered \subseteq BackupIds /\ gone \subseteq BackupIds
    /\ backupCall \in [BackupCalls -> BackupCallDocs]

BackupsInv == BackupsTyped /\ (\A c \in BackupCalls : BackupOK(c)) /\ ManifestsAreTrue

\* The invariant of the backups holds at the start.
LEMMA BackupsInvInit == BackupsInit => BackupsInv
  BY BackupsAssumption DEF BackupsInit, BackupsInv, BackupsTyped, BackupCallDocs, BackupIds, NoManifest, BackupIdle, Manifests,
     BackupOps, BackupOK, ManifestsAreTrue

\* No step of a backup or a restore breaks it.
LEMMA BackupsInvInductive == BackupsInv /\ [BackupsNext]_backupsVars => BackupsInv'
  <1> SUFFICES ASSUME BackupsInv, [BackupsNext]_backupsVars PROVE BackupsInv'
    OBVIOUS
  <1> USE BackupsAssumption DEF BackupsInv, BackupsTyped, BackupCallDocs, BackupIds, NoManifest, BackupIdle, Manifests,
          BackupOps, BackupOK, ManifestsAreTrue, BackupGoes, BackupBegins, BackupEnds, keyVars, storedVars, HasManifest
  <1>1. ASSUME NEW c \in BackupCalls, CreateBackup(c) PROVE BackupsInv'
    <2>1. BackupsTyped'
      <3>1. backupCall' \in [BackupCalls -> BackupCallDocs]
        BY <1>1 DEF CreateBackup
      <3>2. manifests' \in [BackupIds -> Manifests]
        BY <1>1 DEF CreateBackup
      <3> QED BY <1>1, <3>1, <3>2 DEF CreateBackup
    <2>2. ASSUME NEW d \in BackupCalls PROVE BackupOK(d)'
      BY <1>1 DEF CreateBackup
    <2>3. ManifestsAreTrue'
      BY <1>1 DEF CreateBackup
    <2> QED BY <2>1, <2>2, <2>3
  <1>2. ASSUME NEW c \in BackupCalls, GetSigningKey(c) PROVE BackupsInv'
    <2>1. BackupsTyped'
      <3>1. backupCall' \in [BackupCalls -> BackupCallDocs]
        BY <1>2 DEF GetSigningKey
      <3>2. manifests' \in [BackupIds -> Manifests]
        BY <1>2 DEF GetSigningKey
      <3> QED BY <1>2, <3>1, <3>2 DEF GetSigningKey
    <2>2. ASSUME NEW d \in BackupCalls PROVE BackupOK(d)'
      BY <1>2 DEF GetSigningKey
    <2>3. ManifestsAreTrue'
      BY <1>2 DEF GetSigningKey
    <2> QED BY <2>1, <2>2, <2>3
  <1>3. ASSUME NEW c \in BackupCalls, SetSigningKey(c) PROVE BackupsInv'
    <2>1. BackupsTyped'
      <3>1. backupCall' \in [BackupCalls -> BackupCallDocs]
        BY <1>3 DEF SetSigningKey
      <3>2. manifests' \in [BackupIds -> Manifests]
        BY <1>3 DEF SetSigningKey
      <3> QED BY <1>3, <3>1, <3>2 DEF SetSigningKey
    <2>2. ASSUME NEW d \in BackupCalls PROVE BackupOK(d)'
      BY <1>3 DEF SetSigningKey
    <2>3. ManifestsAreTrue'
      BY <1>3 DEF SetSigningKey
    <2> QED BY <2>1, <2>2, <2>3
  <1>4. ASSUME NEW c \in BackupCalls, StoreManifest(c) PROVE BackupsInv'
    <2>1. BackupsTyped'
      <3>1. backupCall' \in [BackupCalls -> BackupCallDocs]
        BY <1>4 DEF StoreManifest
      <3>2. manifests' \in [BackupIds -> Manifests]
        BY <1>4 DEF StoreManifest
      <3> QED BY <1>4, <3>1, <3>2 DEF StoreManifest
    <2>2. ASSUME NEW d \in BackupCalls PROVE BackupOK(d)'
      BY <1>4 DEF StoreManifest
    <2>3. ManifestsAreTrue'
      BY <1>4 DEF StoreManifest
    <2> QED BY <2>1, <2>2, <2>3
  <1>5. ASSUME NEW c \in BackupCalls, StoreData(c) PROVE BackupsInv'
    <2>0. backupCall[c].op # "idle" => backupCall[c].id \in BackupIds
      BY <1>5 DEF StoreData
    <2>1. BackupsTyped'
      <3>0. backupData' \subseteq BackupIds /\ gone' \subseteq BackupIds
        BY <1>5, <2>0 DEF StoreData
      <3>1. backupCall' \in [BackupCalls -> BackupCallDocs]
        BY <1>5 DEF StoreData
      <3>2. manifests' \in [BackupIds -> Manifests]
        BY <1>5 DEF StoreData
      <3> QED BY <1>5, <3>0, <3>1, <3>2 DEF StoreData
    <2>2. ASSUME NEW d \in BackupCalls PROVE BackupOK(d)'
      BY <1>5 DEF StoreData
    <2>3. ManifestsAreTrue'
      BY <1>5 DEF StoreData
    <2> QED BY <2>1, <2>2, <2>3
  <1>6. ASSUME NEW c \in BackupCalls, NEW id \in BackupIds, VerifyBackup(c, id) PROVE BackupsInv'
    <2>1. BackupsTyped'
      <3>1. backupCall' \in [BackupCalls -> BackupCallDocs]
        BY <1>6 DEF VerifyBackup
      <3>2. manifests' \in [BackupIds -> Manifests]
        BY <1>6 DEF VerifyBackup
      <3> QED BY <1>6, <3>1, <3>2 DEF VerifyBackup
    <2>2. ASSUME NEW d \in BackupCalls PROVE BackupOK(d)'
      BY <1>6 DEF VerifyBackup
    <2>3. ManifestsAreTrue'
      BY <1>6 DEF VerifyBackup
    <2> QED BY <2>1, <2>2, <2>3
  <1>7. ASSUME NEW c \in BackupCalls, CheckData(c) PROVE BackupsInv'
    <2>0. backupCall[c].op = "check" /\ UNCHANGED << keyVars, storedVars, backups, gone >>
      BY <1>7 DEF CheckData
    <2>1. CASE BackupGoes(c, "get_key", 0)
      <3>1. BackupsTyped'
        BY <2>0, <2>1
      <3>2. ASSUME NEW d \in BackupCalls PROVE BackupOK(d)'
        BY <2>0, <2>1
      <3>3. ManifestsAreTrue'
        BY <2>0, <2>1
      <3> QED BY <3>1, <3>2, <3>3
    <2>2. CASE BackupEnds(c)
      <3>1. BackupsTyped'
        BY <2>0, <2>2
      <3>2. ASSUME NEW d \in BackupCalls PROVE BackupOK(d)'
        BY <2>0, <2>2
      <3>3. ManifestsAreTrue'
        BY <2>0, <2>2
      <3> QED BY <3>1, <3>2, <3>3
    <2>3. CASE BackupGoes(c, "mark", 0) /\ backupCall[c].id \in altered
      <3>1. BackupsTyped'
        BY <2>0, <2>3
      <3>2. ASSUME NEW d \in BackupCalls PROVE BackupOK(d)'
        BY <2>0, <2>3
      <3>3. ManifestsAreTrue'
        BY <2>0, <2>3
      <3> QED BY <3>1, <3>2, <3>3
    <2> QED BY <1>7, <2>1, <2>2, <2>3 DEF CheckData
  <1>8. ASSUME NEW c \in BackupCalls, VerifySignature(c) PROVE BackupsInv'
    <2>1. BackupsTyped'
      <3>1. backupCall' \in [BackupCalls -> BackupCallDocs]
        BY <1>8 DEF VerifySignature
      <3>2. manifests' \in [BackupIds -> Manifests]
        <4> DEFINE m == [status |-> "corrupted", key |-> backupCall[c].copy.key]
        <4>1. m \in Manifests
          BY <1>8 DEF VerifySignature
        <4>2. \/ manifests' = manifests
              \/ manifests' = [manifests EXCEPT ![backupCall[c].id] = m]
          BY <1>8 DEF VerifySignature
        <4> HIDE DEF m, Manifests
        <4> QED BY <4>1, <4>2
      <3> QED BY <1>8, <3>1, <3>2 DEF VerifySignature
    <2>2. ASSUME NEW d \in BackupCalls PROVE BackupOK(d)'
      BY <1>8 DEF VerifySignature
    <2>3. ManifestsAreTrue'
      BY <1>8 DEF VerifySignature
    <2> QED BY <2>1, <2>2, <2>3
  <1>9. ASSUME NEW c \in BackupCalls, NEW id \in BackupIds, DeleteBackup(c, id) PROVE BackupsInv'
    <2>1. BackupsTyped'
      <3>1. backupCall' \in [BackupCalls -> BackupCallDocs]
        BY <1>9 DEF DeleteBackup
      <3>2. manifests' \in [BackupIds -> Manifests]
        BY <1>9 DEF DeleteBackup
      <3> QED BY <1>9, <3>1, <3>2 DEF DeleteBackup
    <2>2. ASSUME NEW d \in BackupCalls PROVE BackupOK(d)'
      BY <1>9 DEF DeleteBackup
    <2>3. ManifestsAreTrue'
      BY <1>9 DEF DeleteBackup
    <2> QED BY <2>1, <2>2, <2>3
  <1>10. ASSUME NEW c \in BackupCalls, DeleteManifest(c) PROVE BackupsInv'
    <2>1. BackupsTyped'
      <3>1. backupCall' \in [BackupCalls -> BackupCallDocs]
        BY <1>10 DEF DeleteManifest
      <3>2. manifests' \in [BackupIds -> Manifests]
        BY <1>10 DEF DeleteManifest
      <3> QED BY <1>10, <3>1, <3>2 DEF DeleteManifest
    <2>2. ASSUME NEW d \in BackupCalls PROVE BackupOK(d)'
      BY <1>10 DEF DeleteManifest
    <2>3. ManifestsAreTrue'
      BY <1>10 DEF DeleteManifest
    <2> QED BY <2>1, <2>2, <2>3
  <1>11. ASSUME NEW c \in BackupCalls, DeleteData(c) PROVE BackupsInv'
    <2>1. BackupsTyped'
      <3>1. backupCall' \in [BackupCalls -> BackupCallDocs]
        BY <1>11 DEF DeleteData
      <3>2. manifests' \in [BackupIds -> Manifests]
        BY <1>11 DEF DeleteData
      <3> QED BY <1>11, <3>1, <3>2 DEF DeleteData
    <2>2. ASSUME NEW d \in BackupCalls PROVE BackupOK(d)'
      BY <1>11 DEF DeleteData
    <2>3. ManifestsAreTrue'
      BY <1>11 DEF DeleteData
    <2> QED BY <2>1, <2>2, <2>3
  <1>12. ASSUME NEW c \in BackupCalls, BackupCrash(c) PROVE BackupsInv'
    <2>0. backupCall[c].op # "idle" => backupCall[c].id \in BackupIds
      BY <1>12 DEF BackupCrash
    <2>1. BackupsTyped'
      <3>0. backupData' \subseteq BackupIds /\ gone' \subseteq BackupIds
        BY <1>12, <2>0 DEF BackupCrash
      <3>1. backupCall' \in [BackupCalls -> BackupCallDocs]
        BY <1>12 DEF BackupCrash
      <3>2. manifests' \in [BackupIds -> Manifests]
        BY <1>12 DEF BackupCrash
      <3> QED BY <1>12, <3>0, <3>1, <3>2 DEF BackupCrash
    <2>2. ASSUME NEW d \in BackupCalls PROVE BackupOK(d)'
      BY <1>12 DEF BackupCrash
    <2>3. ManifestsAreTrue'
      BY <1>12 DEF BackupCrash
    <2> QED BY <2>1, <2>2, <2>3
  <1>13. ASSUME NEW id \in BackupIds, DataExpires(id) PROVE BackupsInv'
    <2>1. BackupsTyped'
      <3>1. backupCall' \in [BackupCalls -> BackupCallDocs]
        BY <1>13 DEF DataExpires
      <3>2. manifests' \in [BackupIds -> Manifests]
        BY <1>13 DEF DataExpires
      <3> QED BY <1>13, <3>1, <3>2 DEF DataExpires
    <2>2. ASSUME NEW d \in BackupCalls PROVE BackupOK(d)'
      BY <1>13 DEF DataExpires
    <2>3. ManifestsAreTrue'
      BY <1>13 DEF DataExpires
    <2> QED BY <2>1, <2>2, <2>3
  <1>14. ASSUME NEW c \in BackupCalls, ChecksumDiffers(c) PROVE BackupsInv'
    <2>1. BackupsTyped'
      <3>1. backupCall' \in [BackupCalls -> BackupCallDocs]
        BY <1>14 DEF ChecksumDiffers
      <3>2. manifests' \in [BackupIds -> Manifests]
        <4> DEFINE m == [status |-> "corrupted", key |-> backupCall[c].copy.key]
        <4>1. m \in Manifests
          BY <1>14 DEF ChecksumDiffers
        <4>2. manifests' = [manifests EXCEPT ![backupCall[c].id] = m]
          BY <1>14 DEF ChecksumDiffers
        <4> HIDE DEF m, Manifests
        <4> QED BY <4>1, <4>2
      <3> QED BY <1>14, <3>1, <3>2 DEF ChecksumDiffers
    <2>2. ASSUME NEW d \in BackupCalls PROVE BackupOK(d)'
      BY <1>14 DEF ChecksumDiffers
    <2>3. ManifestsAreTrue'
      BY <1>14 DEF ChecksumDiffers
    <2> QED BY <2>1, <2>2, <2>3
  <1>15. ASSUME NEW id \in BackupIds, DataAltered(id) PROVE BackupsInv'
    <2>1. BackupsTyped'
      <3>1. altered' \subseteq BackupIds
        BY <1>15 DEF DataAltered
      <3> QED BY <1>15, <3>1 DEF DataAltered
    <2>2. ASSUME NEW d \in BackupCalls PROVE BackupOK(d)'
      BY <1>15 DEF DataAltered
    <2>3. ManifestsAreTrue'
      BY <1>15 DEF DataAltered
    <2> QED BY <2>1, <2>2, <2>3
  <1>16. CASE UNCHANGED backupsVars
    BY <1>16 DEF backupsVars
  <1> QED BY <1>1, <1>2, <1>3, <1>4, <1>5, <1>6, <1>7, <1>8, <1>9, <1>10, <1>11, <1>12, <1>13, <1>14, <1>15, <1>16
      DEF BackupsNext

\* A manifest that says verified has its data or lost it by age or with a process,
\* one that says corrupted has altered data or is signed with a key that was replaced.
THEOREM ManifestsStayTrue == BackupsSpec => []ManifestsAreTrue
  <1>1. BackupsInv => ManifestsAreTrue
    BY DEF BackupsInv
  <1> QED BY <1>1, BackupsInvInit, BackupsInvInductive, PTL DEF BackupsSpec

\* The types of manifests, data and keys: no copy of a key is newer than those made.
THEOREM BackupsTypes == BackupsSpec => []BackupsTypeOK
  <1>1. BackupsInv => BackupsTypeOK
    <2> SUFFICES ASSUME BackupsInv
                 PROVE  BackupsTypeOK
      OBVIOUS
    <2>1. madeKeys \in Nat /\ signingKey = madeKeys /\ backups \in 0 .. MaxBackups
      BY DEF BackupsInv, BackupsTyped
    <2>2. \A id \in BackupIds : manifests[id] \in [status : { "none", "verified", "corrupted" }, key : 0 .. madeKeys]
      BY <2>1 DEF BackupsInv, BackupsTyped, Manifests
    <2>3. \A c \in BackupCalls : backupCall[c].id \in 0 .. backups /\ backupCall[c].key \in 0 .. madeKeys
      BY <2>1, BackupsAssumption DEF BackupsInv, BackupsTyped, BackupOK, BackupCallDocs
    <2> QED BY <2>1, <2>2, <2>3 DEF BackupsInv, BackupsTyped, BackupsTypeOK
  <1> QED BY <1>1, BackupsInvInit, BackupsInvInductive, PTL DEF BackupsSpec

-----------------------------------------------------------------------------
(* Deployments. *)

Member(p, history) == \E e \in history : e.plan = p

\* A plan as it is stored, now or later: its checks ran, their outcome is its
\* status, and an approval is one of a pending member of the history.
StoredPlanOK(p, history) ==
    /\ p \in PlanDocs /\ p.status \in { "pending", "rejected", "approved" }
    /\ p.clean <=> p.status # "rejected"
    /\ p.status = "approved" => Member([p EXCEPT !.status = "pending"], history)

\* The members are numbered as they were stored; an approval comes after its plan.
HistoryOK(history) ==
    /\ IsFiniteSet(history)
    /\ \A e \in history :
        /\ StoredPlanOK(e.plan, history)
        /\ e.nth \in Nat /\ e.nth <= Cardinality(history)
        /\ e.plan.status = "approved" =>
                \E d \in history : d.plan = [e.plan EXCEPT !.status = "pending"] /\ d.nth < e.nth

DeploymentsInv ==
    /\ DeploymentsTypeOK /\ HistoryOK(planHistory)
    /\ currentPlan = NoPlan \/ Member(currentPlan, planHistory)
    /\ \A c \in Deployers :
        /\ deployCall[c].op \in { "store", "set_current" } => StoredPlanOK(deployCall[c].plan, planHistory)
        /\ deployCall[c].op = "set_current" => Member(deployCall[c].plan, planHistory)

DeployCalls == [op : { "idle", "checking", "store", "set_current" }, check : DOMAIN CheckOrder, plan : PlanDocs]

\* A deployment call that does nothing, and the plan that is not there.
LEMMA DeployIdleTyped == NoPlan \in PlanDocs /\ DeployIdle \in DeployCalls /\ DeployIdle.op = "idle"
  BY DeploymentsAssumption DEF NoPlan, DeployIdle, PlanDocs, DeployCalls, CheckOrder

\* A member with the next number keeps the history in order.
LEMMA HistoryGrows ==
  ASSUME NEW history, HistoryOK(history), NEW p, StoredPlanOK(p, history)
  PROVE  HistoryOK(history \cup { [plan |-> p, nth |-> Cardinality(history) + 1] })
  <1> DEFINE new == [plan |-> p, nth |-> Cardinality(history) + 1]
             later == history \cup { new }
  <1>1. Cardinality(history) \in Nat /\ IsFiniteSet(history)
    BY FS_CardinalityType DEF HistoryOK
  <1>2. new \notin history
    <2>1. \A e \in history : e.nth <= Cardinality(history)
      BY DEF HistoryOK
    <2>2. new.nth = Cardinality(history) + 1 /\ ~(new.nth <= Cardinality(history))
      BY <1>1
    <2> HIDE DEF new
    <2> QED BY <2>1, <2>2
  <1>3. IsFiniteSet(later) /\ Cardinality(later) = Cardinality(history) + 1
    BY <1>1, <1>2, FS_AddElement
  <1>4. new.plan = p /\ new.nth = Cardinality(history) + 1
    OBVIOUS
  <1> HIDE DEF new
  <1>5. ASSUME NEW q, StoredPlanOK(q, history) PROVE StoredPlanOK(q, later)
    BY <1>5 DEF StoredPlanOK, Member
  <1>6. ASSUME NEW e \in later
        PROVE  /\ StoredPlanOK(e.plan, later) /\ e.nth \in Nat /\ e.nth <= Cardinality(later)
               /\ e.plan.status = "approved" =>
                     \E d \in later : d.plan = [e.plan EXCEPT !.status = "pending"] /\ d.nth < e.nth
    <2>1. CASE e \in history
      <3>1. /\ StoredPlanOK(e.plan, history) /\ e.nth \in Nat /\ e.nth <= Cardinality(history)
            /\ e.plan.status = "approved" =>
                  \E d \in history : d.plan = [e.plan EXCEPT !.status = "pending"] /\ d.nth < e.nth
        BY <2>1 DEF HistoryOK
      <3>2. StoredPlanOK(e.plan, later)
        BY <1>5, <3>1
      <3>3. e.nth <= Cardinality(later)
        BY <1>1, <1>3, <3>1
      <3> QED BY <3>1, <3>2, <3>3
    <2>2. CASE e = new
      <3>1. ASSUME p.status = "approved"
            PROVE  \E d \in later : d.plan = [p EXCEPT !.status = "pending"] /\ d.nth < new.nth
        <4>1. PICK d \in history : d.plan = [p EXCEPT !.status = "pending"]
          BY <3>1 DEF StoredPlanOK, Member
        <4>2. d.nth \in Nat /\ d.nth <= Cardinality(history) /\ d \in later
          BY DEF HistoryOK
        <4>3. d.nth < new.nth
          BY <1>1, <1>4, <4>2
        <4> QED BY <4>1, <4>2, <4>3
      <3>2. StoredPlanOK(p, later)
        BY <1>5
      <3>3. new.nth \in Nat /\ new.nth <= Cardinality(later)
        BY <1>1, <1>3, <1>4
      <3> QED BY <1>4, <2>2, <3>1, <3>2, <3>3
    <2> QED BY <2>1, <2>2
  <1> QED BY <1>3, <1>6 DEF HistoryOK, new

\* A step in which one call goes on and the history does not shrink.
LEMMA DeployStepKeeps ==
  ASSUME DeploymentsInv, NEW c \in Deployers, NEW w \in DeployCalls, DeployGoes(c, w),
         w.op \in { "store", "set_current" } => StoredPlanOK(w.plan, planHistory'),
         w.op = "set_current" => Member(w.plan, planHistory'),
         planHistory \subseteq planHistory', HistoryOK(planHistory'),
         currentPlan' \in PlanDocs, currentPlan' = NoPlan \/ Member(currentPlan', planHistory'),
         plans' \in 0 .. MaxPlans
  PROVE  DeploymentsInv'
  <1>1. ASSUME NEW p
        PROVE  /\ StoredPlanOK(p, planHistory) => StoredPlanOK(p, planHistory')
               /\ Member(p, planHistory) => Member(p, planHistory')
    BY DEF StoredPlanOK, Member
  <1>2. deployCall' = [deployCall EXCEPT ![c] = w] /\ deployCall \in [Deployers -> DeployCalls]
    BY DEF DeployGoes, DeploymentsInv, DeploymentsTypeOK, DeployCalls
  <1>3. ASSUME NEW d \in Deployers
        PROVE  /\ deployCall'[d].op \in { "store", "set_current" } => StoredPlanOK(deployCall'[d].plan, planHistory')
               /\ deployCall'[d].op = "set_current" => Member(deployCall'[d].plan, planHistory')
    <2>1. CASE d = c
      BY <1>2, <2>1
    <2>2. CASE d # c
      <3>1. deployCall'[d] = deployCall[d]
        BY <1>2, <2>2
      <3> QED BY <1>1, <3>1 DEF DeploymentsInv
    <2> QED BY <2>1, <2>2
  <1>4. DeploymentsTypeOK'
    <2>1. \A e \in planHistory' : e.plan \in PlanDocs /\ e.nth \in Nat
      BY DEF HistoryOK, StoredPlanOK
    <2> QED BY <1>2, <2>1 DEF DeploymentsTypeOK, DeployCalls
  <1> QED BY <1>3, <1>4 DEF DeploymentsInv

\* The invariant of the deployments holds at the start.
LEMMA DeploymentsInvInit == DeploymentsInit => DeploymentsInv
  <1> SUFFICES ASSUME DeploymentsInit PROVE DeploymentsInv
    OBVIOUS
  <1>1. HistoryOK(planHistory)
    BY FS_EmptySet DEF DeploymentsInit, HistoryOK
  <1> QED BY <1>1, DeployIdleTyped, DeploymentsAssumption
          DEF DeploymentsInit, DeploymentsInv, DeploymentsTypeOK, DeployCalls

\* No step of a deployment breaks it.
LEMMA DeploymentsInvInductive == DeploymentsInv /\ [DeploymentsNext]_deploymentsVars => DeploymentsInv'
  <1> SUFFICES ASSUME DeploymentsInv, [DeploymentsNext]_deploymentsVars PROVE DeploymentsInv'
    OBVIOUS
  <1>0. /\ currentPlan \in PlanDocs /\ plans \in 0 .. MaxPlans /\ HistoryOK(planHistory)
        /\ currentPlan = NoPlan \/ Member(currentPlan, planHistory)
        /\ deployCall \in [Deployers -> DeployCalls]
        /\ MaxPlans \in Nat
    BY DeploymentsAssumption DEF DeploymentsInv, DeploymentsTypeOK, DeployCalls
  <1>1. ASSUME NEW c \in Deployers, CreatePlan(c) PROVE DeploymentsInv'
    <2> DEFINE p == [NoPlan EXCEPT !.id = plans + 1]
               w == [op |-> "checking", check |-> 1, plan |-> p]
    <2>1. plans + 1 \in 0 .. MaxPlans
      BY <1>0, <1>1 DEF CreatePlan
    <2>2. w \in DeployCalls /\ w.op = "checking"
      <3>1. p \in PlanDocs
        BY <2>1 DEF PlanDocs, NoPlan
      <3> HIDE DEF p
      <3> QED BY <3>1 DEF DeployCalls, CheckOrder
    <2>3. DeployGoes(c, w) /\ UNCHANGED << planHistory, currentPlan >> /\ plans' = plans + 1
      BY <1>1 DEF CreatePlan
    <2> HIDE DEF w
    <2> QED BY <1>0, <2>1, <2>2, <2>3, DeployStepKeeps
  <1>2. ASSUME NEW c \in Deployers, NEW found \in { "failed", "warning", "passed" }, RunCheck(c, found)
        PROVE  DeploymentsInv'
    <2> DEFINE w == deployCall[c]
               clean == w.plan.clean /\ found # "failed"
               next == [op |-> "checking", check |-> w.check + 1,
                        plan |-> [id |-> w.plan.id, status |-> w.plan.status, clean |-> clean]]
               done == [op |-> "store", check |-> 1,
                        plan |-> [id |-> w.plan.id, status |-> IF clean THEN "pending" ELSE "rejected",
                                  clean |-> clean]]
    <2>1. w \in DeployCalls /\ w.op = "checking" /\ UNCHANGED << planHistory, currentPlan, plans >>
      BY <1>0, <1>2 DEF RunCheck
    <2>2. Len(CheckOrder) = 7 /\ DOMAIN CheckOrder = 1 .. 7
      BY DEF CheckOrder
    <2>3. CASE w.check = 7
      <3>1. DeployGoes(c, done)
        BY <1>2, <2>1, <2>2, <2>3 DEF RunCheck, DeployIdle, DeployCalls, PlanDocs
      <3>2. done \in DeployCalls /\ done.op = "store" /\ StoredPlanOK(done.plan, planHistory)
        <4>1. clean \in BOOLEAN /\ w.plan.id \in 0 .. MaxPlans
          BY <2>1 DEF DeployCalls, PlanDocs
        <4> HIDE DEF clean
        <4> QED BY <2>2, <4>1 DEF DeployCalls, PlanDocs, StoredPlanOK
      <3> HIDE DEF done
      <3>3. StoredPlanOK(done.plan, planHistory')
        BY <2>1, <3>2 DEF StoredPlanOK
      <3> QED BY <1>0, <2>1, <3>1, <3>2, <3>3, DeployStepKeeps
    <2>4. CASE w.check # 7
      <3>1. DeployGoes(c, next)
        BY <1>2, <2>1, <2>2, <2>4 DEF RunCheck, DeployCalls, PlanDocs
      <3>2. next \in DeployCalls /\ next.op = "checking"
        BY <2>1, <2>2, <2>4 DEF DeployCalls, PlanDocs
      <3> HIDE DEF next
      <3> QED BY <1>0, <2>1, <3>1, <3>2, DeployStepKeeps
    <2> QED BY <2>3, <2>4
  <1>3. ASSUME NEW c \in Deployers, StorePlan(c) PROVE DeploymentsInv'
    <2> DEFINE w == deployCall[c]
               new == [plan |-> w.plan, nth |-> Cardinality(planHistory) + 1]
               next == [op |-> "set_current", check |-> w.check, plan |-> w.plan]
    <2>1. w \in DeployCalls /\ w.op = "store" /\ StoredPlanOK(w.plan, planHistory)
      BY <1>0, <1>3 DEF StorePlan, DeploymentsInv
    <2>2. planHistory' = planHistory \cup { new } /\ UNCHANGED << currentPlan, plans >>
          /\ DeployGoes(c, next)
      BY <1>3, <2>1 DEF StorePlan, DeployCalls
    <2>3. next \in DeployCalls /\ next.plan = w.plan
      BY <2>1 DEF DeployCalls
    <2>4. HistoryOK(planHistory \cup { new })
      BY <1>0, <2>1, HistoryGrows
    <2>5. StoredPlanOK(w.plan, planHistory') /\ Member(w.plan, planHistory')
      <3>1. new \in planHistory' /\ new.plan = w.plan
        BY <2>2
      <3> HIDE DEF new
      <3> QED BY <2>1, <2>2, <3>1 DEF StoredPlanOK, Member
    <2>6. currentPlan' = NoPlan \/ Member(currentPlan', planHistory')
      BY <1>0, <2>2 DEF Member
    <2> HIDE DEF new, next
    <2>7. HistoryOK(planHistory')
      BY <2>2, <2>4
    <2> QED BY <1>0, <2>2, <2>3, <2>5, <2>6, <2>7, DeployStepKeeps
  <1>4. ASSUME NEW c \in Deployers, SetCurrent(c) PROVE DeploymentsInv'
    <2>1. currentPlan' \in PlanDocs /\ Member(currentPlan', planHistory) /\ UNCHANGED planHistory
      BY <1>0, <1>4 DEF SetCurrent, DeployCalls, DeploymentsInv
    <2> QED BY <1>0, <1>4, <2>1, DeployIdleTyped, DeployStepKeeps DEF SetCurrent
  <1>5. ASSUME NEW c \in Deployers, NEW id \in PlanIds, ApproveDeployment(c, id) PROVE DeploymentsInv'
    <2>1. PICK plan \in GetPlan(id) :
            /\ plan.status = "pending"
            /\ DeployGoes(c, [DeployIdle EXCEPT !.op = "store", !.plan = [plan EXCEPT !.status = "approved"]])
      BY <1>5 DEF ApproveDeployment
    <2>2. PICK e \in planHistory : e.plan = plan
      BY DEF GetPlan
    <2> DEFINE p == [id |-> plan.id, status |-> "approved", clean |-> plan.clean]
               w == [op |-> "store", check |-> 1, plan |-> p]
    <2>3. StoredPlanOK(plan, planHistory)
      BY <1>0, <2>2 DEF HistoryOK
    <2>4. DeployGoes(c, w)
      <3>1. [plan EXCEPT !.status = "approved"] = p
        BY <2>3 DEF StoredPlanOK, PlanDocs
      <3> HIDE DEF p
      <3>2. [DeployIdle EXCEPT !.op = "store", !.plan = p] = w
        <4>1. [DeployIdle EXCEPT !.op = "store"] = [op |-> "store", check |-> 1, plan |-> NoPlan]
          BY DEF DeployIdle
        <4>2. [[DeployIdle EXCEPT !.op = "store"] EXCEPT !.plan = p] = [DeployIdle EXCEPT !.op = "store", !.plan = p]
          OBVIOUS
        <4>3. [[op |-> "store", check |-> 1, plan |-> NoPlan] EXCEPT !.plan = p] = w
          OBVIOUS
        <4> HIDE DEF w
        <4> QED BY <4>1, <4>2, <4>3
      <3> HIDE DEF w
      <3> QED BY <2>1, <3>1, <3>2
    <2>5. UNCHANGED << planHistory, currentPlan, plans >>
      BY <1>5 DEF ApproveDeployment
    <2>6. p \in PlanDocs /\ p.clean /\ p.status = "approved" /\ p.id = plan.id
      BY <2>1, <2>3 DEF StoredPlanOK, PlanDocs
    <2> HIDE DEF p
    <2>7. StoredPlanOK(p, planHistory')
      <3>1. [p EXCEPT !.status = "pending"] = plan
        BY <2>1, <2>3 DEF p, StoredPlanOK, PlanDocs
      <3> QED BY <2>2, <2>5, <2>6, <3>1 DEF StoredPlanOK, Member
    <2>8. w \in DeployCalls /\ w.plan = p /\ w.op = "store"
      BY <2>6 DEF DeployCalls, CheckOrder
    <2> HIDE DEF w
    <2>9. HistoryOK(planHistory') /\ (currentPlan' = NoPlan \/ Member(currentPlan', planHistory'))
      BY <1>0, <2>5
    <2> QED BY <1>0, <2>4, <2>5, <2>7, <2>8, <2>9, DeployStepKeeps
  <1>6. CASE CurrentExpires
    BY <1>6, DeployIdleTyped DEF CurrentExpires, DeploymentsInv, DeploymentsTypeOK
  <1>7. CASE UNCHANGED deploymentsVars
    BY <1>7 DEF deploymentsVars, DeploymentsInv, DeploymentsTypeOK
  <1> QED BY <1>1, <1>2, <1>3, <1>4, <1>5, <1>6, <1>7 DEF DeploymentsNext

\* The types of plans, of the history and of the calls that check a plan.
THEOREM DeploymentsTypes == DeploymentsSpec => []DeploymentsTypeOK
  <1>1. DeploymentsInv => DeploymentsTypeOK
    BY DEF DeploymentsInv
  <1> QED BY <1>1, DeploymentsInvInit, DeploymentsInvInductive, PTL DEF DeploymentsSpec

\* Whatever calls overlap: an approved plan passed its checks and was pending before, in the
\* history and as the current plan (deployment_safety.py, _store_plan and approve_deployment).
THEOREM ApprovalsFollowChecks == DeploymentsSpec => []ApprovedPlansPassed
  <1>1. DeploymentsInv => ApprovedPlansPassed
    <2> SUFFICES ASSUME DeploymentsInv,
                        NEW p \in { e.plan : e \in planHistory } \cup { currentPlan }, p.status = "approved"
                 PROVE  /\ p.clean
                        /\ \E e, f \in planHistory :
                              /\ e.plan = [p EXCEPT !.status = "pending"] /\ f.plan = p
                              /\ e.nth < f.nth
      BY DEF ApprovedPlansPassed
    <2>1. PICK f \in planHistory : f.plan = p
      BY DEF DeploymentsInv, NoPlan, Member
    <2>2. /\ StoredPlanOK(p, planHistory)
          /\ \E e \in planHistory : e.plan = [p EXCEPT !.status = "pending"] /\ e.nth < f.nth
      BY <2>1 DEF DeploymentsInv, HistoryOK
    <2> QED BY <2>1, <2>2 DEF StoredPlanOK
  <1> QED BY <1>1, DeploymentsInvInit, DeploymentsInvInductive, PTL DEF DeploymentsSpec

-----------------------------------------------------------------------------
(* Failed jobs. *)

JobCallDocs == [op : { "idle", "retry", "push", "cancel" }, copy : JobDocs]

\* A job, in Redis or in a copy, has can_retry only below max_retries.
JobOK(j) == j \in JobDocs /\ (j.canRetry => j.retries < MaxRetries)

JobsInv ==
    /\ JobOK(job) /\ retryQueue \in Nat /\ records \in 0 .. MaxRecords /\ cancels \in 0 .. MaxCancels
    /\ jobCall \in [JobCalls -> JobCallDocs]
    /\ \A c \in JobCalls : JobOK(jobCall[c].copy)

\* The job that is not there may not be retried.
LEMMA NoJobOK == JobOK(NoJob) /\ JobIdle \in JobCallDocs /\ JobIdle.copy = NoJob
  <1>1. NoJob \in JobDocs /\ ~NoJob.canRetry
    BY JobsAssumption DEF NoJob, JobDocs, JobStatuses
  <1> HIDE DEF NoJob
  <1> QED BY <1>1 DEF JobOK, JobIdle, JobCallDocs

\* A job may be retried exactly as long as it has retries left.
LEMMA JobWithCount ==
  ASSUME NEW s \in JobStatuses, NEW n \in 0 .. MaxRetries
  PROVE  JobOK([status |-> s, retries |-> n, canRetry |-> n < MaxRetries])
  <1> DEFINE can == n < MaxRetries
  <1>1. can \in BOOLEAN
    OBVIOUS
  <1> HIDE DEF can
  <1>2. /\ [status |-> s, retries |-> n, canRetry |-> can] \in JobDocs
        /\ [status |-> s, retries |-> n, canRetry |-> can].canRetry = can
        /\ [status |-> s, retries |-> n, canRetry |-> can].retries = n
    BY <1>1 DEF JobDocs
  <1>3. JobOK([status |-> s, retries |-> n, canRetry |-> can])
    <2> DEFINE j == [status |-> s, retries |-> n, canRetry |-> can]
    <2>1. j \in JobDocs /\ j.canRetry = can /\ j.retries = n
      BY <1>2
    <2> HIDE DEF j
    <2>2. JobOK(j)
      BY <2>1 DEF JobOK, can
    <2> QED BY <2>2 DEF j
  <1> QED BY <1>3 DEF can

\* The invariant of the jobs holds at the start.
LEMMA JobsInvInit == JobsInit => JobsInv
  BY NoJobOK, JobsAssumption DEF JobsInit, JobsInv

\* A call that goes on with a job in order keeps the invariant.
LEMMA JobStepKeeps ==
  ASSUME JobsInv, NEW c \in JobCalls, NEW w \in JobCallDocs, JobOK(w.copy), JobGoes(c, w),
         JobOK(job'), retryQueue' \in Nat, records' = records, cancels' \in 0 .. MaxCancels
  PROVE  JobsInv'
  <1>1. jobCall' = [jobCall EXCEPT ![c] = w] /\ jobCall \in [JobCalls -> JobCallDocs]
    BY DEF JobGoes, JobsInv
  <1>2. ASSUME NEW d \in JobCalls PROVE JobOK(jobCall'[d].copy)
    BY <1>1 DEF JobsInv
  <1> QED BY <1>1, <1>2 DEF JobsInv

\* No step of a call, a cancel or a retry breaks it.
LEMMA JobsInvInductive == JobsInv /\ [JobsNext]_jobsVars => JobsInv'
  <1> SUFFICES ASSUME JobsInv, [JobsNext]_jobsVars PROVE JobsInv'
    OBVIOUS
  <1>0. /\ JobOK(job) /\ retryQueue \in Nat /\ cancels \in 0 .. MaxCancels /\ MaxRetries \in Nat
        /\ \A c \in JobCalls : jobCall[c] \in JobCallDocs /\ JobOK(jobCall[c].copy)
    BY JobsAssumption DEF JobsInv
  <1>1. ASSUME NEW n \in 0 .. MaxRetries, RecordFailedJob(n) PROVE JobsInv'
    <2>1. JobOK(job')
      BY <1>1, JobWithCount DEF RecordFailedJob, JobStatuses
    <2> QED BY <1>1, <2>1, JobsAssumption DEF RecordFailedJob, JobsInv
  <1>2. ASSUME NEW c \in JobCalls, ReadToRetry(c) PROVE JobsInv'
    <2> DEFINE w == [op |-> "retry", copy |-> Retried(job)]
    <2>1. JobOK(Retried(job))
      <3>1. job.retries + 1 \in 0 .. MaxRetries
        BY <1>0, <1>2 DEF ReadToRetry, JobOK, JobDocs
      <3> QED BY <3>1, JobWithCount DEF Retried, JobStatuses
    <2>2. w \in JobCallDocs /\ w.copy = Retried(job)
      BY <2>1 DEF JobCallDocs, JobOK
    <2>3. JobGoes(c, w) /\ UNCHANGED << job, retryQueue, records, cancels >>
      BY <1>2 DEF ReadToRetry
    <2> HIDE DEF w
    <2> QED BY <1>0, <2>1, <2>2, <2>3, JobStepKeeps
  <1>3. ASSUME NEW c \in JobCalls, SetRetrying(c) PROVE JobsInv'
    <2> DEFINE w == [op |-> "push", copy |-> NoJob]
    <2>1. w \in JobCallDocs /\ w.copy = NoJob
      BY NoJobOK DEF JobCallDocs, JobOK
    <2>2. JobGoes(c, w) /\ job' = jobCall[c].copy /\ UNCHANGED << retryQueue, records, cancels >>
      BY <1>3 DEF SetRetrying
    <2> HIDE DEF w
    <2> QED BY <1>0, <2>1, <2>2, NoJobOK, JobStepKeeps
  <1>4. ASSUME NEW c \in JobCalls, NEW ok \in BOOLEAN, QueueRetry(c, ok) PROVE JobsInv'
    BY <1>0, <1>4, NoJobOK, JobStepKeeps DEF QueueRetry
  <1>5. ASSUME NEW c \in JobCalls, ReadToCancel(c) PROVE JobsInv'
    <2> DEFINE j == [job EXCEPT !.status = "cancelled", !.canRetry = FALSE]
               w == [op |-> "cancel", copy |-> j]
    <2>1. JobOK(j)
      BY <1>0 DEF JobOK, JobDocs, JobStatuses
    <2>2. JobGoes(c, w) /\ UNCHANGED << job, retryQueue, records >> /\ cancels' \in 0 .. MaxCancels
      BY <1>0, <1>5, JobsAssumption DEF ReadToCancel
    <2> HIDE DEF j
    <2>3. w \in JobCallDocs /\ w.copy = j
      BY <2>1 DEF JobCallDocs, JobOK
    <2> HIDE DEF w
    <2> QED BY <1>0, <2>1, <2>2, <2>3, JobStepKeeps
  <1>6. ASSUME NEW c \in JobCalls, SetCancelledJob(c) PROVE JobsInv'
    BY <1>0, <1>6, NoJobOK, JobStepKeeps DEF SetCancelledJob
  <1>7. CASE UNCHANGED jobsVars
    BY <1>7 DEF jobsVars, JobsInv
  <1> QED BY <1>1, <1>2, <1>3, <1>4, <1>5, <1>6, <1>7 DEF JobsNext

\* The types of a failed job and of the copies in flight: no count goes past max_retries, though
\* the retries do (job_management.py, retry_job).
THEOREM JobsTypes == JobsSpec => []JobsTypeOK
  <1>1. JobsInv => JobsTypeOK
    BY DEF JobsInv, JobsTypeOK, JobOK, JobCallDocs
  <1> QED BY <1>1, JobsInvInit, JobsInvInductive, PTL DEF JobsSpec

\* What a job has left of its retries, and what a call has before it: the retry
\* it has read, with what that leaves, or what it can still read.
Left(j) == IF j.canRetry THEN MaxRetries - j.retries ELSE 0
Chance(j, w) == IF w.op = "retry" THEN Left(w.copy) + 1 ELSE Left(j)

\* The calls with k retries or more before them, and their numbers.
Climbing(j, calls, k) == { c \in JobCalls : Chance(j, calls[c]) >= k }
Stairs(j, calls) == [k \in 1 .. MaxRetries |-> Cardinality(Climbing(j, calls, k))]

\* The staircases are ordered by their highest step that differs.
Lower(f, g) ==
    \E k \in 1 .. MaxRetries : f[k] < g[k] /\ \A i \in (k + 1) .. MaxRetries : f[i] <= g[i]
Below(g) == { f \in Staircases : Lower(f, g) }

Pushing(calls) == { c \in JobCalls : calls[c].op = "push" }

\* Inductive: each time the job is set for a retry the staircase of the calls
\* falls; how far it may still fall bounds the retries to come.
RetriesInv ==
    /\ \A c \in JobCalls : Chance(job, jobCall[c]) \in 0 .. MaxRetries
    /\ \A c \in JobCalls : jobCall[c].op = "cancel" => ~jobCall[c].copy.canRetry
    /\ retryQueue + Cardinality(Pushing(jobCall)) + Cardinality(Below(Stairs(job, jobCall)))
          <= records * MostRetries

\* There are finitely many staircases: each is a set of pairs.
LEMMA StaircasesFinite == IsFiniteSet(Staircases)
  <1> DEFINE n == Cardinality(JobCalls)
             Pairs == (1 .. MaxRetries) \X (0 .. n)
             Graph == [f \in Staircases |-> { << k, f[k] >> : k \in 1 .. MaxRetries }]
  <1>1. n \in Nat /\ MaxRetries \in Nat
    BY JobsAssumption, FS_CardinalityType
  <1>2. IsFiniteSet(SUBSET Pairs)
    <2>1. IsFiniteSet(1 .. MaxRetries) /\ IsFiniteSet(0 .. n)
      BY <1>1, FS_Interval
    <2> QED BY <2>1, FS_Product, FS_SUBSET
  <1>3. Graph \in [Staircases -> SUBSET Pairs]
    <2>1. ASSUME NEW f \in Staircases
          PROVE  { << k, f[k] >> : k \in 1 .. MaxRetries } \in SUBSET Pairs
      <3>1. \A k \in 1 .. MaxRetries : f[k] \in 0 .. n
        BY DEF Staircases
      <3> QED BY <3>1
    <2> QED BY <2>1
  <1>4. ASSUME NEW f \in Staircases, NEW g \in Staircases, Graph[f] = Graph[g] PROVE f = g
    <2>1. ASSUME NEW k \in 1 .. MaxRetries PROVE f[k] = g[k]
      <3>1. << k, f[k] >> \in Graph[f]
        OBVIOUS
      <3>2. << k, f[k] >> \in { << i, g[i] >> : i \in 1 .. MaxRetries }
        BY <1>4, <3>1
      <3> QED BY <3>2
    <2>2. f = [k \in 1 .. MaxRetries |-> f[k]] /\ g = [k \in 1 .. MaxRetries |-> g[k]]
      BY DEF Staircases
    <2> QED BY <2>1, <2>2, Zenon
  <1>5. Graph \in Injection(Staircases, SUBSET Pairs)
    <2> HIDE DEF Graph, Pairs
    <2> QED BY <1>3, <1>4 DEF Injection, IsInjective
  <1> HIDE DEF Graph, Pairs
  <1> QED BY <1>2, <1>5, FS_Injection

\* The numbers of the calls are a staircase.
LEMMA StairsAreStaircase ==
  ASSUME NEW j, NEW calls, \A c \in JobCalls : Chance(j, calls[c]) \in 0 .. MaxRetries
  PROVE  /\ Stairs(j, calls) \in Staircases
         /\ \A k \in 1 .. MaxRetries :
                /\ IsFiniteSet(Climbing(j, calls, k)) /\ Cardinality(Climbing(j, calls, k)) \in Nat
                /\ Stairs(j, calls)[k] = Cardinality(Climbing(j, calls, k))
  <1>1. \A k : Climbing(j, calls, k) \subseteq JobCalls
    BY DEF Climbing
  <1>2. ASSUME NEW k
        PROVE  /\ IsFiniteSet(Climbing(j, calls, k))
               /\ Cardinality(Climbing(j, calls, k)) \in 0 .. Cardinality(JobCalls)
    BY <1>1, JobsAssumption, FS_Subset, FS_CardinalityType
  <1>3. ASSUME NEW i \in 1 .. MaxRetries, NEW k \in 1 .. MaxRetries, i <= k
        PROVE  Cardinality(Climbing(j, calls, k)) <= Cardinality(Climbing(j, calls, i))
    <2>1. Climbing(j, calls, k) \subseteq Climbing(j, calls, i)
      BY <1>3, JobsAssumption DEF Climbing
    <2> QED BY <1>2, <2>1, FS_Subset
  <1>4. \A k \in 1 .. MaxRetries : Stairs(j, calls)[k] = Cardinality(Climbing(j, calls, k))
    BY DEF Stairs
  <1>5. Stairs(j, calls) \in [1 .. MaxRetries -> 0 .. Cardinality(JobCalls)]
    BY <1>2 DEF Stairs
  <1> QED BY <1>2, <1>3, <1>4, <1>5 DEF Staircases

\* Below a staircase there are all staircases but it, at most.
LEMMA BelowIsFinite ==
  ASSUME NEW g \in Staircases
  PROVE  /\ IsFiniteSet(Below(g)) /\ Cardinality(Below(g)) \in Nat
         /\ MostRetries \in Nat /\ Cardinality(Below(g)) <= MostRetries
  <1>1. g \in [1 .. MaxRetries -> Nat]
    BY JobsAssumption, FS_CardinalityType DEF Staircases
  <1>2. g \notin Below(g)
    BY <1>1 DEF Below, Lower
  <1>3. Below(g) \subseteq Staircases \ {g}
    BY <1>2 DEF Below
  <1>4. /\ IsFiniteSet(Staircases \ {g})
        /\ Cardinality(Staircases \ {g}) = Cardinality(Staircases) - 1
    BY StaircasesFinite, FS_RemoveElement
  <1>5. Cardinality(Staircases \ {g}) \in Nat
    BY <1>4, FS_CardinalityType
  <1> QED BY <1>3, <1>4, <1>5, FS_Subset, FS_CardinalityType DEF MostRetries

\* A staircase that is nowhere higher has no more below it,
LEMMA NoHigher ==
  ASSUME NEW f \in Staircases, NEW g \in Staircases, \A k \in 1 .. MaxRetries : f[k] <= g[k]
  PROVE  Cardinality(Below(f)) <= Cardinality(Below(g))
  <1>1. MaxRetries \in Nat /\ \A h \in Staircases, k \in 1 .. MaxRetries : h[k] \in Nat
    BY JobsAssumption, FS_CardinalityType DEF Staircases
  <1>2. ASSUME NEW h \in Below(f) PROVE h \in Below(g)
    <2>1. h \in Staircases /\ Lower(h, f)
      BY DEF Below
    <2>2. PICK k \in 1 .. MaxRetries : h[k] < f[k] /\ \A i \in (k + 1) .. MaxRetries : h[i] <= f[i]
      BY <2>1 DEF Lower
    <2>3. h[k] < g[k]
      BY <1>1, <2>1, <2>2
    <2>4. ASSUME NEW i \in (k + 1) .. MaxRetries PROVE h[i] <= g[i]
      <3>1. i \in 1 .. MaxRetries
        BY <1>1
      <3> QED BY <1>1, <2>1, <2>2, <3>1
    <2> QED BY <2>1, <2>3, <2>4 DEF Below, Lower
  <1> QED BY <1>2, BelowIsFinite, FS_Subset

\* and a lower one has at least itself less.
LEMMA LowerHasLess ==
  ASSUME NEW f \in Staircases, NEW g \in Staircases, Lower(f, g)
  PROVE  Cardinality(Below(f)) + 1 <= Cardinality(Below(g))
  <1>1. MaxRetries \in Nat /\ \A h \in Staircases, k \in 1 .. MaxRetries : h[k] \in Nat
    BY JobsAssumption, FS_CardinalityType DEF Staircases
  <1>2. PICK l \in 1 .. MaxRetries : f[l] < g[l] /\ \A i \in (l + 1) .. MaxRetries : f[i] <= g[i]
    BY DEF Lower
  <1>3. ASSUME NEW h \in Below(f) PROVE h \in Below(g)
    <2>1. h \in Staircases /\ Lower(h, f)
      BY DEF Below
    <2>2. PICK k \in 1 .. MaxRetries : h[k] < f[k] /\ \A i \in (k + 1) .. MaxRetries : h[i] <= f[i]
      BY <2>1 DEF Lower
    <2>3. CASE k <= l
      <3>1. h[l] <= f[l]
        BY <1>1, <2>1, <2>2, <2>3
      <3>2. ASSUME NEW i \in (l + 1) .. MaxRetries PROVE h[i] <= g[i]
        <4>1. i \in 1 .. MaxRetries /\ i \in (k + 1) .. MaxRetries
          BY <1>1, <2>3
        <4> QED BY <1>1, <1>2, <2>1, <2>2, <4>1
      <3>3. h[l] < g[l]
        BY <1>1, <1>2, <2>1, <3>1
      <3> QED BY <2>1, <3>2, <3>3 DEF Below, Lower
    <2>4. CASE l < k
      <3>1. k \in (l + 1) .. MaxRetries
        BY <1>1, <2>4
      <3>2. h[k] < g[k]
        BY <1>1, <1>2, <2>1, <2>2, <3>1
      <3>3. ASSUME NEW i \in (k + 1) .. MaxRetries PROVE h[i] <= g[i]
        <4>1. i \in 1 .. MaxRetries /\ i \in (l + 1) .. MaxRetries
          BY <1>1, <2>4
        <4> QED BY <1>1, <1>2, <2>1, <2>2, <4>1
      <3> QED BY <2>1, <3>2, <3>3 DEF Below, Lower
    <2> QED BY <1>1, <2>3, <2>4
  <1>4. f \in Below(g) /\ f \notin Below(f)
    BY <1>1 DEF Below, Lower
  <1>5. Below(f) \cup {f} \subseteq Below(g)
    BY <1>3, <1>4
  <1>6. /\ IsFiniteSet(Below(f)) /\ Cardinality(Below(f)) \in Nat
        /\ IsFiniteSet(Below(g)) /\ Cardinality(Below(g)) \in Nat
    BY BelowIsFinite
  <1>7. Cardinality(Below(f) \cup {f}) = Cardinality(Below(f)) + 1
    BY <1>4, <1>6, FS_AddElement
  <1> QED BY <1>5, <1>6, <1>7, FS_Subset

\* A retry that is read counts one less than the job had left.
LEMMA RetryTakesOne ==
  ASSUME NEW j, JobOK(j), j.canRetry
  PROVE  Left(j) \in 1 .. MaxRetries /\ Left(Retried(j)) + 1 = Left(j)
  <1>1. j.retries \in 0 .. MaxRetries /\ j.retries < MaxRetries /\ MaxRetries \in Nat
    BY JobsAssumption DEF JobOK, JobDocs
  <1>2. Left(j) = MaxRetries - j.retries
    BY DEF Left
  <1>3. Left(Retried(j)) = IF j.retries + 1 < MaxRetries THEN MaxRetries - (j.retries + 1) ELSE 0
    BY DEF Left, Retried
  <1> QED BY <1>1, <1>2, <1>3

\* What is left of a job is a number of retries.
LEMMA LeftTyped ==
  ASSUME NEW j, JobOK(j)
  PROVE  Left(j) \in 0 .. MaxRetries
  BY JobsAssumption DEF JobOK, JobDocs, Left

\* Where no call has more before it than it had, and no more pushes are due, the
\* invariant stays.
LEMMA ChancesKept ==
  ASSUME JobsInv, RetriesInv, records' = records,
         \A c \in JobCalls : Chance(job', jobCall'[c]) \in 0 .. Chance(job, jobCall[c]),
         \A c \in JobCalls : jobCall'[c].op = "cancel" => ~jobCall'[c].copy.canRetry,
         retryQueue' + Cardinality(Pushing(jobCall')) <= retryQueue + Cardinality(Pushing(jobCall)),
         retryQueue' \in Nat
  PROVE  RetriesInv'
  <1> DEFINE f == Stairs(job', jobCall')
             g == Stairs(job, jobCall)
  <1>1. /\ \A c \in JobCalls : Chance(job, jobCall[c]) \in 0 .. MaxRetries
        /\ \A c \in JobCalls : Chance(job', jobCall'[c]) \in 0 .. MaxRetries
    BY JobsAssumption DEF RetriesInv
  <1>2. f \in Staircases /\ g \in Staircases
    BY <1>1, StairsAreStaircase
  <1>3. ASSUME NEW k \in 1 .. MaxRetries PROVE f[k] <= g[k]
    <2>1. Climbing(job', jobCall', k) \subseteq Climbing(job, jobCall, k)
      BY <1>1, JobsAssumption DEF Climbing
    <2> QED BY <1>1, <2>1, StairsAreStaircase, FS_Subset
  <1>4. Cardinality(Below(f)) <= Cardinality(Below(g))
    BY <1>2, <1>3, NoHigher
  <1>5. Cardinality(Below(f)) \in Nat /\ Cardinality(Below(g)) \in Nat /\ MostRetries \in Nat
    BY <1>2, BelowIsFinite
  <1>6. Pushing(jobCall) \subseteq JobCalls /\ Pushing(jobCall') \subseteq JobCalls
    BY DEF Pushing
  <1>7. Cardinality(Pushing(jobCall)) \in Nat /\ Cardinality(Pushing(jobCall')) \in Nat
    BY <1>6, JobsAssumption, FS_Subset, FS_CardinalityType
  <1>8. retryQueue' + Cardinality(Pushing(jobCall')) + Cardinality(Below(f)) <= records * MostRetries
    <2> DEFINE most == records * MostRetries
    <2>1. retryQueue + Cardinality(Pushing(jobCall)) + Cardinality(Below(g)) <= most
      BY DEF RetriesInv
    <2>2. retryQueue \in Nat /\ records \in Nat
      BY JobsAssumption DEF JobsInv
    <2>3. most \in Int
      BY <1>5, <2>2
    <2> HIDE DEF most, f, g
    <2>4. retryQueue' + Cardinality(Pushing(jobCall')) + Cardinality(Below(f)) <= most
      BY <1>4, <1>5, <1>7, <2>1, <2>2, <2>3
    <2> QED BY <2>4 DEF most
  <1> QED BY <1>1, <1>8 DEF RetriesInv

\* The calls that are about to push are a finite set.
LEMMA PushingFinite ==
  ASSUME NEW calls
  PROVE  IsFiniteSet(Pushing(calls)) /\ Cardinality(Pushing(calls)) \in Nat
  <1>1. Pushing(calls) \subseteq JobCalls
    BY DEF Pushing
  <1> QED BY <1>1, JobsAssumption, FS_Subset, FS_CardinalityType

\* Reading and cancelling give nobody more retries.
LEMMA RetriesRead ==
  ASSUME JobsInv, RetriesInv, NEW c \in JobCalls, ReadToRetry(c) \/ ReadToCancel(c)
  PROVE  RetriesInv'
  <1>1. PICK w : /\ JobGoes(c, w) /\ jobCall[c] = JobIdle
                 /\ w.op \in { "retry", "cancel" }
                 /\ w.op = "retry" => Left(w.copy) + 1 = Left(job)
                 /\ w.op = "cancel" => ~w.copy.canRetry
    <2>1. CASE ReadToRetry(c)
      BY <2>1, RetryTakesOne DEF ReadToRetry, JobsInv
    <2>2. CASE ReadToCancel(c)
      <3> DEFINE w == [op |-> "cancel", copy |-> [job EXCEPT !.status = "cancelled", !.canRetry = FALSE]]
      <3>1. w.op = "cancel" /\ ~w.copy.canRetry
        BY DEF JobsInv, JobOK, JobDocs
      <3> QED BY <2>2, <3>1 DEF ReadToCancel
    <2> QED BY <2>1, <2>2
  <1>2. jobCall'[c] = w /\ \A d \in JobCalls : d # c => jobCall'[d] = jobCall[d]
    BY <1>1 DEF JobGoes, JobsInv
  <1>3. UNCHANGED << job, retryQueue, records >> /\ retryQueue \in Nat
    BY DEF ReadToRetry, ReadToCancel, JobsInv
  <1>4. jobCall[c].op = "idle"
    BY <1>1 DEF JobIdle
  <1>5. Pushing(jobCall') = Pushing(jobCall)
    BY <1>1, <1>2, <1>4 DEF Pushing
  <1>6. \A d \in JobCalls : Chance(job', jobCall'[d]) = Chance(job, jobCall[d])
    BY <1>1, <1>2, <1>3, <1>4 DEF Chance
  <1>7. \A d \in JobCalls : Chance(job', jobCall'[d]) \in 0 .. Chance(job, jobCall[d])
    <2>1. ASSUME NEW d \in JobCalls PROVE Chance(job, jobCall[d]) \in 0 .. Chance(job, jobCall[d])
      BY JobsAssumption DEF RetriesInv
    <2> QED BY <1>6, <2>1
  <1>8. \A d \in JobCalls : jobCall'[d].op = "cancel" => ~jobCall'[d].copy.canRetry
    BY <1>1, <1>2 DEF RetriesInv
  <1>9. retryQueue' + Cardinality(Pushing(jobCall')) <= retryQueue + Cardinality(Pushing(jobCall))
    BY <1>3, <1>5, PushingFinite
  <1> QED BY <1>3, <1>7, <1>8, <1>9, ChancesKept

\* A push was counted when its retry was set.
LEMMA RetriesPushed ==
  ASSUME JobsInv, RetriesInv, NEW c \in JobCalls, NEW ok \in BOOLEAN, QueueRetry(c, ok)
  PROVE  RetriesInv'
  <1>1. jobCall'[c] = JobIdle /\ \A d \in JobCalls : d # c => jobCall'[d] = jobCall[d]
    BY DEF QueueRetry, JobGoes, JobsInv
  <1>2. /\ job' = job /\ records' = records /\ retryQueue \in Nat
        /\ retryQueue' \in Nat /\ retryQueue' <= retryQueue + 1
    BY DEF QueueRetry, JobsInv
  <1>3. jobCall[c].op = "push" /\ jobCall'[c].op = "idle"
    BY <1>1 DEF QueueRetry, JobIdle
  <1>4. Pushing(jobCall') = Pushing(jobCall) \ {c} /\ c \in Pushing(jobCall)
    BY <1>1, <1>3 DEF Pushing
  <1>5. \A d \in JobCalls : Chance(job', jobCall'[d]) = Chance(job, jobCall[d])
    BY <1>1, <1>2, <1>3 DEF Chance
  <1>6. \A d \in JobCalls : Chance(job', jobCall'[d]) \in 0 .. Chance(job, jobCall[d])
    <2>1. ASSUME NEW d \in JobCalls PROVE Chance(job, jobCall[d]) \in 0 .. Chance(job, jobCall[d])
      BY JobsAssumption DEF RetriesInv
    <2> QED BY <1>5, <2>1
  <1>7. \A d \in JobCalls : jobCall'[d].op = "cancel" => ~jobCall'[d].copy.canRetry
    BY <1>1, <1>3 DEF RetriesInv
  <1>8. retryQueue' + Cardinality(Pushing(jobCall')) <= retryQueue + Cardinality(Pushing(jobCall))
    <2>1. Cardinality(Pushing(jobCall) \ {c}) = Cardinality(Pushing(jobCall)) - 1
      BY <1>4, PushingFinite, FS_RemoveElement
    <2> QED BY <1>2, <1>4, <2>1, PushingFinite
  <1> QED BY <1>2, <1>6, <1>7, <1>8, ChancesKept

\* A cancellation takes the retries of all calls that have not read the job.
LEMMA RetriesCancelled ==
  ASSUME JobsInv, RetriesInv, NEW c \in JobCalls, SetCancelledJob(c)
  PROVE  RetriesInv'
  <1>1. jobCall'[c] = JobIdle /\ \A d \in JobCalls : d # c => jobCall'[d] = jobCall[d]
    BY DEF SetCancelledJob, JobGoes, JobsInv
  <1>2. records' = records /\ retryQueue' = retryQueue /\ retryQueue \in Nat
    BY DEF SetCancelledJob, JobsInv
  <1>3. jobCall[c].op = "cancel" /\ jobCall'[c].op = "idle"
    BY <1>1 DEF SetCancelledJob, JobIdle
  <1>4. Pushing(jobCall') = Pushing(jobCall)
    BY <1>1, <1>3 DEF Pushing
  <1>5. Left(job') = 0
    BY <1>3 DEF SetCancelledJob, RetriesInv, Left
  <1>6. ASSUME NEW d \in JobCalls
        PROVE  Chance(job', jobCall'[d]) \in 0 .. Chance(job, jobCall[d])
    <2>1. Chance(job, jobCall[d]) \in Nat
      BY JobsAssumption DEF RetriesInv
    <2>2. Chance(job', jobCall'[d]) \in { 0, Chance(job, jobCall[d]) }
      BY <1>1, <1>3, <1>5 DEF Chance
    <2> QED BY <2>1, <2>2
  <1>7. \A d \in JobCalls : jobCall'[d].op = "cancel" => ~jobCall'[d].copy.canRetry
    BY <1>1, <1>3 DEF RetriesInv
  <1>8. retryQueue' + Cardinality(Pushing(jobCall')) <= retryQueue + Cardinality(Pushing(jobCall))
    BY <1>2, <1>4, PushingFinite
  <1> QED BY <1>2, <1>6, <1>7, <1>8, ChancesKept

\* A set takes the step of its own call down, and no call that goes up with the
\* count it sets back goes up to that step.
LEMMA RetriesSet ==
  ASSUME JobsInv, RetriesInv, NEW c \in JobCalls, SetRetrying(c)
  PROVE  RetriesInv'
  <1> DEFINE f == Stairs(job', jobCall')
             g == Stairs(job, jobCall)
             k == Chance(job, jobCall[c])
  <1>1. /\ jobCall'[c].op = "push" /\ jobCall[c].op = "retry"
        /\ \A d \in JobCalls : d # c => jobCall'[d] = jobCall[d]
    BY DEF SetRetrying, JobGoes, JobsInv
  <1>2. /\ records' = records /\ retryQueue' = retryQueue
        /\ retryQueue \in Nat /\ records \in Nat /\ MaxRetries \in Nat
    BY JobsAssumption DEF SetRetrying, JobsInv
  <1>3. k = Left(job') + 1 /\ Left(job') \in 0 .. MaxRetries /\ k \in 1 .. MaxRetries
    <2>1. k = Left(job') + 1
      BY <1>1 DEF SetRetrying, Chance
    <2>2. Left(job') \in 0 .. MaxRetries
      BY LeftTyped DEF SetRetrying, JobsInv
    <2>3. k \in 0 .. MaxRetries
      BY DEF RetriesInv
    <2> QED BY <1>2, <2>1, <2>2, <2>3
  <1>4. ASSUME NEW d \in JobCalls
        PROVE  /\ Chance(job', jobCall'[d]) \in { Chance(job, jobCall[d]), k - 1 }
               /\ d = c => Chance(job', jobCall'[d]) = k - 1
    <2>1. Left(job') = k - 1
      BY <1>3
    <2> HIDE DEF k
    <2> QED BY <1>1, <2>1 DEF Chance
  <1>5. /\ \A d \in JobCalls : Chance(job, jobCall[d]) \in 0 .. MaxRetries
        /\ \A d \in JobCalls : Chance(job', jobCall'[d]) \in 0 .. MaxRetries
    <2>1. \A d \in JobCalls : Chance(job, jobCall[d]) \in 0 .. MaxRetries
      BY DEF RetriesInv
    <2>2. k - 1 \in 0 .. MaxRetries
      BY <1>2, <1>3
    <2> HIDE DEF k
    <2> QED BY <1>4, <2>1, <2>2
  <1>6. f \in Staircases /\ g \in Staircases
    BY <1>5, StairsAreStaircase
  <1>7. ASSUME NEW i \in k .. MaxRetries PROVE f[i] <= g[i]
    <2>1. i \in 1 .. MaxRetries
      BY <1>2, <1>3
    <2>2. Climbing(job', jobCall', i) \subseteq Climbing(job, jobCall, i)
      <3>1. ASSUME NEW d \in JobCalls, Chance(job', jobCall'[d]) >= i
            PROVE  Chance(job, jobCall[d]) >= i
        BY <1>2, <1>3, <1>4, <2>1, <3>1
      <3> QED BY <3>1 DEF Climbing
    <2> QED BY <1>5, <2>1, <2>2, StairsAreStaircase, FS_Subset
  <1>8. f[k] < g[k]
    <2>1. /\ Climbing(job', jobCall', k) \subseteq Climbing(job, jobCall, k) \ {c}
          /\ c \in Climbing(job, jobCall, k)
      <3>1. ASSUME NEW d \in JobCalls, Chance(job', jobCall'[d]) >= k
            PROVE  Chance(job, jobCall[d]) >= k /\ d # c
        BY <1>2, <1>3, <1>4, <3>1
      <3>2. k >= k
        BY <1>3
      <3> QED BY <3>1, <3>2 DEF Climbing
    <2>2. /\ IsFiniteSet(Climbing(job, jobCall, k)) /\ Cardinality(Climbing(job, jobCall, k)) \in Nat
          /\ g[k] = Cardinality(Climbing(job, jobCall, k))
          /\ f[k] = Cardinality(Climbing(job', jobCall', k))
          /\ Cardinality(Climbing(job', jobCall', k)) \in Nat
      BY <1>3, <1>5, StairsAreStaircase
    <2>3. /\ IsFiniteSet(Climbing(job, jobCall, k) \ {c})
          /\ Cardinality(Climbing(job, jobCall, k) \ {c}) = Cardinality(Climbing(job, jobCall, k)) - 1
      BY <2>1, <2>2, FS_RemoveElement
    <2>4. Cardinality(Climbing(job', jobCall', k)) <= Cardinality(Climbing(job, jobCall, k) \ {c})
      BY <2>1, <2>3, FS_Subset
    <2> HIDE DEF f, g, k
    <2> QED BY <2>2, <2>3, <2>4
  <1>9. Lower(f, g)
    <2>1. ASSUME NEW i \in (k + 1) .. MaxRetries PROVE f[i] <= g[i]
      <3>1. i \in k .. MaxRetries
        BY <1>2, <1>3
      <3> QED BY <1>7, <3>1
    <2> HIDE DEF f, g, k
    <2> QED BY <1>3, <1>8, <2>1 DEF Lower
  <1>10. /\ Cardinality(Below(f)) + 1 <= Cardinality(Below(g))
         /\ Cardinality(Below(f)) \in Nat /\ Cardinality(Below(g)) \in Nat /\ MostRetries \in Nat
    BY <1>6, <1>9, LowerHasLess, BelowIsFinite
  <1>11. Pushing(jobCall') = Pushing(jobCall) \cup {c} /\ c \notin Pushing(jobCall)
    BY <1>1 DEF Pushing
  <1>12. /\ Cardinality(Pushing(jobCall')) = Cardinality(Pushing(jobCall)) + 1
         /\ Cardinality(Pushing(jobCall)) \in Nat
    BY <1>11, PushingFinite, FS_AddElement
  <1>13. retryQueue' + Cardinality(Pushing(jobCall')) + Cardinality(Below(f)) <= records * MostRetries
    <2> DEFINE most == records * MostRetries
    <2>1. retryQueue + Cardinality(Pushing(jobCall)) + Cardinality(Below(g)) <= most
      BY DEF RetriesInv
    <2>2. most \in Int
      BY <1>2, <1>10
    <2> HIDE DEF most, f, g
    <2>3. retryQueue' + Cardinality(Pushing(jobCall')) + Cardinality(Below(f)) <= most
      BY <1>2, <1>10, <1>12, <2>1, <2>2
    <2> QED BY <2>3 DEF most
  <1>14. \A d \in JobCalls : jobCall'[d].op = "cancel" => ~jobCall'[d].copy.canRetry
    BY <1>1 DEF RetriesInv
  <1> QED BY <1>2, <1>5, <1>13, <1>14 DEF RetriesInv

\* A new record gives all calls all retries once more.
LEMMA RetriesRecorded ==
  ASSUME JobsInv, RetriesInv, NEW n \in 0 .. MaxRetries, RecordFailedJob(n)
  PROVE  RetriesInv'
  <1> DEFINE f == Stairs(job', jobCall')
             g == Stairs(job, jobCall)
  <1>1. /\ records' = records + 1 /\ retryQueue' = retryQueue /\ jobCall' = jobCall
        /\ retryQueue \in Nat /\ records \in Nat
    BY JobsAssumption DEF RecordFailedJob, JobsInv
  <1>2. Left(job') \in 0 .. MaxRetries
    BY JobsAssumption DEF RecordFailedJob, Left
  <1>3. /\ \A d \in JobCalls : Chance(job, jobCall[d]) \in 0 .. MaxRetries
        /\ \A d \in JobCalls : Chance(job', jobCall'[d]) \in 0 .. MaxRetries
    BY <1>1, <1>2 DEF RetriesInv, Chance
  <1>4. f \in Staircases /\ g \in Staircases
    BY <1>3, StairsAreStaircase
  <1>5. /\ Cardinality(Below(f)) <= MostRetries
        /\ Cardinality(Below(f)) \in Nat /\ Cardinality(Below(g)) \in Nat /\ MostRetries \in Nat
    BY <1>4, BelowIsFinite
  <1>6. Cardinality(Pushing(jobCall)) \in Nat
    BY PushingFinite
  <1>7. retryQueue' + Cardinality(Pushing(jobCall')) + Cardinality(Below(f)) <= records' * MostRetries
    <2> DEFINE most == records * MostRetries
    <2>1. retryQueue + Cardinality(Pushing(jobCall)) + Cardinality(Below(g)) <= most
      BY DEF RetriesInv
    <2>2. most \in Int /\ records' * MostRetries = most + MostRetries
      BY <1>1, <1>5
    <2> HIDE DEF most, f, g
    <2> QED BY <1>1, <1>5, <1>6, <2>1, <2>2
  <1> QED BY <1>1, <1>3, <1>7 DEF RetriesInv

\* No step breaks it.
LEMMA RetriesInvInductive == JobsInv /\ RetriesInv /\ [JobsNext]_jobsVars => RetriesInv'
  <1> SUFFICES ASSUME JobsInv, RetriesInv, [JobsNext]_jobsVars PROVE RetriesInv'
    OBVIOUS
  <1>1. CASE UNCHANGED jobsVars
    BY <1>1 DEF jobsVars, RetriesInv
  <1> QED
    BY <1>1, RetriesRead, RetriesPushed, RetriesCancelled, RetriesSet, RetriesRecorded
       DEF JobsNext

\* At the start there is nothing to retry.
LEMMA RetriesInvInit == JobsInit => RetriesInv
  <1> SUFFICES ASSUME JobsInit PROVE RetriesInv
    OBVIOUS
  <1>1. /\ \A c \in JobCalls : jobCall[c].op = "idle"
        /\ retryQueue = 0 /\ records = 0 /\ Left(job) = 0 /\ MaxRetries \in Nat
    BY JobsAssumption DEF JobsInit, JobIdle, NoJob, Left
  <1>2. \A c \in JobCalls : Chance(job, jobCall[c]) = 0
    BY <1>1 DEF Chance
  <1>3. Pushing(jobCall) = {}
    BY <1>1 DEF Pushing
  <1>4. Stairs(job, jobCall) \in Staircases
    BY <1>1, <1>2, StairsAreStaircase
  <1>5. ASSUME NEW k \in 1 .. MaxRetries PROVE Stairs(job, jobCall)[k] = 0
    <2>1. Climbing(job, jobCall, k) = {}
      BY <1>2 DEF Climbing
    <2> QED BY <2>1, FS_EmptySet DEF Stairs
  <1>6. Below(Stairs(job, jobCall)) = {}
    <2>1. ASSUME NEW h \in Below(Stairs(job, jobCall)) PROVE FALSE
      <3>1. PICK k \in 1 .. MaxRetries : h[k] < 0
        BY <1>5, <2>1 DEF Below, Lower
      <3>2. h[k] \in Nat
        BY JobsAssumption, FS_CardinalityType DEF Below, Staircases
      <3> QED BY <3>1, <3>2
    <2> QED BY <2>1
  <1>7. MostRetries \in Nat
    BY <1>4, BelowIsFinite
  <1> QED BY <1>1, <1>2, <1>3, <1>6, <1>7, FS_EmptySet DEF RetriesInv

\* However calls that overlap set back each other's counts, and whatever is
\* cancelled meanwhile, a job is queued for a retry at most as often as the
\* staircase of its calls can fall, once per record (job_management.py, retry_job).
THEOREM JobRetries == JobsSpec => []RetriesBounded
  <1>1. JobsInv /\ RetriesInv => RetriesBounded
    <2> SUFFICES ASSUME JobsInv, RetriesInv PROVE RetriesBounded
      OBVIOUS
    <2>1. Stairs(job, jobCall) \in Staircases
      BY StairsAreStaircase DEF RetriesInv
    <2>2. /\ Cardinality(Below(Stairs(job, jobCall))) \in Nat /\ MostRetries \in Nat
          /\ Cardinality(Pushing(jobCall)) \in Nat /\ retryQueue \in Nat /\ records \in Nat
      BY <2>1, BelowIsFinite, PushingFinite, JobsAssumption DEF JobsInv
    <2>3. records * MostRetries \in Int
      BY <2>2
    <2> QED BY <2>2, <2>3 DEF RetriesInv, RetriesBounded
  <1> QED
    BY <1>1, JobsInvInit, JobsInvInductive, RetriesInvInit, RetriesInvInductive, PTL
       DEF JobsSpec

-----------------------------------------------------------------------------
(* The composition. *)

\* A step of one service leaves the others alone.
LEMMA OthersKeep ==
  ASSUME NEW S, On(S), OthersStay
  PROVE  /\ service \in S /\ service' = service
         /\ "gates" \notin S /\ "runbooks" \notin S => UNCHANGED approvalsVars
         /\ "governance" \notin S => UNCHANGED governanceVars
         /\ "guards" \notin S => UNCHANGED guardsVars
         /\ "deployments" \notin S => UNCHANGED deploymentsVars
         /\ "jobs" \notin S => UNCHANGED jobsVars
         /\ "drills" \notin S => UNCHANGED drillsVars
         /\ "backups" \notin S => UNCHANGED backupsVars
  BY DEF On, OthersStay

\* Every step of the composition is a step of one service.
LEMMA OneServiceSteps ==
  ASSUME [OperationsNext]_operationsVars
  PROVE  /\ UNCHANGED service
         /\ [ApprovalsNext]_approvalsVars
         /\ [GovernanceNext]_governanceVars
         /\ [GuardsNext]_guardsVars
         /\ [DeploymentsNext]_deploymentsVars
         /\ [JobsNext]_jobsVars
         /\ [DrillsNext]_drillsVars
         /\ [BackupsNext]_backupsVars
  <1>1. ASSUME ApprovalsStep
        PROVE  ApprovalsNext /\ (On({ "gates" }) \/ On({ "runbooks" })) /\ OthersStay
    BY <1>1 DEF ApprovalsStep, ApprovalsNext
  <1>2. ASSUME GovernanceStep
        PROVE  GovernanceNext /\ On({ "governance" }) /\ OthersStay
    BY <1>2 DEF GovernanceStep, GovernanceNext
  <1>3. ASSUME GuardsStep
        PROVE  GuardsNext /\ On({ "guards" }) /\ OthersStay
    BY <1>3 DEF GuardsStep, GuardsNext
  <1>4. ASSUME DeploymentsStep
        PROVE  DeploymentsNext /\ On({ "deployments" }) /\ OthersStay
    BY <1>4 DEF DeploymentsStep, DeploymentsNext
  <1>5. ASSUME JobsStep
        PROVE  JobsNext /\ On({ "jobs" }) /\ OthersStay
    BY <1>5 DEF JobsStep, JobsNext
  <1>6. ASSUME DrillsStep
        PROVE  DrillsNext /\ On({ "drills" }) /\ OthersStay
    BY <1>6 DEF DrillsStep, DrillsNext
  <1>7. ASSUME BackupsStep
        PROVE  BackupsNext /\ On({ "backups" }) /\ OthersStay
    BY <1>7 DEF BackupsStep, BackupsNext
  <1>8. ASSUME UNCHANGED operationsVars
        PROVE  UNCHANGED << approvalsVars, governanceVars, guardsVars, deploymentsVars, jobsVars, drillsVars, backupsVars, service >>
    BY <1>8 DEF operationsVars
  <1> QED BY <1>1, <1>2, <1>3, <1>4, <1>5, <1>6, <1>7, <1>8, OthersKeep DEF OperationsNext

(* The operations services together do what each does alone: what is proved *)
(* of one of them holds of the composition. *)
THEOREM OperationsIsEach ==
  OperationsSpec => /\ ApprovalsSpec
                    /\ GovernanceSpec
                    /\ GuardsSpec
                    /\ DeploymentsSpec
                    /\ JobsSpec
                    /\ DrillsSpec
                    /\ BackupsSpec
  <1>1. OperationsInit => /\ ApprovalsInit
                          /\ GovernanceInit
                          /\ GuardsInit
                          /\ DeploymentsInit
                          /\ JobsInit
                          /\ DrillsInit
                          /\ BackupsInit
    BY DEF OperationsInit
  <1>2. [OperationsNext]_operationsVars => /\ [ApprovalsNext]_approvalsVars
                                           /\ [GovernanceNext]_governanceVars
                                           /\ [GuardsNext]_guardsVars
                                           /\ [DeploymentsNext]_deploymentsVars
                                           /\ [JobsNext]_jobsVars
                                           /\ [DrillsNext]_drillsVars
                                           /\ [BackupsNext]_backupsVars
    BY OneServiceSteps
  <1> QED BY <1>1, <1>2, PTL DEF OperationsSpec, ApprovalsSpec, GovernanceSpec, GuardsSpec, DeploymentsSpec, JobsSpec, DrillsSpec, BackupsSpec

(* Types of the operations services. *)
THEOREM OperationsTypes == OperationsSpec => []OperationsTypeOK
  <1>1. OperationsInit => service \in Services
    BY DEF OperationsInit
  <1>2. service \in Services /\ [OperationsNext]_operationsVars => (service \in Services)'
    BY OneServiceSteps
  <1>3. OperationsSpec => [](service \in Services)
    BY <1>1, <1>2, PTL DEF OperationsSpec
  <1>4. service \in Services /\ ApprovalsTypeOK /\ GovernanceTypeOK /\ GuardsTypeOK
        /\ DeploymentsTypeOK /\ JobsTypeOK /\ DrillsTypeOK /\ BackupsTypeOK => OperationsTypeOK
    BY DEF Services, OperationsTypeOK
  <1> QED BY <1>3, <1>4, OperationsIsEach, ApprovalsTypes, GovernanceTypeCorrect,
             GuardsTypeCorrect, DeploymentsTypes, JobsTypes, DrillsTypes, BackupsTypes, PTL
===============================================================================
