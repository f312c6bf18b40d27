------------------------ MODULE LeadLifecycle_proof ------------------------
(***************************************************************************)
(* Proofs about LeadLifecycle, for every clock bound, set of scores and    *)
(* cooldown lengths.                                                       *)
(***************************************************************************)
EXTENDS LeadLifecycle, TLAPS

-----------------------------------------------------------------------------
(* The transition graph *)

\* Every edge of the graph leads to a status.
LEMMA TransitionsTyped ==
    ASSUME NEW from \in LeadStatus, NEW to, CanTransition(from, to)
    PROVE  to \in LeadStatus
  BY DEF CanTransition, Transitions, LeadStatus

\* transition() keeps a lead a lead.
LEMMA MovedTyped ==
    ASSUME NEW l \in Lead, NEW to \in LeadStatus
    PROVE  /\ Moved(l, to) \in Lead
           /\ Moved(l, to).status = to
           /\ Moved(l, to).opted_out = (l.opted_out \/ to = "OPTED_OUT")
           /\ Moved(l, to).do_not_contact_until = l.do_not_contact_until
  BY DEF Moved, Lead

-----------------------------------------------------------------------------
(* Type correctness *)

\* A transition keeps the lead, its history and the promises in their types.
LEMMA TransitionTyped ==
    ASSUME TypeOK, NEW target, Transition(target)
    PROVE  /\ target \in LeadStatus
           /\ lead' \in Lead
           /\ visited' \subseteq LeadStatus
           /\ promises' \in Promises
  <1>1. target \in LeadStatus
    BY TransitionsTyped DEF TypeOK, Transition, Lead
  <1>2. lead' \in Lead
    BY <1>1, MovedTyped DEF TypeOK, Transition
  <1>3. visited' \subseteq LeadStatus
    BY <1>1 DEF TypeOK, Transition
  <1>4. promises' \in Promises
    BY DEF TypeOK, Transition, Promises
  <1> QED BY <1>1, <1>2, <1>3, <1>4

\* A mail breaks promises of the known kinds only.
LEMMA MailTyped ==
    ASSUME TypeOK, NEW channel \in Channels, Mail(channel)
    PROVE  broken' \subseteq Channels \X PromiseKinds
  BY DEF TypeOK, Mail, BrokenNow

\* Every variable keeps its type: the lead, its contact and the history.
THEOREM TypeCorrect == Spec => []TypeOK
  <1>1. Init => TypeOK
    <2> SUFFICES ASSUME Init PROVE TypeOK
      OBVIOUS
    <2>1. lead \in Lead
      BY MaxTimeAssumption DEF Init, NewLead, Lead, LeadStatus, Time, NoDate
    <2>2. promises \in Promises
      BY MaxTimeAssumption DEF Init, Promises, Time, NoDate
    <2>3. "LEAD_FOUND" \in LeadStatus
      BY DEF LeadStatus
    <2> QED BY <2>1, <2>2, <2>3 DEF Init, TypeOK
  <1>2. TypeOK /\ [Next]_vars => TypeOK'
    <2> SUFFICES ASSUME TypeOK, [Next]_vars PROVE TypeOK'
      OBVIOUS
    <2>0. ASSUME NEW target, Transition(target), UNCHANGED Others
          PROVE  TypeOK'
      BY <2>0, TransitionTyped DEF TypeOK, Others
    <2>1. CASE DiscoverLead
      <3>1. "LEAD_FOUND" \in LeadStatus
        BY DEF LeadStatus
      <3>2. lead' \in Lead
        BY <2>1, <3>1 DEF TypeOK, DiscoverLead, Lead
      <3> QED BY <2>1, <3>1, <3>2 DEF TypeOK, DiscoverLead, Others
    <2>2. CASE \E target : Transition(target) /\ UNCHANGED Others
      BY <2>0, <2>2
    <2>3. ASSUME NEW intent \in NegativeIntents, MarkNotInterested(intent)
          PROVE  TypeOK'
      <3>1. "REFUSED" \in LeadStatus
        BY DEF LeadStatus
      <3>2. lead' \in Lead
        BY <2>3, <3>1, MovedTyped DEF TypeOK, MarkNotInterested
      <3>3. promises' \in Promises
        BY <2>3 DEF TypeOK, MarkNotInterested, Promises
      <3> QED BY <2>3, <3>1, <3>2, <3>3 DEF TypeOK, MarkNotInterested, Others
    <2>4. ASSUME NEW days \in CooldownDays, SetCooldown(days)
          PROVE  TypeOK'
      <3> DEFINE until == now + (IF days = 0 THEN DefaultCooldown ELSE days)
                 dated == [ lead EXCEPT !.do_not_contact_until = until ]
      <3>1. until \in Time
        BY <2>4 DEF SetCooldown
      <3>2. "COOLDOWN" \in LeadStatus
        BY DEF LeadStatus
      <3>3. dated \in Lead
        BY <3>1 DEF TypeOK, Lead
      <3>4. lead' \in Lead
        BY <2>4, <3>2, <3>3, MovedTyped DEF SetCooldown
      <3>5. promises' \in Promises
        BY <2>4, <3>1 DEF SetCooldown, TypeOK, Promises
      <3>6. visited' \subseteq LeadStatus
        BY <2>4, <3>2 DEF SetCooldown, TypeOK
      <3> QED BY <2>4, <3>4, <3>5, <3>6 DEF TypeOK, SetCooldown, Others
    <2>5. CASE FirstTouch
      <3>1. broken' \subseteq Channels \X PromiseKinds
        BY <2>5, MailTyped DEF FirstTouch, Channels
      <3> QED BY <2>5, <3>1, TransitionTyped DEF TypeOK, FirstTouch
    <2>6. CASE SendCampaign
      <3>1. broken' \subseteq Channels \X PromiseKinds
        BY <2>6, MailTyped DEF SendCampaign, Channels
      <3> QED BY <2>6, <3>1, TransitionTyped DEF TypeOK, SendCampaign
    <2>7. CASE Tick
      BY <2>7, MaxTimeAssumption DEF TypeOK, Tick, Time
    <2>8. CASE UNCHANGED vars
      BY <2>8 DEF TypeOK, vars
    <2> QED
      BY <2>1, <2>2, <2>3, <2>4, <2>5, <2>6, <2>7, <2>8
      DEF Next, EnrichLead, ScoreLead, QualifyLead, DisqualifyLead, RecordReply,
          MarkInterested, HandoffToManager, MarkConverted, MarkLost, TransitionTo
  <1> QED BY <1>1, <1>2, PTL DEF Spec

-----------------------------------------------------------------------------
(* A handoff is warm.  The property speaks of the end of the path only; the *)
(* invariant says of each stage that the lead passed it if it is anywhere   *)
(* behind it on the graph.                                                  *)

AfterInterest == { "INTEREST_DETECTED", "QUALIFIED", "HANDED_TO_MANAGER", "CONVERTED" }
AfterReply    == AfterInterest \cup { "REPLY_RECEIVED" }
AfterOutreach == AfterReply \cup { "OUTREACH_SENT", "IN_SEQUENCE" }
AfterScoring  == AfterOutreach \cup { "SCORED", "EMAIL_READY" }

StagesPassed(status, seen) ==
    /\ status \in AfterInterest => "INTEREST_DETECTED" \in seen
    /\ status \in AfterReply    => "REPLY_RECEIVED" \in seen
    /\ status \in AfterOutreach => "OUTREACH_SENT" \in seen
    /\ status \in AfterScoring  => "SCORED" \in seen

\* An edge of the graph never skips a stage.
LEMMA EdgesKeepStages ==
    ASSUME NEW from \in LeadStatus, NEW to, NEW seen,
           CanTransition(from, to), StagesPassed(from, seen)
    PROVE  StagesPassed(to, IF to = "LEAD_FOUND" THEN {to} ELSE seen \cup {to})
  BY DEF CanTransition, Transitions, LeadStatus, StagesPassed,
         AfterInterest, AfterReply, AfterOutreach, AfterScoring

\* No transition reaches a status before the stages that lead to it.
LEMMA TransitionKeepsStages ==
    ASSUME TypeOK, NEW target, Transition(target), StagesPassed(lead.status, visited)
    PROVE  StagesPassed(lead.status, visited)'
  <1>1. target \in LeadStatus /\ lead \in Lead /\ lead.status \in LeadStatus
    BY TransitionTyped DEF TypeOK, Lead
  <1>2. lead'.status = target
    BY <1>1, MovedTyped DEF Transition
  <1> QED BY <1>1, <1>2, EdgesKeepStages DEF Transition, StagesPassed

\* Whatever the interleaving of calls, a lead with a manager has been through
\* scoring, outreach, a reply and the detection of interest.
THEOREM HandoffsAreWarm == Spec => []HandoffIsWarm
  <1> DEFINE Inv == StagesPassed(lead.status, visited)
  <1>1. Init => Inv
    BY DEF Init, NewLead, StagesPassed, AfterInterest, AfterReply, AfterOutreach,
           AfterScoring
  <1>2. TypeOK /\ Inv /\ [Next]_vars => Inv'
    <2> SUFFICES ASSUME TypeOK, Inv, [Next]_vars PROVE Inv'
      OBVIOUS
    <2>1. CASE DiscoverLead
      <3>1. lead'.status = "LEAD_FOUND"
        BY <2>1 DEF TypeOK, DiscoverLead, Lead
      <3> QED BY <3>1 DEF StagesPassed, AfterInterest, AfterReply, AfterOutreach,
                          AfterScoring
    <2>2. ASSUME NEW target, Transition(target) PROVE Inv'
      BY <2>2, TransitionKeepsStages
    <2>3. ASSUME UNCHANGED << lead, visited >> PROVE Inv'
      BY <2>3
    <2>4. ASSUME NEW intent \in NegativeIntents, MarkNotInterested(intent)
          PROVE  Inv'
      <3>1. "REFUSED" \in LeadStatus
        BY DEF LeadStatus
      <3>2. lead'.status = "REFUSED"
        BY <2>4, <3>1, MovedTyped DEF TypeOK, MarkNotInterested
      <3> QED BY <3>2 DEF StagesPassed, AfterInterest, AfterReply, AfterOutreach,
                          AfterScoring
    <2>5. ASSUME NEW days \in CooldownDays, SetCooldown(days)
          PROVE  Inv'
      <3> DEFINE until == now + (IF days = 0 THEN DefaultCooldown ELSE days)
                 dated == [ lead EXCEPT !.do_not_contact_until = until ]
      <3>1. dated \in Lead /\ dated.status = lead.status
        BY <2>5 DEF TypeOK, Lead, SetCooldown
      <3>2. CASE CanTransition(lead.status, "COOLDOWN")
        <4>1. "COOLDOWN" \in LeadStatus
          BY DEF LeadStatus
        <4>2. lead'.status = "COOLDOWN"
          BY <2>5, <3>1, <3>2, <4>1, MovedTyped DEF SetCooldown
        <4> QED BY <4>2 DEF StagesPassed, AfterInterest, AfterReply, AfterOutreach,
                            AfterScoring
      <3>3. CASE ~ CanTransition(lead.status, "COOLDOWN")
        BY <2>5, <3>1, <3>3 DEF SetCooldown, StagesPassed
      <3> QED BY <3>2, <3>3
    <2> QED
      BY <2>1, <2>2, <2>3, <2>4, <2>5
      DEF Next, EnrichLead, ScoreLead, QualifyLead, DisqualifyLead, RecordReply,
          MarkInterested, HandoffToManager, MarkConverted, MarkLost, TransitionTo,
          FirstTouch, SendCampaign, Tick, vars
  <1>3. Inv => HandoffIsWarm
    BY DEF StagesPassed, HandoffIsWarm, WarmPath, AfterInterest, AfterReply,
           AfterOutreach, AfterScoring
  <1> QED BY <1>1, <1>2, <1>3, TypeCorrect, PTL DEF Spec

-----------------------------------------------------------------------------
(* An opt-out is forever.  The promise outlives the OPTED_OUT status because *)
(* the flag on the lead does; the gate asks for the flag.                    *)

OptOutRemembered == promises.opted_out => lead.opted_out

\* No transition forgets that the lead has opted out.
LEMMA TransitionKeepsOptOut ==
    ASSUME TypeOK, NEW target, Transition(target), OptOutRemembered
    PROVE  OptOutRemembered'
  <1>1. target \in LeadStatus
    BY TransitionTyped
  <1>2. lead'.opted_out = (lead.opted_out \/ target = "OPTED_OUT")
    BY <1>1, MovedTyped DEF TypeOK, Transition
  <1>3. promises'.opted_out = (promises.opted_out \/ target = "OPTED_OUT")
    BY DEF TypeOK, Promises, Transition
  <1> QED BY <1>2, <1>3 DEF OptOutRemembered

\* No sequence of calls lets the outreach task mail a lead that was opted out.
THEOREM OptOutsAreForever == Spec => []OptOutIsForever
  <1> DEFINE Inv == OptOutRemembered /\ OptOutIsForever
  <1>1. Init => Inv
    BY DEF Init, OptOutRemembered, OptOutIsForever
  <1>2. TypeOK /\ Inv /\ [Next]_vars => Inv'
    <2> SUFFICES ASSUME TypeOK, Inv, [Next]_vars PROVE Inv'
      OBVIOUS
    <2>1. ASSUME UNCHANGED broken, OptOutRemembered' PROVE Inv'
      BY <2>1 DEF OptOutIsForever
    <2>2. ASSUME UNCHANGED << lead, promises >> PROVE OptOutRemembered'
      BY <2>2 DEF OptOutRemembered
    <2>3. ASSUME NEW target, Transition(target) PROVE OptOutRemembered'
      BY <2>3, TransitionKeepsOptOut
    <2>4. CASE DiscoverLead
      <3>1. lead'.opted_out = lead.opted_out
        BY <2>4 DEF TypeOK, DiscoverLead, Lead
      <3> QED BY <2>1, <2>4, <3>1 DEF DiscoverLead, Others, OptOutRemembered
    <2>5. ASSUME NEW intent \in NegativeIntents, MarkNotInterested(intent)
          PROVE  Inv'
      <3>1. "REFUSED" \in LeadStatus
        BY DEF LeadStatus
      <3>2. lead'.opted_out = lead.opted_out
        BY <2>5, <3>1, MovedTyped DEF TypeOK, MarkNotInterested, Lead
      <3>3. promises'.opted_out = promises.opted_out
        BY <2>5 DEF TypeOK, MarkNotInterested, Promises
      <3> QED BY <2>1, <2>5, <3>2, <3>3 DEF MarkNotInterested, Others, OptOutRemembered
    <2>6. ASSUME NEW days \in CooldownDays, SetCooldown(days)
          PROVE  Inv'
      <3> DEFINE until == now + (IF days = 0 THEN DefaultCooldown ELSE days)
                 dated == [ lead EXCEPT !.do_not_contact_until = until ]
      <3>1. dated \in Lead /\ dated.opted_out = lead.opted_out
        BY <2>6 DEF TypeOK, Lead, SetCooldown
      <3>2. "COOLDOWN" \in LeadStatus
        BY DEF LeadStatus
      <3>3. lead'.opted_out = lead.opted_out
        BY <2>6, <3>1, <3>2, MovedTyped DEF SetCooldown, Lead
      <3>4. promises'.opted_out = promises.opted_out
        BY <2>6 DEF TypeOK, SetCooldown, Promises
      <3> QED BY <2>1, <2>6, <3>3, <3>4 DEF SetCooldown, Others, OptOutRemembered
    <2>7. CASE FirstTouch
      <3>1. ~ promises.opted_out
        BY <2>7 DEF FirstTouch, ValidatePreSend, ValidateLead, OptOutRemembered
      <3>2. "opt_out" \notin BrokenNow
        BY <3>1 DEF BrokenNow
      <3>3. OptOutIsForever'
        BY <2>7, <3>2 DEF FirstTouch, Mail, OptOutIsForever
      <3> QED BY <2>2, <2>3, <2>7, <3>3 DEF FirstTouch
    <2>8. CASE SendCampaign
      <3>1. OptOutIsForever'
        BY <2>8 DEF SendCampaign, Mail, OptOutIsForever
      <3> QED BY <2>2, <2>3, <2>8, <3>1 DEF SendCampaign
    <2> QED
      BY <2>1, <2>2, <2>3, <2>4, <2>5, <2>6, <2>7, <2>8
      DEF Next, EnrichLead, ScoreLead, QualifyLead, DisqualifyLead, RecordReply,
          MarkInterested, HandoffToManager, MarkConverted, MarkLost, TransitionTo,
          Tick, vars, Others
  <1>3. Inv => OptOutIsForever
    OBVIOUS
  <1> QED BY <1>1, <1>2, <1>3, TypeCorrect, PTL DEF Spec

-----------------------------------------------------------------------------
(* A cooldown is honoured: the date on the lead is always that of the last   *)
(* cooldown, since no transition and no rediscovery touches it.              *)

DateRemembered == promises.quiet_until = lead.do_not_contact_until

\* No transition forgets the date before which the lead is not contacted.
LEMMA TransitionKeepsDate ==
    ASSUME TypeOK, NEW target, Transition(target), DateRemembered
    PROVE  DateRemembered'
  <1>1. target \in LeadStatus
    BY TransitionTyped
  <1>2. lead'.do_not_contact_until = lead.do_not_contact_until
    BY <1>1, MovedTyped DEF TypeOK, Transition
  <1>3. promises'.quiet_until = promises.quiet_until
    BY DEF TypeOK, Promises, Transition
  <1> QED BY <1>2, <1>3 DEF DateRemembered

\* However a lead is moved about, the outreach task waits for the end of its
\* last cooldown.
THEOREM CooldownsAreHonoured == Spec => []CooldownHonoured
  <1> DEFINE Inv == DateRemembered /\ CooldownHonoured
  <1>1. Init => Inv
    BY DEF Init, NewLead, DateRemembered, CooldownHonoured
  <1>2. TypeOK /\ Inv /\ [Next]_vars => Inv'
    <2> SUFFICES ASSUME TypeOK, Inv, [Next]_vars PROVE Inv'
      OBVIOUS
    <2>1. ASSUME UNCHANGED broken, DateRemembered' PROVE Inv'
      BY <2>1 DEF CooldownHonoured
    <2>2. ASSUME UNCHANGED << lead, promises >> PROVE DateRemembered'
      BY <2>2 DEF DateRemembered
    <2>3. ASSUME NEW target, Transition(target) PROVE DateRemembered'
      BY <2>3, TransitionKeepsDate
    <2>4. CASE DiscoverLead
      <3>1. lead'.do_not_contact_until = lead.do_not_contact_until
        BY <2>4 DEF TypeOK, DiscoverLead, Lead
      <3> QED BY <2>1, <2>4, <3>1 DEF DiscoverLead, Others, DateRemembered
    <2>5. ASSUME NEW intent \in NegativeIntents, MarkNotInterested(intent)
          PROVE  Inv'
      <3>1. "REFUSED" \in LeadStatus
        BY DEF LeadStatus
      <3>2. lead'.do_not_contact_until = lead.do_not_contact_until
        BY <2>5, <3>1, MovedTyped DEF TypeOK, MarkNotInterested
      <3>3. promises'.quiet_until = promises.quiet_until
        BY <2>5 DEF TypeOK, MarkNotInterested, Promises
      <3> QED BY <2>1, <2>5, <3>2, <3>3 DEF MarkNotInterested, Others, DateRemembered
    <2>6. ASSUME NEW days \in CooldownDays, SetCooldown(days)
          PROVE  Inv'
      <3> DEFINE until == now + (IF days = 0 THEN DefaultCooldown ELSE days)
                 dated == [ lead EXCEPT !.do_not_contact_until = until ]
      <3>1. dated \in Lead /\ dated.do_not_contact_until = until
        BY <2>6 DEF TypeOK, Lead, SetCooldown
      <3>2. "COOLDOWN" \in LeadStatus
        BY DEF LeadStatus
      <3>3. lead'.do_not_contact_until = until
        <4>1. lead' = dated \/ lead' = Moved(dated, "COOLDOWN")
          BY <2>6 DEF SetCooldown
        <4>2. Moved(dated, "COOLDOWN").do_not_contact_until = dated.do_not_contact_until
          <5> HIDE DEF dated
          <5> QED BY <3>1, <3>2, MovedTyped
        <4> HIDE DEF dated, until
        <4> QED BY <3>1, <4>1, <4>2
      <3>4. promises'.quiet_until = until
        BY <2>6 DEF TypeOK, SetCooldown, Promises
      <3> QED BY <2>1, <2>6, <3>3, <3>4 DEF SetCooldown, Others, DateRemembered
    <2>7. CASE FirstTouch
      <3>1. ~ InFuture(promises.quiet_until)
        BY <2>7 DEF FirstTouch, ValidatePreSend, ValidateLead, DateRemembered
      <3>2. "cooldown" \notin BrokenNow
        BY <3>1 DEF BrokenNow
      <3>3. CooldownHonoured'
        BY <2>7, <3>2 DEF FirstTouch, Mail, CooldownHonoured
      <3> QED BY <2>2, <2>3, <2>7, <3>3 DEF FirstTouch
    <2>8. CASE SendCampaign
      <3>1. CooldownHonoured'
        BY <2>8 DEF SendCampaign, Mail, CooldownHonoured
      <3> QED BY <2>2, <2>3, <2>8, <3>1 DEF SendCampaign
    <2> QED
      BY <2>1, <2>2, <2>3, <2>4, <2>5, <2>6, <2>7, <2>8
      DEF Next, EnrichLead, ScoreLead, QualifyLead, DisqualifyLead, RecordReply,
          MarkInterested, HandoffToManager, MarkConverted, MarkLost, TransitionTo,
          Tick, vars, Others
  <1>3. Inv => CooldownHonoured
    OBVIOUS
  <1> QED BY <1>1, <1>2, <1>3, TypeCorrect, PTL DEF Spec
=============================================================================
