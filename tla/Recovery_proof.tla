---------------------------- MODULE Recovery_proof ----------------------------
(***************************************************************************)
(* Proofs about the traces of pipeline runs and their recovery, for any    *)
(* workers and any number of overlapping deliveries of the beat task.      *)
(* Automatic recovery is bounded, whatever traces, steps and the retry     *)
(* endpoints do meanwhile; and the work of the pipeline itself: the traces *)
(* are true, the first touch is not repeated unless it was rolled back,    *)
(* and the followup after it has its turn.                                 *)
(***************************************************************************)
EXTENDS Recovery, FiniteSetTheorems, TLAPS

\* The deliveries that have yet to recover run r, and those that have yet to count it.
ToRetry(r) == { b \in Beats : beat[b].stage = "retry" /\ beat[b].run = r }
ToCount(r) == { b \in Beats : beat[b].stage = "count" /\ beat[b].run = r }

BeatsTyped ==
    /\ beat \in [Beats -> [stage : { "idle", "retry", "count" }, run : Runs]]
    /\ recoveries \in [Runs -> Nat] /\ started \in [Runs -> Nat] /\ uncounted \in [Runs -> Nat]

\* A recovery is counted or about to be; the deliveries past the comparison
\* with the limit are among all but one.
RecoveriesInv ==
    /\ BeatsTyped
    /\ \A r \in Runs :
        /\ started[r] <= recoveries[r] + Cardinality(ToCount(r)) + uncounted[r]
        /\ started[r] + Cardinality(ToRetry(r)) <= MaxPerRun + Cardinality(Beats) - 1 + uncounted[r]

-----------------------------------------------------------------------------
\* Deliveries are finitely many, and none is in two stages.
LEMMA DeliveriesFit ==
  ASSUME NEW r
  PROVE  /\ IsFiniteSet(ToRetry(r)) /\ IsFiniteSet(ToCount(r)) /\ IsFiniteSet(Beats)
         /\ Cardinality(ToRetry(r)) \in Nat /\ Cardinality(ToCount(r)) \in Nat
         /\ Cardinality(Beats) \in Nat \ {0}
         /\ Cardinality(ToRetry(r)) + Cardinality(ToCount(r)) <= Cardinality(Beats)
  <1>1. IsFiniteSet(Beats) /\ Beats # {}
    BY RecoveryAssumption
  <1>2. ToRetry(r) \subseteq Beats /\ ToCount(r) \subseteq Beats
        /\ ToRetry(r) \cup ToCount(r) \subseteq Beats
    BY DEF ToRetry, ToCount
  <1>3. IsFiniteSet(ToRetry(r)) /\ IsFiniteSet(ToCount(r)) /\ IsFiniteSet(ToRetry(r) \cup ToCount(r))
        /\ Cardinality(ToRetry(r) \cup ToCount(r)) <= Cardinality(Beats)
    BY <1>1, <1>2, FS_Subset
  <1>4. ToRetry(r) \cap ToCount(r) = {}
    BY DEF ToRetry, ToCount
  <1>5. Cardinality(ToRetry(r) \cup ToCount(r))
          = Cardinality(ToRetry(r)) + Cardinality(ToCount(r)) - Cardinality(ToRetry(r) \cap ToCount(r))
    BY <1>3, FS_Union
  <1>6. Cardinality(Beats) \in Nat /\ Cardinality(Beats) # 0
        /\ Cardinality(ToRetry(r)) \in Nat /\ Cardinality(ToCount(r)) \in Nat
        /\ Cardinality(ToRetry(r) \cap ToCount(r)) = 0
    BY <1>1, <1>3, <1>4, FS_CardinalityType, FS_EmptySet
  <1> QED BY <1>1, <1>3, <1>5, <1>6

\* The same after the step.
LEMMA DeliveriesFitLater ==
  ASSUME NEW r
  PROVE  Cardinality(ToRetry(r)') + Cardinality(ToCount(r)') <= Cardinality(Beats)
  <1>1. IsFiniteSet(Beats)
    BY RecoveryAssumption
  <1>2. ToRetry(r)' \cup ToCount(r)' \subseteq Beats /\ ToRetry(r)' \cap ToCount(r)' = {}
        /\ ToRetry(r)' \subseteq Beats /\ ToCount(r)' \subseteq Beats
    BY DEF ToRetry, ToCount
  <1>3. IsFiniteSet(ToRetry(r)') /\ IsFiniteSet(ToCount(r)')
        /\ Cardinality(ToRetry(r)' \cup ToCount(r)') <= Cardinality(Beats)
    BY <1>1, <1>2, FS_Subset
  <1>4. Cardinality(ToRetry(r)' \cup ToCount(r)')
          = Cardinality(ToRetry(r)') + Cardinality(ToCount(r)') - Cardinality(ToRetry(r)' \cap ToCount(r)')
    BY <1>3, FS_Union
  <1>5. Cardinality(ToRetry(r)' \cap ToCount(r)') = 0 /\ Cardinality(ToRetry(r)') \in Nat
        /\ Cardinality(ToCount(r)') \in Nat
    BY <1>2, <1>3, FS_EmptySet, FS_CardinalityType
  <1> QED BY <1>3, <1>4, <1>5

\* A step that leaves the deliveries and the counts alone.
LEMMA OtherStepsKeepInv ==
  RecoveriesInv /\ UNCHANGED beatVars => RecoveriesInv'
  BY DEF RecoveriesInv, BeatsTyped, ToRetry, ToCount, beatVars

\* One delivery becomes another value: the sets lose and gain at most this one.
LEMMA DeliveryGoesOn ==
  ASSUME BeatsTyped, NEW b \in Beats, NEW v \in [stage : { "idle", "retry", "count" }, run : Runs],
         beat' = [beat EXCEPT ![b] = v], NEW r
  PROVE  /\ ToRetry(r)' = IF v.stage = "retry" /\ v.run = r THEN ToRetry(r) \cup { b } ELSE ToRetry(r) \ { b }
         /\ ToCount(r)' = IF v.stage = "count" /\ v.run = r THEN ToCount(r) \cup { b } ELSE ToCount(r) \ { b }
  <1>1. \A a \in Beats : beat'[a] = IF a = b THEN v ELSE beat[a]
    BY DEF BeatsTyped
  <1> QED BY <1>1 DEF ToRetry, ToCount

\* No recovery has been counted at the start.
LEMMA RecoveriesInvInit == RecoveryInit => RecoveriesInv
  <1> SUFFICES ASSUME RecoveryInit PROVE RecoveriesInv
    OBVIOUS
  <1>1. BeatsTyped
    BY RecoveryAssumption DEF RecoveryInit, BeatsTyped, AtRest, Runs
  <1>2. ASSUME NEW r \in Runs
        PROVE  /\ started[r] = 0 /\ recoveries[r] = 0 /\ uncounted[r] = 0 /\ MaxPerRun \in Nat
               /\ Cardinality(ToCount(r)) = 0 /\ Cardinality(ToRetry(r)) = 0
    <2>1. ToCount(r) = {} /\ ToRetry(r) = {}
      BY DEF RecoveryInit, AtRest, ToCount, ToRetry
    <2> QED BY <2>1, FS_EmptySet, RecoveryAssumption DEF RecoveryInit
  <1>3. ASSUME NEW r \in Runs
        PROVE  /\ started[r] <= recoveries[r] + Cardinality(ToCount(r)) + uncounted[r]
               /\ started[r] + Cardinality(ToRetry(r)) <= MaxPerRun + Cardinality(Beats) - 1 + uncounted[r]
    BY <1>2, DeliveriesFit
  <1> QED BY <1>1, <1>3 DEF RecoveriesInv

\* Inductive step: the three steps of the beat task, and all the others.
LEMMA RecoveriesInvInductive == RecoveriesInv /\ [RecoveryNext]_recoveryVars => RecoveriesInv'
  <1> SUFFICES ASSUME RecoveriesInv, [RecoveryNext]_recoveryVars PROVE RecoveriesInv'
    OBVIOUS
  <1>0. BeatsTyped /\ MaxPerRun \in Nat
    BY RecoveryAssumption DEF RecoveriesInv
  <1>1. ASSUME NEW b \in Beats, NEW r \in Runs, AutoRecoverRead(b, r) PROVE RecoveriesInv'
    <2> DEFINE v == [stage |-> "retry", run |-> r]
    <2>1. /\ beat' = [beat EXCEPT ![b] = v] /\ UNCHANGED << recoveries, started, uncounted >>
          /\ recoveries[r] < MaxPerRun
          /\ \A q \in Runs : b \notin ToRetry(q) /\ b \notin ToCount(q)
      BY <1>1 DEF AutoRecoverRead, AtRest, ToRetry, ToCount
    <2>2. v \in [stage : { "idle", "retry", "count" }, run : Runs] /\ v.stage = "retry" /\ v.run = r
      OBVIOUS
    <2> HIDE DEF v
    <2>3. BeatsTyped'
      BY <1>0, <2>1, <2>2 DEF BeatsTyped
    <2>4. ASSUME NEW q \in Runs
          PROVE  /\ started'[q] <= recoveries'[q] + Cardinality(ToCount(q)') + uncounted'[q]
                 /\ started'[q] + Cardinality(ToRetry(q)') <= MaxPerRun + Cardinality(Beats) - 1 + uncounted'[q]
      <3>1. ToCount(q)' = ToCount(q)
            /\ ToRetry(q)' = IF q = r THEN ToRetry(q) \cup { b } ELSE ToRetry(q)
        <4>1. /\ ToCount(q)' = ToCount(q) \ { b }
              /\ ToRetry(q)' = IF q = r THEN ToRetry(q) \cup { b } ELSE ToRetry(q) \ { b }
          BY <1>0, <2>1, <2>2, DeliveryGoesOn
        <4>2. b \notin ToCount(q) /\ b \notin ToRetry(q)
          BY <2>1
        <4> QED BY <4>1, <4>2
      <3>2. started[q] \in Nat /\ recoveries[q] \in Nat /\ uncounted[q] \in Nat
            /\ started[q] <= recoveries[q] + Cardinality(ToCount(q)) + uncounted[q]
            /\ started[q] + Cardinality(ToRetry(q)) <= MaxPerRun + Cardinality(Beats) - 1 + uncounted[q]
        BY DEF RecoveriesInv, BeatsTyped
      <3>3. CASE q # r
        <4>1. ToRetry(q)' = ToRetry(q) /\ ToCount(q)' = ToCount(q) /\ started'[q] = started[q]
              /\ recoveries'[q] = recoveries[q] /\ uncounted'[q] = uncounted[q]
          BY <2>1, <3>1, <3>3
        <4> QED BY <3>2, <4>1
      <3>4. CASE q = r
        <4>1. Cardinality(ToRetry(q)') = Cardinality(ToRetry(q)) + 1
          BY <2>1, <3>1, <3>4, DeliveriesFit, FS_AddElement
        <4>2. /\ Cardinality(ToRetry(q)) \in Nat /\ Cardinality(ToCount(q)) \in Nat
              /\ Cardinality(Beats) \in Nat
              /\ Cardinality(ToRetry(q)') + Cardinality(ToCount(q)') <= Cardinality(Beats)
          <5>1. /\ Cardinality(ToRetry(q)) \in Nat /\ Cardinality(ToCount(q)) \in Nat
                /\ Cardinality(Beats) \in Nat
            BY DeliveriesFit
          <5>2. Cardinality(ToRetry(q)') + Cardinality(ToCount(q)') <= Cardinality(Beats)
            BY DeliveriesFitLater
          <5> QED BY <5>1, <5>2
        <4>3. /\ recoveries[q] < MaxPerRun /\ started'[q] = started[q] /\ recoveries'[q] = recoveries[q]
              /\ uncounted'[q] = uncounted[q]
          BY <2>1, <3>4
        <4>4. Cardinality(ToCount(q)') = Cardinality(ToCount(q))
          BY <3>1
        <4> QED BY <1>0, <3>2, <4>1, <4>2, <4>3, <4>4
      <3> QED BY <3>3, <3>4
    <2> QED BY <2>3, <2>4 DEF RecoveriesInv
  <1>2. ASSUME NEW b \in Beats, AutoRecoverRetry(b) PROVE RecoveriesInv'
    <2> DEFINE r == beat[b].run
    <2>1. r \in Runs /\ beat[b].stage = "retry" /\ b \in ToRetry(r)
          /\ \A q \in Runs : (b \in ToRetry(q) => q = r) /\ b \notin ToCount(q)
      BY <1>0, <1>2 DEF AutoRecoverRetry, BeatsTyped, ToRetry, ToCount
    <2>2. PICK v \in [stage : { "idle", "count" }, run : Runs] :
            /\ beat' = [beat EXCEPT ![b] = v] /\ UNCHANGED << recoveries, uncounted >>
            /\ \/ v.stage = "count" /\ v.run = r /\ started' = [started EXCEPT ![r] = @ + 1]
               \/ v.stage = "idle" /\ UNCHANGED started
      <3>1. CASE started' = started /\ beat' = [beat EXCEPT ![b] = AtRest]
        <4>1. AtRest \in [stage : { "idle", "count" }, run : Runs] /\ AtRest.stage = "idle"
          BY RecoveryAssumption DEF AtRest, Runs
        <4> QED BY <1>2, <3>1, <4>1 DEF AutoRecoverRetry
      <3>2. CASE started' = [started EXCEPT ![r] = @ + 1] /\ beat' = [beat EXCEPT ![b].stage = "count"]
        <4> DEFINE v == [stage |-> "count", run |-> r]
        <4>1. beat' = [beat EXCEPT ![b] = v]
          <5>1. [beat[b] EXCEPT !.stage = "count"] = v
            BY <1>0 DEF BeatsTyped
          <5> QED BY <3>2, <5>1
        <4>2. v \in [stage : { "idle", "count" }, run : Runs] /\ v.stage = "count" /\ v.run = r
          BY <2>1
        <4> QED BY <1>2, <3>2, <4>1, <4>2 DEF AutoRecoverRetry
      <3> QED BY <1>2, <3>1, <3>2 DEF AutoRecoverRetry
    <2> HIDE DEF r
    <2>3. BeatsTyped'
      BY <1>0, <2>1, <2>2 DEF BeatsTyped
    <2>4. ASSUME NEW q \in Runs
          PROVE  /\ started'[q] <= recoveries'[q] + Cardinality(ToCount(q)') + uncounted'[q]
                 /\ started'[q] + Cardinality(ToRetry(q)') <= MaxPerRun + Cardinality(Beats) - 1 + uncounted'[q]
      <3>1. /\ ToRetry(q)' = ToRetry(q) \ { b }
            /\ ToCount(q)' = IF v.stage = "count" /\ v.run = q THEN ToCount(q) \cup { b } ELSE ToCount(q) \ { b }
        BY <1>0, <2>2, DeliveryGoesOn
      <3>2. started[q] \in Nat /\ recoveries[q] \in Nat /\ uncounted[q] \in Nat
            /\ started[q] <= recoveries[q] + Cardinality(ToCount(q)) + uncounted[q]
            /\ started[q] + Cardinality(ToRetry(q)) <= MaxPerRun + Cardinality(Beats) - 1 + uncounted[q]
        BY DEF RecoveriesInv, BeatsTyped
      <3>3. CASE q # r
        <4>1. ToRetry(q)' = ToRetry(q) /\ ToCount(q)' = ToCount(q) /\ started'[q] = started[q]
              /\ recoveries'[q] = recoveries[q] /\ uncounted'[q] = uncounted[q]
          BY <1>0, <2>1, <2>2, <3>1, <3>3 DEF BeatsTyped
        <4> QED BY <3>2, <4>1
      <3>4. CASE q = r
        <4>1. Cardinality(ToRetry(q)') = Cardinality(ToRetry(q)) - 1
          BY <2>1, <3>1, <3>4, DeliveriesFit, FS_RemoveElement
        <4>2. CASE v.stage = "count"
          <5>1. Cardinality(ToCount(q)') = Cardinality(ToCount(q)) + 1
            BY <2>1, <2>2, <3>1, <3>4, <4>2, DeliveriesFit, FS_AddElement
          <5>2. started'[q] = started[q] + 1 /\ recoveries'[q] = recoveries[q] /\ uncounted'[q] = uncounted[q]
            BY <1>0, <2>1, <2>2, <3>4, <4>2 DEF BeatsTyped
          <5> QED BY <1>0, <3>2, <4>1, <5>1, <5>2, DeliveriesFit
        <4>3. CASE v.stage # "count"
          <5>1. /\ ToCount(q)' = ToCount(q) /\ started'[q] = started[q] /\ recoveries'[q] = recoveries[q]
                /\ uncounted'[q] = uncounted[q]
            BY <2>1, <2>2, <3>1, <4>3
          <5> QED BY <1>0, <3>2, <4>1, <5>1, DeliveriesFit
        <4> QED BY <4>2, <4>3
      <3> QED BY <3>3, <3>4
    <2> QED BY <2>3, <2>4 DEF RecoveriesInv
  <1>3. ASSUME NEW b \in Beats, AutoRecoverCount(b) \/ AutoRecoverUncounted(b) PROVE RecoveriesInv'
    <2> DEFINE r == beat[b].run
    <2>1. /\ beat' = [beat EXCEPT ![b] = AtRest]
          /\ \/ recoveries' = [recoveries EXCEPT ![r] = @ + 1] /\ UNCHANGED uncounted
             \/ uncounted' = [uncounted EXCEPT ![r] = @ + 1] /\ UNCHANGED recoveries
          /\ UNCHANGED started /\ r \in Runs /\ b \in ToCount(r)
          /\ \A q \in Runs : (b \in ToCount(q) => q = r) /\ b \notin ToRetry(q)
      BY <1>0, <1>3 DEF AutoRecoverCount, AutoRecoverUncounted, BeatsTyped, ToRetry, ToCount
    <2>2. AtRest \in [stage : { "idle", "retry", "count" }, run : Runs] /\ AtRest.stage = "idle"
      BY RecoveryAssumption DEF AtRest, Runs
    <2> HIDE DEF r
    <2>3. BeatsTyped'
      BY <1>0, <2>1, <2>2 DEF BeatsTyped
    <2>4. ASSUME NEW q \in Runs
          PROVE  /\ started'[q] <= recoveries'[q] + Cardinality(ToCount(q)') + uncounted'[q]
                 /\ started'[q] + Cardinality(ToRetry(q)') <= MaxPerRun + Cardinality(Beats) - 1 + uncounted'[q]
      <3>1. ToRetry(q)' = ToRetry(q) \ { b } /\ ToCount(q)' = ToCount(q) \ { b }
        BY <1>0, <2>1, <2>2, DeliveryGoesOn
      <3>2. started[q] \in Nat /\ recoveries[q] \in Nat /\ uncounted[q] \in Nat
            /\ started[q] <= recoveries[q] + Cardinality(ToCount(q)) + uncounted[q]
            /\ started[q] + Cardinality(ToRetry(q)) <= MaxPerRun + Cardinality(Beats) - 1 + uncounted[q]
        BY DEF RecoveriesInv, BeatsTyped
      <3>3. CASE q # r
        <4>1. ToRetry(q)' = ToRetry(q) /\ ToCount(q)' = ToCount(q) /\ started'[q] = started[q]
              /\ recoveries'[q] = recoveries[q] /\ uncounted'[q] = uncounted[q]
          BY <1>0, <2>1, <3>1, <3>3 DEF BeatsTyped
        <4> QED BY <3>2, <4>1
      <3>4. CASE q = r
        <4>0. b \in ToCount(q) /\ b \notin ToRetry(q)
          BY <2>1, <3>4
        <4>1. Cardinality(ToCount(q)') = Cardinality(ToCount(q)) - 1 /\ ToRetry(q)' = ToRetry(q)
          <5>1. IsFiniteSet(ToCount(q))
            BY DeliveriesFit
          <5>2. Cardinality(ToCount(q) \ { b }) = Cardinality(ToCount(q)) - 1
            BY <4>0, <5>1, FS_RemoveElement
          <5> QED BY <3>1, <4>0, <5>2
        <4>2. /\ started'[q] = started[q]
              /\ \/ recoveries'[q] = recoveries[q] + 1 /\ uncounted'[q] = uncounted[q]
                 \/ recoveries'[q] = recoveries[q] /\ uncounted'[q] = uncounted[q] + 1
          BY <1>0, <2>1, <3>4 DEF BeatsTyped
        <4>3. Cardinality(ToCount(q)) \in Nat /\ Cardinality(ToRetry(q)) \in Nat /\ Cardinality(Beats) \in Nat
          BY DeliveriesFit
        <4>4. recoveries'[q] + uncounted'[q] = recoveries[q] + uncounted[q] + 1
              /\ recoveries'[q] \in Nat /\ uncounted'[q] \in Nat /\ uncounted'[q] >= uncounted[q]
          BY <3>2, <4>2
        <4>5. started'[q] <= recoveries'[q] + Cardinality(ToCount(q)') + uncounted'[q]
          BY <3>2, <4>1, <4>2, <4>3, <4>4
        <4>6. Cardinality(ToRetry(q)') = Cardinality(ToRetry(q))
          BY <4>1
        <4>7. started'[q] + Cardinality(ToRetry(q)') <= MaxPerRun + Cardinality(Beats) - 1 + uncounted'[q]
          BY <1>0, <3>2, <4>2, <4>3, <4>4, <4>6
        <4> QED BY <4>5, <4>7
      <3> QED BY <3>3, <3>4
    <2> QED BY <2>3, <2>4 DEF RecoveriesInv
  <1>4. CASE UNCHANGED beatVars
    BY <1>4, OtherStepsKeepInv
  <1>5. ASSUME NEW p \in Procs,
               \/ \E m \in tasks : TakeStep(p, m)
               \/ GetTrace(p) \/ SetTrace(p) \/ RunStep(p) \/ LockNotAcquired(p)
               \/ PublishNext(p) \/ CommittedStepFails(p)
        PROVE  UNCHANGED beatVars
    BY <1>5 DEF TakeStep, GetTrace, SetTrace, RunStep, LockNotAcquired, PublishNext, CommittedStepFails, beatVars
  <1>6. ASSUME NEW r \in Runs, RetryRunCalled(r) PROVE UNCHANGED beatVars
    BY <1>6 DEF RetryRunCalled, beatVars
  <1>7. ASSUME NEW s \in Steps, RetryStepCalled(s) PROVE UNCHANGED beatVars
    BY <1>7 DEF RetryStepCalled, beatVars
  <1>8. CASE UNCHANGED recoveryVars
    BY <1>4, <1>8 DEF recoveryVars, beatVars
  <1> QED BY <1>1, <1>2, <1>3, <1>4, <1>5, <1>6, <1>7, <1>8 DEF RecoveryNext

(* auto_recover_failed_pipelines recovers a run at most max_retries_per_run *)
(* times, and once more per further overlapping delivery: the count is      *)
(* compared before a recovery and incremented after it - if it can be.  *)
THEOREM RecoveriesAreBounded == RecoverySpec => []RecoveriesBounded
  <1>1. RecoveriesInv => RecoveriesBounded
    <2> SUFFICES ASSUME RecoveriesInv, NEW r \in Runs
                 PROVE  started[r] <= MaxPerRun + Cardinality(Beats) - 1 + uncounted[r]
      BY DEF RecoveriesBounded
    <2>1. started[r] \in Nat /\ MaxPerRun \in Nat /\ uncounted[r] \in Nat
          /\ started[r] + Cardinality(ToRetry(r)) <= MaxPerRun + Cardinality(Beats) - 1 + uncounted[r]
      BY RecoveryAssumption DEF RecoveriesInv, BeatsTyped
    <2> QED BY <2>1, DeliveriesFit
  <1> QED BY <1>1, RecoveriesInvInit, RecoveriesInvInductive, PTL DEF RecoverySpec

-----------------------------------------------------------------------------
(* The work of the pipeline.                                                *)

TraceEntries == [step : Steps, is : Records]
TraceDocs == [status : { "none", "running", "failed" }, entries : Seq(TraceEntries)]
ProcDocs == [stage : { "idle", "get", "set", "run", "publish" }, step : Steps, run : Runs,
             record : Records, doc : TraceDocs]

RecoveryTyped ==
    /\ status \in Statuses /\ tasks \subseteq Message /\ stepKeys \subseteq Steps \X Runs
    /\ trace \in [Runs -> TraceDocs] /\ listed \subseteq Runs /\ runs \in Runs
    /\ proc \in [Procs -> ProcDocs]
    /\ beat \in [Beats -> [stage : { "idle", "retry", "count" }, run : Runs]]
    /\ recoveries \in [Runs -> Nat] /\ started \in [Runs -> Nat] /\ uncounted \in [Runs -> Nat]
    /\ touched \in Nat /\ torn \in Nat /\ followed \in BOOLEAN /\ early \in BOOLEAN /\ dropped \in BOOLEAN
    /\ failures \in 0 .. MaxFailures /\ requests \in 0 .. MaxRequests

\* The order of the statuses: a step moves the lead on.
LEMMA StepsMoveOn ==
    /\ \A s \in Steps : /\ Wants[s] \in Statuses /\ Leaves[s] \in Statuses
                        /\ Rank[Leaves[s]] > Rank[Wants[s]]
                        /\ Rank[Wants[s]] \in 0 .. 5 /\ Rank[Leaves[s]] \in 0 .. 5
    /\ \A t \in Statuses : Rank[t] \in 0 .. 5
    /\ Wants["outreach"] = "EMAIL_READY" /\ Leaves["outreach"] = "OUTREACH_SENT"
    /\ Wants["followup_1"] = "OUTREACH_SENT"
    /\ Rank["EMAIL_READY"] = 3 /\ Rank["OUTREACH_SENT"] = 4
    /\ \A t \in Statuses : Rank[t] = 4 => t = "OUTREACH_SENT"
  <1>1. \A s \in Steps : /\ Wants[s] \in { "LEAD_FOUND", "ENRICHED", "SCORED", "EMAIL_READY", "OUTREACH_SENT" }
                         /\ Leaves[s] \in { "ENRICHED", "SCORED", "EMAIL_READY", "OUTREACH_SENT", "IN_SEQUENCE" }
                         /\ Rank[Leaves[s]] > Rank[Wants[s]]
    BY DEF Steps, Wants, Leaves, Rank
  <1>2. Statuses = { "LEAD_FOUND", "ENRICHED", "SCORED", "EMAIL_READY", "OUTREACH_SENT", "IN_SEQUENCE" }
    <2>1. \A t : t \in { Wants[s] : s \in Steps }
                    <=> t \in { "LEAD_FOUND", "ENRICHED", "SCORED", "EMAIL_READY", "OUTREACH_SENT" }
      BY DEF Steps, Wants
    <2> QED BY <2>1 DEF Statuses
  <1>3. \A t \in Statuses : Rank[t] \in 0 .. 5 /\ (Rank[t] = 4 => t = "OUTREACH_SENT")
    BY <1>2 DEF Rank
  <1>4. /\ Wants["outreach"] = "EMAIL_READY" /\ Leaves["outreach"] = "OUTREACH_SENT"
        /\ Wants["followup_1"] = "OUTREACH_SENT"
        /\ Rank["EMAIL_READY"] = 3 /\ Rank["OUTREACH_SENT"] = 4
    BY DEF Wants, Leaves, Rank
  <1> QED BY <1>1, <1>2, <1>3, <1>4

\* Ended changes or appends at most one entry, to the record it is given.
LEMMA EndedValues ==
  ASSUME NEW entries \in Seq(TraceEntries), NEW s \in Steps, NEW record \in Records
  PROVE  /\ Ended(entries, s, record) \in Seq(TraceEntries)
         /\ ToSet(Ended(entries, s, record)) \subseteq ToSet(entries) \cup { [step |-> s, is |-> record] }
  <1> DEFINE open == { i \in DOMAIN entries : entries[i] = [step |-> s, is |-> "started"] }
             entry == [step |-> s, is |-> record]
             k == CHOOSE i \in open : \A j \in open : j <= i
             changed == [entries EXCEPT ![k] = entry]
             longer == Append(entries, entry)
  <1>0. entry \in TraceEntries
    BY DEF TraceEntries
  <1>1. Ended(entries, s, record) = IF open # {} THEN changed
                                    ELSE IF record = "error" THEN longer ELSE entries
    BY DEF Ended
  <1> HIDE DEF open, k, entry
  <1>2. changed \in Seq(TraceEntries) /\ ToSet(changed) \subseteq ToSet(entries) \cup { entry }
    <2>1. changed \in Seq(TraceEntries) /\ DOMAIN changed = DOMAIN entries
          /\ \A i \in DOMAIN entries : changed[i] = entries[i] \/ changed[i] = entry
      <3>1. DOMAIN entries = 1 .. Len(entries) /\ Len(entries) \in Nat /\ \A i \in DOMAIN entries : entries[i] \in TraceEntries
        OBVIOUS
      <3>2. DOMAIN changed = DOMAIN entries /\ changed = [i \in DOMAIN entries |-> changed[i]]
        OBVIOUS
      <3>3. \A i \in DOMAIN entries : changed[i] = entries[i] \/ changed[i] = entry
        OBVIOUS
      <3> HIDE DEF changed
      <3>4. changed \in [1 .. Len(entries) -> TraceEntries]
        BY <1>0, <3>1, <3>2, <3>3
      <3>5. changed \in Seq(TraceEntries)
        BY <3>1, <3>4
      <3> QED BY <3>2, <3>3, <3>5
    <2> HIDE DEF changed
    <2> QED BY <2>1 DEF ToSet
  <1>3. longer \in Seq(TraceEntries) /\ ToSet(longer) \subseteq ToSet(entries) \cup { entry }
    <2>1. longer \in Seq(TraceEntries) /\ DOMAIN longer = 1 .. Len(entries) + 1 /\ DOMAIN entries = 1 .. Len(entries)
          /\ \A i \in 1 .. Len(entries) + 1 : (i \in 1 .. Len(entries) /\ longer[i] = entries[i]) \/ longer[i] = entry
      BY <1>0
    <2> HIDE DEF longer
    <2> QED BY <2>1 DEF ToSet
  <1> HIDE DEF changed, longer
  <1> QED BY <1>1, <1>2, <1>3 DEF entry

\* What a record makes of a trace: no entry but its own is added.
LEMMA RecordedValues ==
  ASSUME NEW doc \in TraceDocs, NEW s \in Steps, NEW record \in Records
  PROVE  /\ Recorded(doc, s, record) \in TraceDocs
         /\ ToSet(Recorded(doc, s, record).entries) \subseteq ToSet(doc.entries) \cup { [step |-> s, is |-> record] }
  <1> DEFINE old == IF doc = NoTrace THEN NewTrace ELSE doc
             entry == [step |-> s, is |-> record]
             ended == Ended(old.entries, s, record)
             longer == Append(old.entries, entry)
  <1>1. old \in TraceDocs /\ old.entries = doc.entries /\ old.entries \in Seq(TraceEntries)
    <2>1. NewTrace \in TraceDocs /\ NewTrace.entries = NoTrace.entries
      BY DEF NewTrace, NoTrace, TraceDocs
    <2> QED BY <2>1 DEF TraceDocs
  <1>2. NoTrace \in TraceDocs
    BY DEF NoTrace, TraceDocs
  <1>3. entry \in TraceEntries
    BY DEF TraceEntries
  <1> HIDE DEF old, entry
  <1>4. longer \in Seq(TraceEntries) /\ ToSet(longer) \subseteq ToSet(old.entries) \cup { entry }
    <2>1. longer \in Seq(TraceEntries) /\ DOMAIN longer = 1 .. Len(old.entries) + 1
          /\ DOMAIN old.entries = 1 .. Len(old.entries)
          /\ \A i \in 1 .. Len(old.entries) + 1 :
                (i \in 1 .. Len(old.entries) /\ longer[i] = old.entries[i]) \/ longer[i] = entry
      BY <1>1, <1>3
    <2> HIDE DEF longer
    <2> QED BY <2>1 DEF ToSet
  <1>5. ended \in Seq(TraceEntries) /\ ToSet(ended) \subseteq ToSet(old.entries) \cup { entry }
    BY <1>1, EndedValues DEF entry
  <1>6. Recorded(doc, s, record) =
            CASE record \in { "started", "locked", "skipped" } -> [old EXCEPT !.entries = longer]
              [] record = "success" -> IF doc = NoTrace THEN NoTrace ELSE [old EXCEPT !.entries = ended]
              [] record = "error" -> [status |-> "failed", entries |-> ended]
    BY <1>1 DEF Recorded, old, entry, TraceDocs
  <1> HIDE DEF longer, ended
  <1>7. CASE record \in { "started", "locked", "skipped" }
    <2>1. Recorded(doc, s, record) = [old EXCEPT !.entries = longer]
      BY <1>6, <1>7
    <2> QED BY <1>1, <1>4, <2>1 DEF TraceDocs, entry
  <1>8. CASE record = "success"
    <2>1. Recorded(doc, s, record) = IF doc = NoTrace THEN NoTrace ELSE [old EXCEPT !.entries = ended]
      BY <1>6, <1>8
    <2>2. CASE doc = NoTrace
      BY <1>2, <2>1, <2>2
    <2>3. CASE doc # NoTrace
      BY <1>1, <1>5, <2>1, <2>3 DEF TraceDocs, entry
    <2> QED BY <2>2, <2>3
  <1>9. CASE record = "error"
    <2>1. Recorded(doc, s, record) = [status |-> "failed", entries |-> ended]
      BY <1>6, <1>9
    <2> QED BY <1>1, <1>5, <2>1 DEF TraceDocs, entry
  <1> QED BY <1>7, <1>8, <1>9 DEF Records

-----------------------------------------------------------------------------
\* What the actions of a worker do to it.
WorkerGoes(p, w) == proc' = [proc EXCEPT ![p] = w] /\ w \in ProcDocs

\* A worker at rest.
LEMMA IdleTyped ==
    /\ Idle \in ProcDocs /\ Idle.stage = "idle" /\ Idle.step = "enrich" /\ Idle.run = 1 /\ Idle.record = "started"
    /\ Idle.doc = NoTrace /\ NoTrace \in TraceDocs /\ ToSet(NoTrace.entries) = {}
  <1>1. NoTrace \in TraceDocs /\ NoTrace.entries = << >>
    BY DEF NoTrace, TraceDocs
  <1>2. ToSet(<< >>) = {}
    BY DEF ToSet
  <1>3. 1 \in Runs
    BY RecoveryAssumption DEF Runs
  <1> HIDE DEF NoTrace
  <1> QED BY <1>1, <1>2, <1>3 DEF Idle, ProcDocs, Steps, Records

\* A worker that takes a message: to the trace, or, for a followup, to work - or nowhere.
LEMMA TakeStepDoes ==
  ASSUME RecoveryTyped, NEW p \in Procs, NEW m \in tasks, TakeStep(p, m)
  PROVE  /\ proc[p].stage = "idle" /\ m \in Message
         /\ \E w : /\ WorkerGoes(p, w) /\ w.doc = NoTrace /\ w.record \in { "started", "skipped" }
                   /\ w.stage # "idle" => w.step = m.step /\ w.run = m.run
                   /\ w.stage = IF m.step # "followup_1" THEN "get"
                                ELSE IF << m.step, m.run >> \in stepKeys THEN "idle" ELSE "run"
         /\ tasks' = tasks \ { m } /\ stepKeys' = stepKeys \cup { << m.step, m.run >> }
         /\ UNCHANGED << status, traceVars, beatVars, runs, historyVars, failures, requests >>
  <1> DEFINE done == << m.step, m.run >> \in stepKeys
             next == IF m.step # "followup_1" THEN "get" ELSE IF done THEN "idle" ELSE "run"
             record == IF done THEN "skipped" ELSE "started"
             v == [stage |-> next, step |-> m.step, run |-> m.run, doc |-> NoTrace, record |-> record]
             w == IF next = "idle" THEN Idle ELSE v
  <1>1. m \in Message /\ m.step \in Steps /\ m.run \in Runs
    BY DEF RecoveryTyped, Message
  <1>2. next = IF m.step # "followup_1" THEN "get" ELSE IF done THEN "idle" ELSE "run"
    OBVIOUS
  <1>3. next \in { "get", "idle", "run" } /\ record \in { "started", "skipped" }
    OBVIOUS
  <1>4. proc' = [proc EXCEPT ![p] = w] /\ proc[p].stage = "idle"
        /\ tasks' = tasks \ { m } /\ stepKeys' = stepKeys \cup { << m.step, m.run >> }
        /\ UNCHANGED << status, traceVars, beatVars, runs, historyVars, failures, requests >>
    BY DEF TakeStep, Sets
  <1> HIDE DEF next, record
  <1>5. v \in ProcDocs
    BY <1>1, <1>3, IdleTyped DEF ProcDocs, Records
  <1>6. w \in ProcDocs /\ w.stage = next /\ w.doc = NoTrace /\ w.record \in { "started", "skipped" }
        /\ (w.stage # "idle" => w.step = m.step /\ w.run = m.run)
    BY <1>3, <1>5, IdleTyped
  <1> HIDE DEF w
  <1>7. WorkerGoes(p, w)
    BY <1>4, <1>6 DEF WorkerGoes
  <1> QED BY <1>1, <1>2, <1>4, <1>6, <1>7

\* It holds a copy of the trace of its run,
LEMMA GetTraceDoes ==
  ASSUME RecoveryTyped, NEW p \in Procs, GetTrace(p)
  PROVE  /\ proc[p].stage = "get"
         /\ \E w : /\ WorkerGoes(p, w) /\ w.stage = "set" /\ w.step = proc[p].step /\ w.run = proc[p].run
                   /\ w.record = proc[p].record /\ w.doc = trace[proc[p].run]
         /\ UNCHANGED << status, tasks, stepKeys, traceVars, beatVars, runs, historyVars, failures, requests >>
  <1> DEFINE v == proc[p]
             w == [v EXCEPT !.stage = "set", !.doc = trace[v.run]]
  <1>1. v \in ProcDocs /\ trace[v.run] \in TraceDocs
    BY DEF RecoveryTyped, ProcDocs
  <1>2. /\ w \in ProcDocs /\ w.stage = "set" /\ w.step = v.step /\ w.run = v.run /\ w.record = v.record
        /\ w.doc = trace[v.run]
    BY <1>1 DEF ProcDocs
  <1>3. proc' = [proc EXCEPT ![p] = w]
    BY DEF GetTrace, Sets
  <1> HIDE DEF w
  <1> QED BY <1>2, <1>3 DEF GetTrace, WorkerGoes

\* sets it with its record added, and goes on as the record says.
LEMMA SetTraceDoes ==
  ASSUME RecoveryTyped, NEW p \in Procs, SetTrace(p)
  PROVE  /\ proc[p].stage = "set"
         /\ \E w : /\ WorkerGoes(p, w) /\ w.doc = NoTrace
                   /\ \/ w = Idle
                      \/ /\ w.step = proc[p].step /\ w.run = proc[p].run /\ w.record = proc[p].record
                         /\ \/ w.stage = "run" /\ w.record = "started"
                            \/ w.stage = "publish" /\ w.record = "success"
         /\ trace' = [trace EXCEPT ![proc[p].run] = Recorded(proc[p].doc, proc[p].step, proc[p].record)]
         /\ listed' \subseteq listed \cup { proc[p].run }
         /\ tasks' = tasks \/ tasks' = tasks \cup { [step |-> proc[p].step, run |-> proc[p].run] }
         /\ UNCHANGED << status, stepKeys, beatVars, runs, historyVars, failures, requests >>
  <1> DEFINE v == proc[p]
             x == [v EXCEPT !.stage = "run", !.doc = NoTrace]
             y == [v EXCEPT !.stage = "publish", !.doc = NoTrace]
  <1>1. v \in ProcDocs
    BY DEF RecoveryTyped
  <1>2. /\ x \in ProcDocs /\ x.stage = "run" /\ x.step = v.step /\ x.run = v.run /\ x.record = v.record /\ x.doc = NoTrace
        /\ y \in ProcDocs /\ y.stage = "publish" /\ y.step = v.step /\ y.run = v.run /\ y.record = v.record /\ y.doc = NoTrace
    BY <1>1, IdleTyped DEF ProcDocs
  <1>3. \/ v.record = "started" /\ proc' = [proc EXCEPT ![p] = x] /\ tasks' = tasks
        \/ v.record = "success" /\ proc' = [proc EXCEPT ![p] = y] /\ tasks' = tasks
        \/ /\ proc' = [proc EXCEPT ![p] = Idle]
           /\ tasks' = tasks \/ tasks' = tasks \cup { [step |-> v.step, run |-> v.run] }
    BY DEF SetTrace, Sets
  <1> HIDE DEF x, y
  <1>4. \E w : /\ WorkerGoes(p, w) /\ w.doc = NoTrace
               /\ \/ w = Idle
                  \/ /\ w.step = v.step /\ w.run = v.run /\ w.record = v.record
                     /\ \/ w.stage = "run" /\ w.record = "started"
                        \/ w.stage = "publish" /\ w.record = "success"
    BY <1>2, <1>3, IdleTyped DEF WorkerGoes
  <1>5. tasks' = tasks \/ tasks' = tasks \cup { [step |-> v.step, run |-> v.run] }
    BY <1>3
  <1>6. /\ v.stage = "set" /\ trace' = [trace EXCEPT ![v.run] = Recorded(v.doc, v.step, v.record)]
        /\ listed' \subseteq listed \cup { v.run }
        /\ UNCHANGED << status, stepKeys, beatVars, runs, historyVars, failures, requests >>
    BY DEF SetTrace
  <1> QED BY <1>4, <1>5, <1>6

\* At the end of a step.
LEMMA EndsDoes ==
  ASSUME RecoveryTyped, NEW p \in Procs, NEW record \in { "success", "error", "skipped", "locked" }, Ends(p, record)
  PROVE  \E w : /\ WorkerGoes(p, w)
                /\ \/ /\ w.stage = "get" /\ proc[p].step # "followup_1"
                      /\ record = "success" => proc[p].step # "outreach"
                      /\ w.record = record /\ w.step = proc[p].step /\ w.run = proc[p].run /\ w.doc = proc[p].doc
                   \/ /\ w.stage = "publish" /\ record = "success"
                      /\ w.record = record /\ w.step = proc[p].step /\ w.run = proc[p].run /\ w.doc = proc[p].doc
                   \/ w = Idle /\ record # "success"
  <1> DEFINE v == proc[p]
             x == [v EXCEPT !.stage = "get", !.record = record]
             y == [v EXCEPT !.stage = "publish", !.record = record]
  <1>1. v \in ProcDocs /\ record \in Records
    BY DEF RecoveryTyped, Records
  <1>2. /\ x \in ProcDocs /\ x.stage = "get" /\ x.step = v.step /\ x.run = v.run /\ x.record = record /\ x.doc = v.doc
        /\ y \in ProcDocs /\ y.stage = "publish" /\ y.step = v.step /\ y.run = v.run /\ y.record = record /\ y.doc = v.doc
    BY <1>1 DEF ProcDocs
  <1>3. \/ /\ v.step # "followup_1" /\ (record = "success" => v.step # "outreach")
           /\ proc' = [proc EXCEPT ![p] = x]
        \/ record = "success" /\ proc' = [proc EXCEPT ![p] = y]
        \/ record # "success" /\ proc' = [proc EXCEPT ![p] = Idle]
    BY DEF Ends, Sets, PublishesFirst
  <1> HIDE DEF x, y
  <1> QED BY <1>2, <1>3, IdleTyped DEF WorkerGoes

\* Retries: a new run with some of the steps; a started step depends on steps that succeeded.
LEMMA RetryPipelineRunDoes ==
  ASSUME RecoveryTyped, NEW r \in Runs, RetryPipelineRun(r)
  PROVE  /\ runs' = runs + 1 /\ runs' \in Runs /\ stepKeys' \subseteq stepKeys
         /\ \E new : /\ new \subseteq Message /\ tasks' = tasks \cup new
                     /\ \A m \in new : /\ m.run = runs + 1
                                       /\ early' \/ DependsOn[m.step] \subseteq Succeeded(trace[r])
         /\ early' \in BOOLEAN /\ (early => early') /\ UNCHANGED << touched, torn, followed, dropped >>
  <1> DEFINE new == { m \in Message : m.run = runs + 1 /\ m.step \in StartedSteps(trace[r]) }
  <1>1. runs' = runs + 1 /\ runs + 1 \in Runs
    BY RecoveryAssumption DEF RetryPipelineRun, RecoveryTyped, Runs
  <1>2. early' = (early \/ \E s \in StartedSteps(trace[r]) : ~(DependsOn[s] \subseteq Succeeded(trace[r])))
    BY DEF RetryPipelineRun
  <1>3. tasks' = tasks \cup new /\ stepKeys' \subseteq stepKeys /\ UNCHANGED << touched, torn, followed, dropped >>
    BY DEF RetryPipelineRun
  <1>4. \A m \in new : m.run = runs + 1 /\ (early' \/ DependsOn[m.step] \subseteq Succeeded(trace[r]))
    BY <1>2
  <1>5. new \subseteq Message
    OBVIOUS
  <1>6. early' \in BOOLEAN /\ (early => early')
    BY <1>2 DEF RecoveryTyped
  <1> HIDE DEF new
  <1> QED BY <1>1, <1>3, <1>4, <1>5, <1>6
-----------------------------------------------------------------------------
\* A trace and a worker tell the truth for a lead that stands at t.
DocTrue(doc, t) == \A e \in ToSet(doc.entries) : e.is = "success" => Rank[t] > Rank[Wants[e.step]]
WorkerTrue(v, t) == DocTrue(v.doc, t) /\ (v.record = "success" => Rank[t] > Rank[Wants[v.step]])
TracesInv ==
    /\ \A r \in Runs : DocTrue(trace[r], status)
    /\ \A p \in Procs : WorkerTrue(proc[p], status)

\* Before the first touch every touch was rolled back.
TouchInv == touched <= 1 + torn /\ (Rank[status] < 4 => touched <= torn)

\* Followups write no trace; those that go on to publish had their turn; the
\* other steps publish only once they recorded a success.
StageOK(v, turn) ==
    /\ v.step = "followup_1" => v.stage \in { "idle", "run", "publish" }
    /\ v.stage = "publish" => IF v.step = "followup_1" THEN turn ELSE v.record = "success"
StagesInv == \A p \in Procs : StageOK(proc[p], followed)

\* Run ids are handed out in order.
AtWork(v, r) == v.stage # "idle" /\ v.run = r
FreshInv ==
    /\ \A m \in tasks : m.run <= runs
    /\ \A s \in Steps, r \in Runs : << s, r >> \in stepKeys => r <= runs
    /\ \A p \in Procs : proc[p].stage # "idle" => proc[p].run <= runs

\* Run r has, or had, the first followup; run r has another step.
HasFollowup(r) ==
    \/ << "followup_1", r >> \in stepKeys
    \/ [step |-> "followup_1", run |-> r] \in tasks
    \/ \E p \in Procs : AtWork(proc[p], r) /\ proc[p].step = "followup_1"
HasOther(r) ==
    \/ \E m \in tasks : m.run = r /\ m.step # "followup_1"
    \/ \E p \in Procs : AtWork(proc[p], r) /\ proc[p].step # "followup_1"

\* Before the first touch a run with the followup has nothing else: it was
\* asked for as a single step.
LoneInv == Rank[status] < 4 /\ ~early => \A r \in Runs : ~(HasFollowup(r) /\ HasOther(r))

\* What will give the followup its turn.
Turns(p) == proc[p].stage = "run" /\ proc[p].step = "followup_1"
Waits(r) == [step |-> "followup_1", run |-> r] \in tasks /\ << "followup_1", r >> \notin stepKeys
Brings(p) ==
    /\ proc[p].stage = "publish" /\ proc[p].step = "outreach"
    /\ << "followup_1", proc[p].run >> \notin stepKeys
PendingInv ==
    status = "OUTREACH_SENT" /\ ~early /\ ~dropped /\ ~followed
        => (\E p \in Procs : Turns(p) \/ Brings(p)) \/ \E r \in Runs : Waits(r)

PipelineInv == RecoveryTyped /\ TracesInv /\ TouchInv /\ StagesInv /\ FreshInv /\ LoneInv /\ PendingInv

-----------------------------------------------------------------------------
\* The other workers stay where they are.
LEMMA WorkersLater ==
  ASSUME RecoveryTyped, NEW p \in Procs, NEW w, WorkerGoes(p, w)
  PROVE  /\ \A q \in Procs : proc'[q] = IF q = p THEN w ELSE proc[q]
         /\ proc' \in [Procs -> ProcDocs]
  BY DEF RecoveryTyped, WorkerGoes

\* The step itself: skipped, done or failed.
LEMMA RunStepDoes ==
  ASSUME RecoveryTyped, NEW p \in Procs, RunStep(p)
  PROVE  /\ proc[p].stage = "run"
         /\ followed' = (followed \/ (proc[p].step = "followup_1" /\ status = Wants[proc[p].step]))
         /\ UNCHANGED << tasks, stepKeys, traceVars, beatVars, runs, early, dropped, requests >>
         /\ \E record \in { "success", "error", "skipped" } :
              /\ Ends(p, record)
              /\ \/ /\ record = "skipped" /\ status # Wants[proc[p].step]
                    /\ UNCHANGED << status, touched, torn, failures >>
                 \/ /\ record = "success" /\ status = Wants[proc[p].step] /\ status' = Leaves[proc[p].step]
                    /\ touched' = IF proc[p].step = "outreach" THEN touched + 1 ELSE touched
                    /\ UNCHANGED << torn, failures >>
                 \/ /\ record = "error" /\ status = Wants[proc[p].step] /\ status' = status
                    /\ failures' \in 0 .. MaxFailures
                    /\ \E n \in { 0, 1 } : touched' = touched + n /\ torn' = torn + n
  <1> DEFINE s == proc[p].step
  <1>1. \/ /\ Ends(p, "skipped") /\ status # Wants[s] /\ UNCHANGED << status, touched, torn, failures >>
        \/ /\ Ends(p, "success") /\ status = Wants[s] /\ status' = Leaves[s]
           /\ touched' = IF s = "outreach" THEN touched + 1 ELSE touched
           /\ UNCHANGED << torn, failures >>
        \/ /\ Ends(p, "error") /\ status = Wants[s] /\ status' = status
           /\ failures < MaxFailures /\ failures' = failures + 1
           /\ \E n \in { 0, 1 } : touched' = touched + n /\ torn' = torn + n
    BY DEF RunStep
  <1>2. failures < MaxFailures /\ failures' = failures + 1 => failures' \in 0 .. MaxFailures
    BY RecoveryAssumption DEF RecoveryTyped
  <1>3. /\ proc[p].stage = "run" /\ followed' = (followed \/ (s = "followup_1" /\ status = Wants[s]))
        /\ UNCHANGED << tasks, stepKeys, traceVars, beatVars, runs, early, dropped, requests >>
    BY DEF RunStep
  <1> QED BY <1>1, <1>2, <1>3

\* The lock of the step is another worker's.
LEMMA LockNotAcquiredDoes ==
  ASSUME NEW p \in Procs, LockNotAcquired(p)
  PROVE  /\ proc[p].stage = "run" /\ Ends(p, "locked")
         /\ \E q \in Procs \ { p } : proc[q].stage # "idle" /\ proc[q].step = proc[p].step
         /\ UNCHANGED << status, tasks, stepKeys, traceVars, beatVars, runs, historyVars, failures, requests >>
  BY DEF LockNotAcquired

\* What a step publishes: nothing after the followup, and nothing before it but the next steps.
LEMMA FollowsValues ==
  ASSUME NEW s \in Steps
  PROVE  /\ Follows[s] \subseteq Steps
         /\ s = "followup_1" => Follows[s] = {}
         /\ s = "outreach" => Follows[s] = { "followup_1" }
         /\ s \notin { "outreach", "followup_1" } => "followup_1" \notin Follows[s]
  BY DEF Follows, Steps

\* The next task, in the same run.
LEMMA PublishNextDoes ==
  ASSUME RecoveryTyped, NEW p \in Procs, PublishNext(p)
  PROVE  /\ proc[p].stage = "publish"
         /\ \E w : /\ WorkerGoes(p, w)
                   /\ \/ w = Idle
                      \/ /\ w.stage = "get" /\ proc[p].step = "outreach" /\ w.step = proc[p].step
                         /\ w.run = proc[p].run /\ w.record = proc[p].record /\ w.doc = proc[p].doc
         /\ \E new : /\ new \subseteq Message /\ tasks' = tasks \cup new
                     /\ \A m \in new : m.run = proc[p].run /\ m.step \in Follows[proc[p].step]
                     /\ proc[p].step = "outreach" => [step |-> "followup_1", run |-> proc[p].run] \in new
         /\ UNCHANGED << status, stepKeys, traceVars, beatVars, runs, historyVars, failures, requests >>
  <1> DEFINE new == { [step |-> s, run |-> proc[p].run] : s \in Follows[proc[p].step] }
  <1>1. proc[p].step \in Steps /\ proc[p].run \in Runs
    BY DEF RecoveryTyped, ProcDocs
  <1>2. new \subseteq Message /\ (\A m \in new : m.run = proc[p].run /\ m.step \in Follows[proc[p].step])
    BY <1>1, FollowsValues DEF Message
  <1>3. proc[p].step = "outreach" => [step |-> "followup_1", run |-> proc[p].run] \in new
    BY <1>1, FollowsValues
  <1>4. /\ proc[p].stage = "publish" /\ Published(p) /\ tasks' = tasks \cup new
        /\ UNCHANGED << status, stepKeys, traceVars, beatVars, runs, historyVars, failures, requests >>
    BY DEF PublishNext
  <1> HIDE DEF new
  <1>5. \E w : /\ WorkerGoes(p, w)
               /\ \/ w = Idle
                  \/ /\ w.stage = "get" /\ proc[p].step = "outreach" /\ w.step = proc[p].step
                     /\ w.run = proc[p].run /\ w.record = proc[p].record /\ w.doc = proc[p].doc
    <2> DEFINE x == [proc[p] EXCEPT !.stage = "get"]
    <2>1. /\ x \in ProcDocs /\ x.stage = "get" /\ x.step = proc[p].step /\ x.run = proc[p].run
          /\ x.record = proc[p].record /\ x.doc = proc[p].doc
      BY DEF RecoveryTyped, ProcDocs
    <2>2. proc' = [proc EXCEPT ![p] = Idle] \/ (proc[p].step = "outreach" /\ proc' = [proc EXCEPT ![p] = x])
      BY <1>4 DEF Published, Sets
    <2> HIDE DEF x
    <2> QED BY <2>1, <2>2, IdleTyped DEF WorkerGoes
  <1> QED BY <1>2, <1>3, <1>4, <1>5

\* A failure after the commit: an error to record, or the message once more; what an
\* outreach had not published is dropped.
LEMMA CommittedStepFailsDoes ==
  ASSUME RecoveryTyped, NEW p \in Procs, CommittedStepFails(p)
  PROVE  /\ proc[p].stage \in { "publish", "get" }
         /\ failures' \in 0 .. MaxFailures
         /\ dropped' = (dropped \/ (proc[p].stage = "publish" /\ proc[p].step = "outreach"))
         /\ \E w : /\ WorkerGoes(p, w)
                   /\ \/ w = Idle
                      \/ /\ w.stage = "get" /\ proc[p].step # "followup_1" /\ w.step = proc[p].step
                         /\ w.run = proc[p].run /\ w.record = "error" /\ w.doc = proc[p].doc
         /\ tasks' = tasks \/ tasks' = tasks \cup { [step |-> proc[p].step, run |-> proc[p].run] }
         /\ UNCHANGED << status, stepKeys, traceVars, beatVars, runs, touched, torn, followed, early, requests >>
  <1>1. failures < MaxFailures /\ failures' = failures + 1 => failures' \in 0 .. MaxFailures
    BY RecoveryAssumption DEF RecoveryTyped
  <1>2. ASSUME Sets(p, Idle)
        PROVE  WorkerGoes(p, Idle)
    BY <1>2, IdleTyped DEF Sets, WorkerGoes
  <1>3. ASSUME Ends(p, "error")
        PROVE  \E w : /\ WorkerGoes(p, w)
                      /\ \/ w = Idle
                         \/ /\ w.stage = "get" /\ proc[p].step # "followup_1" /\ w.step = proc[p].step
                            /\ w.run = proc[p].run /\ w.record = "error" /\ w.doc = proc[p].doc
    BY <1>3, EndsDoes
  <1>4. /\ proc[p].stage \in { "publish", "get" }
        /\ failures < MaxFailures /\ failures' = failures + 1
        /\ dropped' = (dropped \/ (proc[p].stage = "publish" /\ proc[p].step = "outreach"))
        /\ \/ Ends(p, "error") /\ tasks' = tasks
           \/ Sets(p, Idle) /\ tasks' = tasks \cup { [step |-> proc[p].step, run |-> proc[p].run] }
        /\ UNCHANGED << status, stepKeys, traceVars, beatVars, runs, touched, torn, followed, early, requests >>
    BY DEF CommittedStepFails
  <1> QED BY <1>1, <1>2, <1>3, <1>4

\* A single step: a message of a new run.
LEMMA RetryStepCalledDoes ==
  ASSUME RecoveryTyped, NEW s \in Steps, RetryStepCalled(s)
  PROVE  /\ runs' = runs + 1 /\ runs' \in Runs /\ requests' \in 0 .. MaxRequests
         /\ [step |-> s, run |-> runs + 1] \in Message
         /\ tasks' = tasks \cup { [step |-> s, run |-> runs + 1] }
         /\ UNCHANGED << status, stepKeys, traceVars, proc, beatVars, historyVars, failures >>
  <1>1. runs + 1 \in Runs /\ runs' = runs + 1 /\ requests' \in 0 .. MaxRequests
    BY RecoveryAssumption DEF RetryStepCalled, RecoveryTyped, Runs
  <1>2. [step |-> s, run |-> runs + 1] \in Message
    BY <1>1 DEF Message
  <1> QED BY <1>1, <1>2 DEF RetryStepCalled

\* What the beat task does but to retry a run.
BeatOnly ==
    /\ beat' \in [Beats -> [stage : { "idle", "retry", "count" }, run : Runs]]
    /\ recoveries' \in [Runs -> Nat] /\ uncounted' \in [Runs -> Nat] /\ failures' \in 0 .. MaxFailures
    /\ UNCHANGED << status, tasks, stepKeys, traceVars, proc, started, runs, historyVars, requests >>

\* A run is retried by the beat task or the endpoint.
RunRetried(r) ==
    /\ RetryPipelineRun(r)
    /\ beat' \in [Beats -> [stage : { "idle", "retry", "count" }, run : Runs]]
    /\ started' \in [Runs -> Nat] /\ requests' \in 0 .. MaxRequests
    /\ UNCHANGED << status, traceVars, proc, recoveries, uncounted, failures >>

\* The beat task retries a run or changes only what it counts.
LEMMA BeatDoes ==
  ASSUME RecoveryTyped, NEW b \in Beats,
         (\E r \in Runs : AutoRecoverRead(b, r)) \/ AutoRecoverRetry(b) \/ AutoRecoverCount(b)
         \/ AutoRecoverUncounted(b)
  PROVE  BeatOnly \/ \E r \in Runs : RunRetried(r)
  <1> DEFINE Values == [stage : { "idle", "retry", "count" }, run : Runs]
  <1>1. beat[b] \in Values /\ beat[b].run \in Runs
    BY DEF RecoveryTyped
  <1>2. AtRest \in Values
    BY RecoveryAssumption DEF AtRest, Runs
  <1>3. ASSUME NEW r \in Runs, AutoRecoverRead(b, r)
        PROVE  BeatOnly
    <2>1. [stage |-> "retry", run |-> r] \in Values
      OBVIOUS
    <2> QED BY <1>3, <2>1 DEF AutoRecoverRead, BeatOnly, RecoveryTyped
  <1>4. ASSUME AutoRecoverCount(b)
        PROVE  BeatOnly
    <2>1. recoveries' \in [Runs -> Nat]
      BY <1>1, <1>4 DEF AutoRecoverCount, RecoveryTyped
    <2> QED BY <1>2, <1>4, <2>1 DEF AutoRecoverCount, BeatOnly, RecoveryTyped
  <1>6. ASSUME AutoRecoverUncounted(b)
        PROVE  BeatOnly
    <2>1. uncounted' \in [Runs -> Nat]
      BY <1>1, <1>6 DEF AutoRecoverUncounted, RecoveryTyped
    <2>2. failures' \in 0 .. MaxFailures
      BY <1>6, RecoveryAssumption DEF AutoRecoverUncounted, RecoveryTyped
    <2> QED BY <1>2, <1>6, <2>1, <2>2 DEF AutoRecoverUncounted, BeatOnly, RecoveryTyped
  <1>5. ASSUME AutoRecoverRetry(b)
        PROVE  BeatOnly \/ RunRetried(beat[b].run)
    <2>1. [beat[b] EXCEPT !.stage = "count"] \in Values
      BY <1>1
    <2>2. CASE /\ RetryPipelineRun(beat[b].run)
               /\ started' = [started EXCEPT ![beat[b].run] = @ + 1]
               /\ beat' = [beat EXCEPT ![b].stage = "count"]
      <3>1. started' \in [Runs -> Nat]
        BY <1>1, <2>2 DEF RecoveryTyped
      <3>2. beat' = [beat EXCEPT ![b] = [beat[b] EXCEPT !.stage = "count"]]
        BY <2>2
      <3>3. beat' \in [Beats -> Values]
        BY <2>1, <3>2 DEF RecoveryTyped
      <3> QED BY <1>5, <2>2, <3>1, <3>3 DEF AutoRecoverRetry, RunRetried, RecoveryTyped
    <2>3. CASE /\ beat' = [beat EXCEPT ![b] = AtRest]
               /\ UNCHANGED << tasks, stepKeys, started, runs, historyVars >>
      BY <1>2, <1>5, <2>3 DEF AutoRecoverRetry, BeatOnly, RecoveryTyped
    <2> QED BY <1>5, <2>2, <2>3 DEF AutoRecoverRetry
  <1> QED BY <1>1, <1>3, <1>4, <1>5, <1>6

\* So does the endpoint.
LEMMA RetryRunCalledDoes ==
  ASSUME RecoveryTyped, NEW r \in Runs, RetryRunCalled(r)
  PROVE  RunRetried(r)
  BY RecoveryAssumption DEF RetryRunCalled, RunRetried, RecoveryTyped, beatVars

-----------------------------------------------------------------------------
\* Types.
LEMMA RecoveryTypedInit == RecoveryInit => RecoveryTyped
  <1> SUFFICES ASSUME RecoveryInit
               PROVE  RecoveryTyped
    OBVIOUS
  <1>1. 1 \in Runs /\ 0 \in 0 .. MaxFailures /\ 0 \in 0 .. MaxRequests /\ FirstStatus \in Statuses
    BY RecoveryAssumption DEF Runs
  <1>2. AtRest \in [stage : { "idle", "retry", "count" }, run : Runs]
    BY <1>1 DEF AtRest
  <1>3. tasks \subseteq Message
    BY <1>1 DEF RecoveryInit, Message
  <1>4. trace \in [Runs -> TraceDocs] /\ proc \in [Procs -> ProcDocs]
    BY IdleTyped DEF RecoveryInit
  <1> QED BY <1>1, <1>2, <1>3, <1>4 DEF RecoveryInit, RecoveryTyped

\* A worker's step keeps the types when it leaves a worker, a trace, a status and messages.
LEMMA TypedWorker ==
  ASSUME RecoveryTyped, NEW p \in Procs, NEW w, WorkerGoes(p, w),
         status' \in Statuses, tasks' \subseteq Message, stepKeys' \subseteq Steps \X Runs,
         trace' \in [Runs -> TraceDocs], listed' \subseteq Runs,
         touched' \in Nat, torn' \in Nat, followed' \in BOOLEAN, dropped' \in BOOLEAN,
         failures' \in 0 .. MaxFailures, UNCHANGED << beatVars, runs, early, requests >>
  PROVE  RecoveryTyped'
  BY WorkersLater DEF RecoveryTyped, beatVars

\* Every step keeps the types.
LEMMA TypedStep ==
  ASSUME RecoveryTyped, [RecoveryNext]_recoveryVars
  PROVE  RecoveryTyped'
  <1>1. ASSUME NEW p \in Procs, NEW m \in tasks, TakeStep(p, m)
        PROVE  RecoveryTyped'
    <2>1. PICK w : WorkerGoes(p, w)
      BY <1>1, TakeStepDoes
    <2>2. /\ m \in Message /\ tasks' = tasks \ { m } /\ stepKeys' = stepKeys \cup { << m.step, m.run >> }
          /\ UNCHANGED << status, traceVars, beatVars, runs, historyVars, failures, requests >>
      BY <1>1, TakeStepDoes
    <2>3. << m.step, m.run >> \in Steps \X Runs
      BY <2>2 DEF Message
    <2> QED BY <2>1, <2>2, <2>3, TypedWorker DEF RecoveryTyped, traceVars, historyVars
  <1>2. ASSUME NEW p \in Procs, GetTrace(p)
        PROVE  RecoveryTyped'
    <2>1. PICK w : WorkerGoes(p, w)
      BY <1>2, GetTraceDoes
    <2>2. UNCHANGED << status, tasks, stepKeys, traceVars, beatVars, runs, historyVars, failures, requests >>
      BY <1>2, GetTraceDoes
    <2> QED BY <2>1, <2>2, TypedWorker DEF RecoveryTyped, traceVars, historyVars
  <1>3. ASSUME NEW p \in Procs, SetTrace(p)
        PROVE  RecoveryTyped'
    <2>1. PICK w : WorkerGoes(p, w)
      BY <1>3, SetTraceDoes
    <2>2. /\ trace' = [trace EXCEPT ![proc[p].run] = Recorded(proc[p].doc, proc[p].step, proc[p].record)]
          /\ listed' \subseteq listed \cup { proc[p].run }
          /\ tasks' = tasks \/ tasks' = tasks \cup { [step |-> proc[p].step, run |-> proc[p].run] }
          /\ UNCHANGED << status, stepKeys, beatVars, runs, historyVars, failures, requests >>
      BY <1>3, SetTraceDoes
    <2>3. proc[p].doc \in TraceDocs /\ proc[p].step \in Steps /\ proc[p].run \in Runs /\ proc[p].record \in Records
      BY DEF RecoveryTyped, ProcDocs
    <2>4. Recorded(proc[p].doc, proc[p].step, proc[p].record) \in TraceDocs
      BY <2>3, RecordedValues
    <2>5. trace' \in [Runs -> TraceDocs]
      BY <2>2, <2>4 DEF RecoveryTyped
    <2>6. [step |-> proc[p].step, run |-> proc[p].run] \in Message
      BY <2>3 DEF Message
    <2>7. tasks' \subseteq Message /\ listed' \subseteq Runs
      BY <2>2, <2>3, <2>6 DEF RecoveryTyped
    <2> QED BY <2>1, <2>2, <2>5, <2>7, TypedWorker DEF RecoveryTyped, historyVars
  <1>4. ASSUME NEW p \in Procs, RunStep(p)
        PROVE  RecoveryTyped'
    <2>1. PICK record \in { "success", "error", "skipped" } :
              /\ Ends(p, record)
              /\ \/ UNCHANGED << status, touched, torn, failures >>
                 \/ /\ status' = Leaves[proc[p].step] /\ touched' = IF proc[p].step = "outreach" THEN touched + 1 ELSE touched
                    /\ UNCHANGED << torn, failures >>
                 \/ /\ status' = status /\ failures' \in 0 .. MaxFailures
                    /\ \E n \in { 0, 1 } : touched' = touched + n /\ torn' = torn + n
      BY <1>4, RunStepDoes
    <2>2. PICK w : WorkerGoes(p, w)
      BY <2>1, EndsDoes
    <2>3. /\ followed' = (followed \/ (proc[p].step = "followup_1" /\ status = Wants[proc[p].step]))
          /\ UNCHANGED << tasks, stepKeys, traceVars, beatVars, runs, early, dropped, requests >>
      BY <1>4, RunStepDoes
    <2>4. proc[p].step \in Steps
      BY DEF RecoveryTyped, ProcDocs
    <2>5. status' \in Statuses /\ touched' \in Nat /\ torn' \in Nat /\ failures' \in 0 .. MaxFailures
      BY <2>1, <2>4, StepsMoveOn DEF RecoveryTyped
    <2>6. followed' \in BOOLEAN
      BY <2>3 DEF RecoveryTyped
    <2> QED BY <2>2, <2>3, <2>5, <2>6, TypedWorker DEF RecoveryTyped, traceVars
  <1>5. ASSUME NEW p \in Procs, LockNotAcquired(p)
        PROVE  RecoveryTyped'
    <2>1. Ends(p, "locked") /\ UNCHANGED << status, tasks, stepKeys, traceVars, beatVars, runs, historyVars, failures, requests >>
      BY <1>5, LockNotAcquiredDoes
    <2>2. PICK w : WorkerGoes(p, w)
      BY <2>1, EndsDoes
    <2> QED BY <2>1, <2>2, TypedWorker DEF RecoveryTyped, traceVars, historyVars
  <1>6. ASSUME NEW p \in Procs, PublishNext(p)
        PROVE  RecoveryTyped'
    <2>1. /\ \E w : WorkerGoes(p, w)
          /\ \E new : new \subseteq Message /\ tasks' = tasks \cup new
          /\ UNCHANGED << status, stepKeys, traceVars, beatVars, runs, historyVars, failures, requests >>
      BY <1>6, PublishNextDoes
    <2>2. tasks' \subseteq Message
      BY <2>1 DEF RecoveryTyped
    <2> QED BY <2>1, <2>2, TypedWorker DEF RecoveryTyped, traceVars, historyVars
  <1>7. ASSUME BeatOnly \/ UNCHANGED recoveryVars
        PROVE  RecoveryTyped'
    BY <1>7 DEF RecoveryTyped, BeatOnly, recoveryVars, traceVars, beatVars, historyVars
  <1>8. ASSUME NEW r \in Runs, RunRetried(r)
        PROVE  RecoveryTyped'
    <2>1. /\ runs' \in Runs /\ stepKeys' \subseteq stepKeys /\ \E new : new \subseteq Message /\ tasks' = tasks \cup new
          /\ early' \in BOOLEAN /\ UNCHANGED << touched, torn, followed, dropped >>
      BY <1>8, RetryPipelineRunDoes DEF RunRetried
    <2>2. tasks' \subseteq Message /\ stepKeys' \subseteq Steps \X Runs
      BY <2>1 DEF RecoveryTyped
    <2> QED BY <1>8, <2>1, <2>2 DEF RunRetried, RecoveryTyped, traceVars
  <1>9. ASSUME NEW s \in Steps, RetryStepCalled(s)
        PROVE  RecoveryTyped'
    BY <1>9, RetryStepCalledDoes DEF RecoveryTyped, traceVars, beatVars, historyVars
  <1>10. ASSUME NEW p \in Procs, CommittedStepFails(p)
         PROVE  RecoveryTyped'
    <2>1. /\ \E w : WorkerGoes(p, w)
          /\ failures' \in 0 .. MaxFailures
          /\ dropped' = (dropped \/ (proc[p].stage = "publish" /\ proc[p].step = "outreach"))
          /\ tasks' = tasks \/ tasks' = tasks \cup { [step |-> proc[p].step, run |-> proc[p].run] }
          /\ UNCHANGED << status, stepKeys, traceVars, beatVars, runs, touched, torn, followed, early, requests >>
      BY <1>10, CommittedStepFailsDoes
    <2>2. [step |-> proc[p].step, run |-> proc[p].run] \in Message
      BY DEF RecoveryTyped, ProcDocs, Message
    <2>3. tasks' \subseteq Message /\ dropped' \in BOOLEAN
      BY <2>1, <2>2 DEF RecoveryTyped
    <2> QED BY <2>1, <2>3, TypedWorker DEF RecoveryTyped, traceVars
  <1> QED BY <1>1, <1>2, <1>3, <1>4, <1>5, <1>6, <1>7, <1>8, <1>9, <1>10, BeatDoes, RetryRunCalledDoes DEF RecoveryNext
-----------------------------------------------------------------------------
\* What no lead has got past at t it has not at an earlier status.
LEMMA TruthStays ==
  ASSUME NEW t \in Statuses, NEW u \in Statuses, Rank[u] >= Rank[t]
  PROVE  /\ \A doc \in TraceDocs : DocTrue(doc, t) => DocTrue(doc, u)
         /\ \A v \in ProcDocs : WorkerTrue(v, t) => WorkerTrue(v, u)
  <1>1. \A s \in Steps : Rank[t] > Rank[Wants[s]] => Rank[u] > Rank[Wants[s]]
    BY StepsMoveOn
  <1>2. ASSUME NEW doc \in TraceDocs, DocTrue(doc, t)
        PROVE  DocTrue(doc, u)
    <2>1. \A e \in ToSet(doc.entries) : e.step \in Steps
      <3>1. doc.entries \in Seq(TraceEntries)
        BY DEF TraceDocs
      <3>2. \A e \in ToSet(doc.entries) : e \in TraceEntries
        BY <3>1 DEF ToSet
      <3> QED BY <3>2 DEF TraceEntries
    <2> QED BY <1>1, <1>2, <2>1 DEF DocTrue
  <1>3. ASSUME NEW v \in ProcDocs, WorkerTrue(v, t)
        PROVE  WorkerTrue(v, u)
    <2>1. v.doc \in TraceDocs /\ v.step \in Steps
      BY DEF ProcDocs
    <2> QED BY <1>1, <1>2, <1>3, <2>1 DEF WorkerTrue
  <1> QED BY <1>2, <1>3

\* The status of the lead only moves on.
LEMMA StatusMovesOn ==
  ASSUME RecoveryTyped, [RecoveryNext]_recoveryVars
  PROVE  /\ status' \in Statuses /\ Rank[status'] >= Rank[status]
         /\ Rank[status] \in 0 .. 5 /\ Rank[status'] \in 0 .. 5
  <1>1. ASSUME NEW p \in Procs, RunStep(p)
        PROVE  status' \in Statuses /\ Rank[status'] >= Rank[status]
    <2>1. proc[p].step \in Steps
      BY DEF RecoveryTyped, ProcDocs
    <2>2. status' = status \/ (status = Wants[proc[p].step] /\ status' = Leaves[proc[p].step])
      BY <1>1, RunStepDoes
    <2> QED BY <2>1, <2>2, StepsMoveOn DEF RecoveryTyped
  <1>2. ASSUME UNCHANGED status
        PROVE  status' \in Statuses /\ Rank[status'] >= Rank[status]
    BY <1>2, StepsMoveOn DEF RecoveryTyped
  <1>3. ASSUME NEW p \in Procs,
               \/ \E m \in tasks : TakeStep(p, m)
               \/ GetTrace(p) \/ SetTrace(p) \/ LockNotAcquired(p) \/ PublishNext(p) \/ CommittedStepFails(p)
        PROVE  UNCHANGED status
    BY <1>3, TakeStepDoes, GetTraceDoes, SetTraceDoes, LockNotAcquiredDoes, PublishNextDoes, CommittedStepFailsDoes
  <1>4. ASSUME BeatOnly \/ UNCHANGED recoveryVars \/ (\E r \in Runs : RunRetried(r)) \/ \E s \in Steps : RetryStepCalled(s)
        PROVE  UNCHANGED status
    BY <1>4 DEF BeatOnly, recoveryVars, RunRetried, RetryStepCalled
  <1>5. status' \in Statuses /\ Rank[status'] >= Rank[status]
    BY <1>1, <1>2, <1>3, <1>4, BeatDoes, RetryRunCalledDoes DEF RecoveryNext
  <1> QED BY <1>5, StepsMoveOn DEF RecoveryTyped

\* Traces.
LEMMA TracesInit == RecoveryInit => TracesInv
  <1> SUFFICES ASSUME RecoveryInit
               PROVE  TracesInv
    OBVIOUS
  <1>1. \A r \in Runs : trace[r] = NoTrace
    BY DEF RecoveryInit
  <1>2. \A p \in Procs : proc[p] = Idle
    BY DEF RecoveryInit
  <1>3. DocTrue(NoTrace, status)
    BY IdleTyped DEF DocTrue
  <1>4. WorkerTrue(Idle, status)
    BY <1>3, IdleTyped DEF WorkerTrue
  <1> QED BY <1>1, <1>2, <1>3, <1>4 DEF TracesInv

\* One worker and perhaps its trace change; what they then say is true.
LEMMA TracesKept ==
  ASSUME RecoveryTyped, TracesInv, status' \in Statuses, Rank[status'] >= Rank[status],
         NEW p \in Procs, NEW w, WorkerGoes(p, w), WorkerTrue(w, status'),
         \/ trace' = trace
         \/ \E r \in Runs, doc \in TraceDocs : trace' = [trace EXCEPT ![r] = doc] /\ DocTrue(doc, status')
  PROVE  TracesInv'
  <1>1. \A doc \in TraceDocs : DocTrue(doc, status) => DocTrue(doc, status')
    BY TruthStays DEF RecoveryTyped
  <1>2. \A v \in ProcDocs : WorkerTrue(v, status) => WorkerTrue(v, status')
    BY TruthStays DEF RecoveryTyped
  <1>3. \A q \in Procs : WorkerTrue(proc'[q], status')
    BY <1>2, WorkersLater DEF TracesInv, RecoveryTyped
  <1>4. \A r \in Runs : DocTrue(trace'[r], status')
    BY <1>1 DEF TracesInv, RecoveryTyped
  <1> QED BY <1>3, <1>4 DEF TracesInv

\* A success is recorded only by a worker that made it, and statuses move on.
LEMMA TracesStep ==
  ASSUME RecoveryTyped, TracesInv, [RecoveryNext]_recoveryVars
  PROVE  TracesInv'
  <1>0. status' \in Statuses /\ Rank[status'] >= Rank[status]
    BY StatusMovesOn
  <1>w. \A p \in Procs : /\ WorkerTrue(proc[p], status) /\ DocTrue(proc[p].doc, status)
                         /\ proc[p] \in ProcDocs /\ proc[p].step \in Steps /\ proc[p].run \in Runs
                         /\ proc[p].record \in Records /\ proc[p].doc \in TraceDocs
    BY DEF TracesInv, WorkerTrue, RecoveryTyped, ProcDocs
  <1>n. \A t : DocTrue(NoTrace, t) /\ WorkerTrue(Idle, t)
    BY IdleTyped DEF DocTrue, WorkerTrue
  <1>1. ASSUME NEW p \in Procs, NEW m \in tasks, TakeStep(p, m)
        PROVE  TracesInv'
    <2>1. PICK w : WorkerGoes(p, w) /\ w.doc = NoTrace /\ w.record \in { "started", "skipped" }
      BY <1>1, TakeStepDoes
    <2>2. trace' = trace
      BY <1>1, TakeStepDoes DEF traceVars
    <2>3. WorkerTrue(w, status')
      BY <1>n, <2>1 DEF WorkerTrue
    <2> QED BY <1>0, <2>1, <2>2, <2>3, TracesKept
  <1>2. ASSUME NEW p \in Procs, GetTrace(p)
        PROVE  TracesInv'
    <2>1. PICK w : /\ WorkerGoes(p, w) /\ w.step = proc[p].step /\ w.record = proc[p].record
                   /\ w.doc = trace[proc[p].run]
      BY <1>2, GetTraceDoes
    <2>2. trace' = trace /\ status' = status
      BY <1>2, GetTraceDoes DEF traceVars
    <2>3. WorkerTrue(w, status')
      BY <1>w, <2>1, <2>2 DEF WorkerTrue, TracesInv
    <2> QED BY <1>0, <2>1, <2>2, <2>3, TracesKept
  <1>3. ASSUME NEW p \in Procs, SetTrace(p)
        PROVE  TracesInv'
    <2> DEFINE v == proc[p]
               doc == Recorded(v.doc, v.step, v.record)
    <2>1. PICK w : /\ WorkerGoes(p, w) /\ w.doc = NoTrace
                   /\ w = Idle \/ (w.step = v.step /\ w.record = v.record)
      BY <1>3, SetTraceDoes
    <2>2. trace' = [trace EXCEPT ![v.run] = doc] /\ status' = status
      BY <1>3, SetTraceDoes
    <2>3. WorkerTrue(w, status')
      BY <1>w, <1>n, <2>1, <2>2 DEF WorkerTrue
    <2>4. doc \in TraceDocs /\ ToSet(doc.entries) \subseteq ToSet(v.doc.entries) \cup { [step |-> v.step, is |-> v.record] }
      BY <1>w, RecordedValues
    <2> HIDE DEF doc
    <2>5. DocTrue(doc, status')
      BY <1>w, <2>2, <2>4 DEF DocTrue, WorkerTrue
    <2> QED BY <1>0, <1>w, <2>1, <2>2, <2>3, <2>4, <2>5, TracesKept
  <1>4. ASSUME NEW p \in Procs, NEW record \in { "success", "error", "skipped", "locked" }, Ends(p, record),
               record = "success" => status = Wants[proc[p].step] /\ status' = Leaves[proc[p].step],
               trace' = trace
        PROVE  TracesInv'
    <2>1. PICK w : /\ WorkerGoes(p, w)
                   /\ \/ w.record = record /\ w.step = proc[p].step /\ w.doc = proc[p].doc
                      \/ w = Idle
      BY <1>4, EndsDoes
    <2>2. WorkerTrue(proc[p], status') /\ DocTrue(proc[p].doc, status')
      BY <1>0, <1>w, TruthStays DEF RecoveryTyped
    <2>3. record = "success" => Rank[status'] > Rank[Wants[proc[p].step]]
      BY <1>4, <1>w, StepsMoveOn
    <2>4. WorkerTrue(w, status')
      BY <1>n, <2>1, <2>2, <2>3 DEF WorkerTrue
    <2> QED BY <1>0, <1>4, <2>1, <2>4, TracesKept
  <1>5. ASSUME NEW p \in Procs, RunStep(p)
        PROVE  TracesInv'
    <2>1. trace' = trace
      BY <1>5, RunStepDoes DEF traceVars
    <2>2. \E record \in { "success", "error", "skipped" } :
              Ends(p, record) /\ (record = "success" => status = Wants[proc[p].step] /\ status' = Leaves[proc[p].step])
      BY <1>5, RunStepDoes
    <2> QED BY <1>4, <2>1, <2>2
  <1>6. ASSUME NEW p \in Procs, LockNotAcquired(p)
        PROVE  TracesInv'
    BY <1>4, <1>6, LockNotAcquiredDoes DEF traceVars
  <1>7. ASSUME NEW p \in Procs, PublishNext(p)
        PROVE  TracesInv'
    <2>1. trace' = trace /\ status' = status
      BY <1>7, PublishNextDoes DEF traceVars
    <2>2. PICK w : /\ WorkerGoes(p, w)
                   /\ w = Idle \/ (w.step = proc[p].step /\ w.record = proc[p].record /\ w.doc = proc[p].doc)
      BY <1>7, PublishNextDoes
    <2>3. WorkerTrue(w, status')
      BY <1>w, <1>n, <2>1, <2>2 DEF WorkerTrue
    <2> QED BY <1>0, <2>1, <2>2, <2>3, TracesKept
  <1>10. ASSUME NEW p \in Procs, CommittedStepFails(p)
         PROVE  TracesInv'
    <2>1. trace' = trace /\ status' = status
      BY <1>10, CommittedStepFailsDoes DEF traceVars
    <2>2. PICK w : /\ WorkerGoes(p, w)
                   /\ w = Idle \/ (w.record = "error" /\ w.doc = proc[p].doc)
      BY <1>10, CommittedStepFailsDoes
    <2>3. WorkerTrue(w, status')
      BY <1>w, <1>n, <2>1, <2>2 DEF WorkerTrue
    <2> QED BY <1>0, <2>1, <2>2, <2>3, TracesKept
  <1>8. ASSUME UNCHANGED << status, trace, proc >>
        PROVE  TracesInv'
    BY <1>8 DEF TracesInv
  <1>9. ASSUME BeatOnly \/ UNCHANGED recoveryVars \/ (\E r \in Runs : RunRetried(r)) \/ \E s \in Steps : RetryStepCalled(s)
        PROVE  TracesInv'
    BY <1>8, <1>9 DEF BeatOnly, recoveryVars, RunRetried, RetryStepCalled, traceVars
  <1> QED BY <1>1, <1>2, <1>3, <1>5, <1>6, <1>7, <1>9, <1>10, BeatDoes, RetryRunCalledDoes DEF RecoveryNext

-----------------------------------------------------------------------------
\* A first touch leaves EMAIL_READY for good, unless it is rolled back.
LEMMA TouchStep ==
  ASSUME RecoveryTyped, TouchInv, [RecoveryNext]_recoveryVars
  PROVE  TouchInv'
  <1>1. ASSUME NEW p \in Procs, RunStep(p)
        PROVE  TouchInv'
    <2>1. proc[p].step \in Steps /\ touched \in Nat /\ torn \in Nat /\ Rank[status] \in 0 .. 5 /\ Rank[status'] \in 0 .. 5
          /\ Rank[status'] >= Rank[status]
      BY StatusMovesOn DEF RecoveryTyped, ProcDocs
    <2>2. CASE UNCHANGED << status, touched, torn >>
      BY <2>2 DEF TouchInv
    <2>3. CASE /\ status = Wants[proc[p].step] /\ status' = Leaves[proc[p].step] /\ torn' = torn
               /\ touched' = IF proc[p].step = "outreach" THEN touched + 1 ELSE touched
      <3>1. CASE proc[p].step = "outreach"
        <4>1. Rank[status] = 3 /\ Rank[status'] = 4 /\ touched' = touched + 1
          BY <2>3, <3>1, StepsMoveOn
        <4> QED BY <2>1, <2>3, <4>1 DEF TouchInv
      <3>2. CASE proc[p].step # "outreach"
        <4>1. touched' = touched
          BY <2>3, <3>2
        <4> QED BY <2>1, <2>3, <4>1 DEF TouchInv
      <3> QED BY <3>1, <3>2
    <2>4. CASE status' = status /\ \E n \in { 0, 1 } : touched' = touched + n /\ torn' = torn + n
      BY <2>1, <2>4 DEF TouchInv
    <2> QED BY <1>1, <2>2, <2>3, <2>4, RunStepDoes
  <1>2. ASSUME UNCHANGED << status, touched, torn >>
        PROVE  TouchInv'
    BY <1>2 DEF TouchInv
  <1>3. ASSUME NEW p \in Procs,
               \/ \E m \in tasks : TakeStep(p, m)
               \/ GetTrace(p) \/ SetTrace(p) \/ LockNotAcquired(p) \/ PublishNext(p) \/ CommittedStepFails(p)
        PROVE  UNCHANGED << status, touched, torn >>
    BY <1>3, TakeStepDoes, GetTraceDoes, SetTraceDoes, LockNotAcquiredDoes, PublishNextDoes,
       CommittedStepFailsDoes DEF historyVars
  <1>4. ASSUME BeatOnly \/ UNCHANGED recoveryVars \/ (\E r \in Runs : RunRetried(r)) \/ \E s \in Steps : RetryStepCalled(s)
        PROVE  UNCHANGED << status, touched, torn >>
    BY <1>4, RetryPipelineRunDoes DEF BeatOnly, recoveryVars, RunRetried, RetryStepCalled, historyVars
  <1> QED BY <1>1, <1>2, <1>3, <1>4, BeatDoes, RetryRunCalledDoes DEF RecoveryNext
-----------------------------------------------------------------------------
\* Stages: a followup publishes after its turn, the others after their success.
LEMMA StagesStep ==
  ASSUME RecoveryTyped, StagesInv, [RecoveryNext]_recoveryVars
  PROVE  StagesInv' /\ (followed => followed')
  <1>0. \A p \in Procs : StageOK(proc[p], followed) /\ proc[p] \in ProcDocs
    BY DEF StagesInv, RecoveryTyped
  <1>1. ASSUME NEW p \in Procs, NEW w, WorkerGoes(p, w), StageOK(w, followed'), followed => followed'
        PROVE  StagesInv'
    <2>1. \A q \in Procs : StageOK(proc[q], followed')
      BY <1>0, <1>1 DEF StageOK
    <2> QED BY <1>1, <2>1, WorkersLater DEF StagesInv
  <1>i. StageOK(Idle, followed')
    BY IdleTyped DEF StageOK
  <1>2. ASSUME NEW p \in Procs, NEW m \in tasks, TakeStep(p, m)
        PROVE  StagesInv' /\ followed' = followed
    <2>1. PICK w : /\ WorkerGoes(p, w)
                   /\ w.stage # "idle" => w.step = m.step /\ w.run = m.run
                   /\ w.stage = IF m.step # "followup_1" THEN "get"
                                ELSE IF << m.step, m.run >> \in stepKeys THEN "idle" ELSE "run"
      BY <1>2, TakeStepDoes
    <2>2. followed' = followed
      BY <1>2, TakeStepDoes DEF historyVars
    <2>3. StageOK(w, followed')
      BY <2>1 DEF StageOK
    <2> QED BY <1>1, <2>1, <2>2, <2>3
  <1>3. ASSUME NEW p \in Procs, GetTrace(p)
        PROVE  StagesInv' /\ followed' = followed
    <2>1. PICK w : WorkerGoes(p, w) /\ w.stage = "set" /\ w.step = proc[p].step
      BY <1>3, GetTraceDoes
    <2>2. followed' = followed /\ proc[p].stage = "get"
      BY <1>3, GetTraceDoes DEF historyVars
    <2>3. StageOK(w, followed')
      BY <1>0, <2>1, <2>2 DEF StageOK
    <2> QED BY <1>1, <2>1, <2>2, <2>3
  <1>4. ASSUME NEW p \in Procs, SetTrace(p)
        PROVE  StagesInv' /\ followed' = followed
    <2>1. PICK w : /\ WorkerGoes(p, w)
                   /\ \/ w = Idle
                      \/ /\ w.step = proc[p].step
                         /\ \/ w.stage = "run" /\ w.record = "started"
                            \/ w.stage = "publish" /\ w.record = "success"
      BY <1>4, SetTraceDoes
    <2>2. followed' = followed /\ proc[p].stage = "set"
      BY <1>4, SetTraceDoes DEF historyVars
    <2>3. StageOK(w, followed')
      BY <1>0, <1>i, <2>1, <2>2 DEF StageOK
    <2> QED BY <1>1, <2>1, <2>2, <2>3
  <1>5. ASSUME NEW p \in Procs, NEW record \in { "success", "error", "skipped", "locked" }, Ends(p, record),
               followed => followed', proc[p].step = "followup_1" /\ record = "success" => followed'
        PROVE  StagesInv'
    <2>1. PICK w : /\ WorkerGoes(p, w)
                   /\ \/ proc[p].step # "followup_1" /\ w.stage = "get" /\ w.step = proc[p].step
                      \/ /\ w.stage = "publish" /\ record = "success" /\ w.record = record
                         /\ w.step = proc[p].step
                      \/ w = Idle
      BY <1>5, EndsDoes
    <2>2. StageOK(w, followed')
      BY <1>5, <1>i, <2>1 DEF StageOK
    <2> QED BY <1>1, <1>5, <2>1, <2>2
  <1>6. ASSUME NEW p \in Procs, RunStep(p)
        PROVE  StagesInv' /\ (followed => followed')
    <2>1. followed' = (followed \/ (proc[p].step = "followup_1" /\ status = Wants[proc[p].step]))
      BY <1>6, RunStepDoes
    <2>2. PICK record \in { "success", "error", "skipped" } :
              Ends(p, record) /\ (record = "success" => status = Wants[proc[p].step])
      BY <1>6, RunStepDoes
    <2> QED BY <1>5, <2>1, <2>2
  <1>7. ASSUME NEW p \in Procs, LockNotAcquired(p)
        PROVE  StagesInv' /\ followed' = followed
    <2>1. Ends(p, "locked") /\ followed' = followed
      BY <1>7, LockNotAcquiredDoes DEF historyVars
    <2> QED BY <1>5, <2>1
  <1>8. ASSUME NEW p \in Procs, PublishNext(p)
        PROVE  StagesInv' /\ followed' = followed
    <2>1. PICK w : /\ WorkerGoes(p, w)
                   /\ w = Idle \/ (w.stage = "get" /\ proc[p].step = "outreach" /\ w.step = proc[p].step)
      BY <1>8, PublishNextDoes
    <2>2. followed' = followed
      BY <1>8, PublishNextDoes DEF historyVars
    <2>3. StageOK(w, followed')
      BY <1>i, <2>1 DEF StageOK
    <2> QED BY <1>1, <2>1, <2>2, <2>3
  <1>10. ASSUME NEW p \in Procs, CommittedStepFails(p)
         PROVE  StagesInv' /\ followed' = followed
    <2>1. PICK w : WorkerGoes(p, w) /\ (w = Idle \/ (w.stage = "get" /\ w.step # "followup_1"))
      BY <1>10, CommittedStepFailsDoes
    <2>2. followed' = followed
      BY <1>10, CommittedStepFailsDoes
    <2>3. StageOK(w, followed')
      BY <1>i, <2>1 DEF StageOK
    <2> QED BY <1>1, <2>1, <2>2, <2>3
  <1>9. ASSUME BeatOnly \/ UNCHANGED recoveryVars \/ (\E r \in Runs : RunRetried(r)) \/ \E s \in Steps : RetryStepCalled(s)
        PROVE  StagesInv' /\ followed' = followed
    <2>1. UNCHANGED << proc, followed >>
      BY <1>9, RetryPipelineRunDoes DEF BeatOnly, recoveryVars, RunRetried, RetryStepCalled, historyVars
    <2> QED BY <2>1 DEF StagesInv
  <1> QED BY <1>2, <1>3, <1>4, <1>6, <1>7, <1>8, <1>9, <1>10, BeatDoes, RetryRunCalledDoes DEF RecoveryNext

-----------------------------------------------------------------------------
\* A worker that stays at work stays at its step and run.
Stays(p, w) == w.stage # "idle" => proc[p].stage # "idle" /\ w.step = proc[p].step /\ w.run = proc[p].run

\* What a worker's step does to messages, keys and workers: it takes a message,
\* or keeps its step and perhaps publishes in its run.
Taken(p, w, m) ==
    /\ m \in tasks /\ m \in Message /\ tasks' = tasks \ { m } /\ stepKeys' = stepKeys \cup { << m.step, m.run >> }
    /\ w.stage # "idle" => w.step = m.step /\ w.run = m.run
Kept(p, w, new) ==
    /\ new \subseteq Message /\ tasks' = tasks \cup new /\ stepKeys' = stepKeys
    /\ proc[p].stage # "idle" /\ Stays(p, w)
    /\ \A m \in new : m.run = proc[p].run
    /\ \/ \A m \in new : m.step = proc[p].step
       \/ proc[p].stage = "publish" /\ \A m \in new : m.step \in Follows[proc[p].step]

\* Every step of a worker takes its message or keeps its step.
LEMMA WorkerStepDoes ==
  ASSUME RecoveryTyped, NEW p \in Procs,
         \/ \E m \in tasks : TakeStep(p, m)
         \/ GetTrace(p) \/ SetTrace(p) \/ RunStep(p) \/ LockNotAcquired(p) \/ PublishNext(p) \/ CommittedStepFails(p)
  PROVE  /\ \E w : WorkerGoes(p, w) /\ ((\E m \in tasks : Taken(p, w, m)) \/ \E new : Kept(p, w, new))
         /\ UNCHANGED << runs, early >>
  <1>i. Stays(p, Idle)
    BY IdleTyped DEF Stays
  <1>k. ASSUME NEW w, proc[p].stage # "idle", Stays(p, w), UNCHANGED << tasks, stepKeys >>
        PROVE  Kept(p, w, {})
    BY <1>k DEF Kept
  <1>1. ASSUME NEW m \in tasks, TakeStep(p, m)
        PROVE  (\E w : WorkerGoes(p, w) /\ Taken(p, w, m)) /\ UNCHANGED << runs, early >>
    <2>1. PICK w : /\ WorkerGoes(p, w)
                   /\ w.stage # "idle" => w.step = m.step /\ w.run = m.run
                   /\ w.stage = IF m.step # "followup_1" THEN "get"
                                ELSE IF << m.step, m.run >> \in stepKeys THEN "idle" ELSE "run"
      BY <1>1, TakeStepDoes
    <2>2. m \in Message /\ tasks' = tasks \ { m } /\ stepKeys' = stepKeys \cup { << m.step, m.run >> }
          /\ UNCHANGED << runs, early >>
      BY <1>1, TakeStepDoes DEF historyVars
    <2> QED BY <2>1, <2>2 DEF Taken
  <1>2. ASSUME GetTrace(p)
        PROVE  (\E w : WorkerGoes(p, w) /\ Kept(p, w, {})) /\ UNCHANGED << runs, early >>
    <2>1. PICK w : WorkerGoes(p, w) /\ w.step = proc[p].step /\ w.run = proc[p].run
      BY <1>2, GetTraceDoes
    <2>2. UNCHANGED << tasks, stepKeys, runs, early >> /\ proc[p].stage # "idle"
      BY <1>2, GetTraceDoes DEF historyVars
    <2>3. Stays(p, w)
      BY <2>1, <2>2 DEF Stays
    <2> QED BY <1>k, <2>1, <2>2, <2>3
  <1>3. ASSUME SetTrace(p)
        PROVE  (\E w, new : WorkerGoes(p, w) /\ Kept(p, w, new)) /\ UNCHANGED << runs, early >>
    <2>1. PICK w : WorkerGoes(p, w) /\ (w = Idle \/ (w.step = proc[p].step /\ w.run = proc[p].run))
      BY <1>3, SetTraceDoes
    <2>2. UNCHANGED << stepKeys, runs, early >> /\ proc[p].stage = "set"
      BY <1>3, SetTraceDoes DEF historyVars
    <2>3. Stays(p, w)
      BY <1>i, <2>1, <2>2 DEF Stays
    <2>4. CASE tasks' = tasks
      BY <1>k, <2>1, <2>2, <2>3, <2>4
    <2>5. CASE tasks' = tasks \cup { [step |-> proc[p].step, run |-> proc[p].run] }
      <3>1. proc[p].step \in Steps /\ proc[p].run \in Runs
        BY DEF RecoveryTyped, ProcDocs
      <3>2. Kept(p, w, { [step |-> proc[p].step, run |-> proc[p].run] })
        BY <2>2, <2>3, <2>5, <3>1 DEF Kept, Message
      <3> QED BY <2>1, <2>2, <3>2
    <2> QED BY <1>3, <2>4, <2>5, SetTraceDoes
  <1>4. ASSUME NEW record \in { "success", "error", "skipped", "locked" }, Ends(p, record), proc[p].stage = "run",
               UNCHANGED << tasks, stepKeys >>
        PROVE  \E w : WorkerGoes(p, w) /\ Kept(p, w, {})
    <2>1. PICK w : WorkerGoes(p, w) /\ (w = Idle \/ (w.step = proc[p].step /\ w.run = proc[p].run))
      BY <1>4, EndsDoes
    <2>2. Stays(p, w)
      BY <1>4, <1>i, <2>1 DEF Stays
    <2> QED BY <1>4, <1>k, <2>1, <2>2
  <1>5. ASSUME RunStep(p)
        PROVE  (\E w : WorkerGoes(p, w) /\ Kept(p, w, {})) /\ UNCHANGED << runs, early >>
    <2>1. UNCHANGED << tasks, stepKeys, runs, early >> /\ proc[p].stage = "run"
          /\ \E record \in { "success", "error", "skipped" } : Ends(p, record)
      BY <1>5, RunStepDoes
    <2> QED BY <1>4, <2>1
  <1>6. ASSUME LockNotAcquired(p)
        PROVE  (\E w : WorkerGoes(p, w) /\ Kept(p, w, {})) /\ UNCHANGED << runs, early >>
    <2>1. UNCHANGED << tasks, stepKeys, runs, early >> /\ proc[p].stage = "run" /\ Ends(p, "locked")
      BY <1>6, LockNotAcquiredDoes DEF historyVars
    <2> QED BY <1>4, <2>1
  <1>7. ASSUME PublishNext(p)
        PROVE  (\E w, new : WorkerGoes(p, w) /\ Kept(p, w, new)) /\ UNCHANGED << runs, early >>
    <2>1. PICK new : /\ new \subseteq Message /\ tasks' = tasks \cup new
                     /\ \A m \in new : m.run = proc[p].run /\ m.step \in Follows[proc[p].step]
      BY <1>7, PublishNextDoes
    <2>2. proc[p].stage = "publish" /\ UNCHANGED << stepKeys, runs, early >>
      BY <1>7, PublishNextDoes DEF historyVars
    <2>3. PICK w : WorkerGoes(p, w) /\ (w = Idle \/ (w.step = proc[p].step /\ w.run = proc[p].run))
      BY <1>7, PublishNextDoes
    <2>4. Stays(p, w)
      BY <1>i, <2>2, <2>3 DEF Stays
    <2> QED BY <2>1, <2>2, <2>3, <2>4 DEF Kept
  <1>8. ASSUME CommittedStepFails(p)
        PROVE  (\E w, new : WorkerGoes(p, w) /\ Kept(p, w, new)) /\ UNCHANGED << runs, early >>
    <2>1. PICK w : WorkerGoes(p, w) /\ (w = Idle \/ (w.step = proc[p].step /\ w.run = proc[p].run))
      BY <1>8, CommittedStepFailsDoes
    <2>2. UNCHANGED << stepKeys, runs, early >> /\ proc[p].stage # "idle"
      BY <1>8, CommittedStepFailsDoes
    <2>3. Stays(p, w)
      BY <1>i, <2>1, <2>2 DEF Stays
    <2>4. CASE tasks' = tasks
      BY <1>k, <2>1, <2>2, <2>3, <2>4
    <2>5. CASE tasks' = tasks \cup { [step |-> proc[p].step, run |-> proc[p].run] }
      <3>1. proc[p].step \in Steps /\ proc[p].run \in Runs
        BY DEF RecoveryTyped, ProcDocs
      <3>2. Kept(p, w, { [step |-> proc[p].step, run |-> proc[p].run] })
        BY <2>2, <2>3, <2>5, <3>1 DEF Kept, Message
      <3> QED BY <2>1, <2>2, <3>2
    <2> QED BY <1>8, <2>4, <2>5, CommittedStepFailsDoes
  <1> QED BY <1>1, <1>2, <1>3, <1>5, <1>6, <1>7, <1>8

\* Retries put messages of a new run in the queue.
Added(new) ==
    /\ new \subseteq Message /\ tasks' = tasks \cup new /\ stepKeys' \subseteq stepKeys
    /\ runs' = runs + 1 /\ \A m \in new : m.run = runs + 1
    /\ proc' = proc /\ (early => early')

\* The other steps leave lead and workers alone.
LEMMA OtherStepDoes ==
  ASSUME RecoveryTyped, BeatOnly \/ UNCHANGED recoveryVars \/ (\E r \in Runs : RunRetried(r)) \/ \E s \in Steps : RetryStepCalled(s)
  PROVE  /\ UNCHANGED << status, trace, proc, followed, dropped >>
         /\ \/ UNCHANGED << tasks, stepKeys, runs, early >>
            \/ \E r \in Runs : \E new : Added(new) /\ \A m \in new : early' \/ DependsOn[m.step] \subseteq Succeeded(trace[r])
            \/ \E m : Added({ m }) /\ early' = early
  <1>1. ASSUME BeatOnly \/ UNCHANGED recoveryVars
        PROVE  UNCHANGED << status, trace, proc, followed, dropped, tasks, stepKeys, runs, early >>
    BY <1>1 DEF BeatOnly, recoveryVars, traceVars, historyVars
  <1>2. ASSUME NEW r \in Runs, RunRetried(r)
        PROVE  /\ UNCHANGED << status, trace, proc, followed, dropped >>
               /\ \E new : Added(new) /\ \A m \in new : early' \/ DependsOn[m.step] \subseteq Succeeded(trace[r])
    <2>1. RetryPipelineRun(r) /\ UNCHANGED << status, trace, proc >>
      BY <1>2 DEF RunRetried, traceVars
    <2>2. PICK new : /\ new \subseteq Message /\ tasks' = tasks \cup new
                     /\ \A m \in new : /\ m.run = runs + 1
                                       /\ early' \/ DependsOn[m.step] \subseteq Succeeded(trace[r])
      BY <2>1, RetryPipelineRunDoes
    <2>3. runs' = runs + 1 /\ stepKeys' \subseteq stepKeys /\ (early => early') /\ UNCHANGED << followed, dropped >>
      BY <2>1, RetryPipelineRunDoes
    <2>4. Added(new)
      BY <2>1, <2>2, <2>3 DEF Added
    <2> QED BY <2>1, <2>2, <2>3, <2>4
  <1>3. ASSUME NEW s \in Steps, RetryStepCalled(s)
        PROVE  UNCHANGED << status, trace, proc, followed, dropped >> /\ \E m : Added({ m }) /\ early' = early
    <2>1. UNCHANGED << status, trace, proc, followed, dropped, early, stepKeys >>
      BY <1>3, RetryStepCalledDoes DEF traceVars, historyVars
    <2>2. Added({ [step |-> s, run |-> runs + 1] })
      BY <1>3, <2>1, RetryStepCalledDoes DEF Added
    <2> QED BY <2>1, <2>2
  <1> QED BY <1>1, <1>2, <1>3

\* The steps, in these two kinds.
LEMMA NextIs ==
  ASSUME RecoveryTyped, [RecoveryNext]_recoveryVars
  PROVE  \/ \E p \in Procs : (\E m \in tasks : TakeStep(p, m)) \/ GetTrace(p) \/ SetTrace(p) \/ RunStep(p)
                             \/ LockNotAcquired(p) \/ PublishNext(p) \/ CommittedStepFails(p)
         \/ BeatOnly \/ UNCHANGED recoveryVars \/ (\E r \in Runs : RunRetried(r)) \/ \E s \in Steps : RetryStepCalled(s)
  BY BeatDoes, RetryRunCalledDoes DEF RecoveryNext

\* Run ids stay behind the counter.
LEMMA FreshStep ==
  ASSUME RecoveryTyped, FreshInv, [RecoveryNext]_recoveryVars
  PROVE  FreshInv'
  <1>0. runs \in Nat /\ \A m \in Message : m.run \in Nat /\ m.run \in Runs
    BY RecoveryAssumption DEF RecoveryTyped, Runs, Message
  <1>1. ASSUME NEW p \in Procs, NEW w, NEW m, WorkerGoes(p, w), Taken(p, w, m), UNCHANGED runs
        PROVE  FreshInv'
    <2>1. m.run <= runs
      BY <1>1 DEF Taken, FreshInv
    <2>2. \A q \in Procs : proc'[q].stage # "idle" => proc'[q].run <= runs
      BY <1>1, <2>1, WorkersLater DEF FreshInv, Taken
    <2>3. \A n \in tasks' : n.run <= runs
      BY <1>1 DEF FreshInv, Taken
    <2>4. \A s \in Steps, r \in Runs : << s, r >> \in stepKeys' => r <= runs
      BY <1>1, <2>1 DEF FreshInv, Taken
    <2> QED BY <1>1, <2>2, <2>3, <2>4 DEF FreshInv
  <1>2. ASSUME NEW p \in Procs, NEW w, NEW new, WorkerGoes(p, w), Kept(p, w, new), UNCHANGED runs
        PROVE  FreshInv'
    <2>1. proc[p].run <= runs
      BY <1>2 DEF Kept, FreshInv
    <2>2. \A q \in Procs : proc'[q].stage # "idle" => proc'[q].run <= runs
      BY <1>2, <2>1, WorkersLater DEF FreshInv, Kept, Stays
    <2>3. \A n \in tasks' : n.run <= runs
      BY <1>2, <2>1 DEF FreshInv, Kept
    <2> QED BY <1>2, <2>2, <2>3 DEF FreshInv, Kept
  <1>3. ASSUME NEW new, Added(new)
        PROVE  FreshInv'
    <2>1. \A n \in tasks' : n.run <= runs'
      BY <1>0, <1>3 DEF FreshInv, Added, RecoveryTyped
    <2>2. \A s \in Steps, r \in Runs : << s, r >> \in stepKeys' => r <= runs'
      BY <1>0, <1>3 DEF FreshInv, Added, Runs
    <2>3. \A q \in Procs : proc[q].run \in Int
      BY DEF RecoveryTyped, ProcDocs, Runs
    <2>4. \A q \in Procs : proc'[q].stage # "idle" => proc'[q].run <= runs'
      BY <1>0, <1>3, <2>3 DEF FreshInv, Added
    <2> QED BY <2>1, <2>2, <2>4 DEF FreshInv
  <1>4. ASSUME UNCHANGED << tasks, stepKeys, runs, proc >>
        PROVE  FreshInv'
    BY <1>4 DEF FreshInv
  <1> QED BY <1>1, <1>2, <1>3, <1>4, NextIs, WorkerStepDoes, OtherStepDoes
-----------------------------------------------------------------------------
\* A recorded success of the outreach: the lead has got past the first touch.
LEMMA OutreachSucceeded ==
  ASSUME RecoveryTyped, TracesInv
  PROVE  /\ \A r \in Runs : DependsOn["followup_1"] \subseteq Succeeded(trace[r]) => Rank[status] > 3
         /\ \A p \in Procs : proc[p].step = "outreach" /\ proc[p].record = "success" => Rank[status] > 3
  <1>1. ASSUME NEW r \in Runs, DependsOn["followup_1"] \subseteq Succeeded(trace[r])
        PROVE  Rank[status] > 3
    <2>1. "outreach" \in Succeeded(trace[r])
      BY <1>1 DEF DependsOn
    <2>2. PICK e \in ToSet(trace[r].entries) : e.is = "success" /\ e.step = "outreach"
      BY <2>1 DEF Succeeded
    <2>3. Rank[status] > Rank[Wants["outreach"]]
      BY <2>2 DEF TracesInv, DocTrue
    <2> QED BY <2>3, StepsMoveOn
  <1>2. ASSUME NEW p \in Procs, proc[p].step = "outreach" /\ proc[p].record = "success"
        PROVE  Rank[status] > 3
    <2>1. Rank[status] > Rank[Wants["outreach"]]
      BY <1>2 DEF TracesInv, WorkerTrue
    <2> QED BY <2>1, StepsMoveOn
  <1> QED BY <1>1, <1>2

\* Messages are equal by their fields.
LEMMA MessagesByFields ==
    \A m \in Message : \A r : m.step = "followup_1" /\ m.run = r => m = [step |-> "followup_1", run |-> r]
  BY DEF Message

\* No step brings the followup and another step into one run before the first touch.
LEMMA LoneStep ==
  ASSUME RecoveryTyped, TracesInv, StagesInv, FreshInv, LoneInv, [RecoveryNext]_recoveryVars
  PROVE  LoneInv'
  <1> SUFFICES ASSUME Rank[status'] < 4, ~early', NEW r \in Runs, HasFollowup(r)', HasOther(r)'
               PROVE  FALSE
    BY DEF LoneInv
  <1>1. Rank[status] < 4 /\ ~(Rank[status] > 3)
    BY StatusMovesOn
  <1>2. ASSUME ~early
        PROVE  ~(HasFollowup(r) /\ HasOther(r))
    BY <1>1, <1>2 DEF LoneInv
  <1>3. ASSUME NEW p \in Procs, NEW w, NEW m, WorkerGoes(p, w), Taken(p, w, m)
        PROVE  HasFollowup(r) /\ HasOther(r)
    <2>1. HasFollowup(r)
      <3>1. CASE << "followup_1", r >> \in stepKeys'
        <4>1. << "followup_1", r >> \in stepKeys \/ (m.step = "followup_1" /\ m.run = r)
          BY <1>3, <3>1 DEF Taken
        <4> QED BY <1>3, <4>1, MessagesByFields DEF HasFollowup, Taken
      <3>2. CASE [step |-> "followup_1", run |-> r] \in tasks'
        BY <1>3, <3>2 DEF HasFollowup, Taken
      <3>3. ASSUME NEW q \in Procs, AtWork(proc'[q], r), proc'[q].step = "followup_1"
            PROVE  HasFollowup(r)
        <4>1. CASE q = p
          <5>1. m.step = "followup_1" /\ m.run = r
            BY <1>3, <3>3, <4>1, WorkersLater DEF Taken, AtWork
          <5> QED BY <1>3, <5>1, MessagesByFields DEF HasFollowup, Taken
        <4>2. CASE q # p
          BY <1>3, <3>3, <4>2, WorkersLater DEF HasFollowup
        <4> QED BY <4>1, <4>2
      <3> QED BY <3>1, <3>2, <3>3 DEF HasFollowup
    <2>2. HasOther(r)
      <3>1. ASSUME NEW n \in tasks', n.run = r, n.step # "followup_1"
            PROVE  HasOther(r)
        BY <1>3, <3>1 DEF HasOther, Taken
      <3>2. ASSUME NEW q \in Procs, AtWork(proc'[q], r), proc'[q].step # "followup_1"
            PROVE  HasOther(r)
        <4>1. CASE q = p
          <5>1. m.step # "followup_1" /\ m.run = r /\ m \in tasks
            BY <1>3, <3>2, <4>1, WorkersLater DEF Taken, AtWork
          <5> QED BY <5>1 DEF HasOther
        <4>2. CASE q # p
          BY <1>3, <3>2, <4>2, WorkersLater DEF HasOther
        <4> QED BY <4>1, <4>2
      <3> QED BY <3>1, <3>2 DEF HasOther
    <2> QED BY <2>1, <2>2
  <1>4. ASSUME NEW p \in Procs, NEW w, NEW new, WorkerGoes(p, w), Kept(p, w, new)
        PROVE  HasFollowup(r) /\ HasOther(r)
    <2>0. proc[p].step \in Steps /\ proc[p].stage # "idle"
      BY <1>4 DEF RecoveryTyped, ProcDocs, Kept
    <2>1. ASSUME NEW n \in new
          PROVE  /\ n.run = proc[p].run
                 /\ n.step = "followup_1" => proc[p].step = "followup_1"
                 /\ n.step # "followup_1" => proc[p].step # "followup_1"
      <3>1. CASE n.step = proc[p].step
        BY <1>4, <3>1 DEF Kept
      <3>2. CASE proc[p].stage = "publish" /\ n.step \in Follows[proc[p].step]
        <4>1. proc[p].step # "outreach"
          <5>1. proc[p].step # "followup_1" => proc[p].record = "success"
            BY <3>2 DEF StagesInv, StageOK
          <5> QED BY <1>1, <5>1, OutreachSucceeded
        <4> QED BY <1>4, <2>0, <3>2, <4>1, FollowsValues DEF Kept
      <3> QED BY <1>4, <3>1, <3>2 DEF Kept
    <2>2. HasFollowup(r)
      <3>1. CASE << "followup_1", r >> \in stepKeys'
        BY <1>4, <3>1 DEF HasFollowup, Kept
      <3>2. CASE [step |-> "followup_1", run |-> r] \in tasks'
        <4>1. CASE [step |-> "followup_1", run |-> r] \in new
          <5>1. AtWork(proc[p], r) /\ proc[p].step = "followup_1"
            BY <2>0, <2>1, <4>1 DEF AtWork
          <5> QED BY <5>1 DEF HasFollowup
        <4> QED BY <1>4, <3>2, <4>1 DEF HasFollowup, Kept
      <3>3. ASSUME NEW q \in Procs, AtWork(proc'[q], r), proc'[q].step = "followup_1"
            PROVE  HasFollowup(r)
        <4>1. AtWork(proc[q], r) /\ proc[q].step = "followup_1"
          BY <1>4, <3>3, WorkersLater DEF Kept, Stays, AtWork
        <4> QED BY <4>1 DEF HasFollowup
      <3> QED BY <3>1, <3>2, <3>3 DEF HasFollowup
    <2>3. HasOther(r)
      <3>1. ASSUME NEW n \in tasks', n.run = r, n.step # "followup_1"
            PROVE  HasOther(r)
        <4>1. CASE n \in new
          <5>1. AtWork(proc[p], r) /\ proc[p].step # "followup_1"
            BY <2>0, <2>1, <3>1, <4>1 DEF AtWork
          <5> QED BY <5>1 DEF HasOther
        <4> QED BY <1>4, <3>1, <4>1 DEF HasOther, Kept
      <3>2. ASSUME NEW q \in Procs, AtWork(proc'[q], r), proc'[q].step # "followup_1"
            PROVE  HasOther(r)
        <4>1. AtWork(proc[q], r) /\ proc[q].step # "followup_1"
          BY <1>4, <3>2, WorkersLater DEF Kept, Stays, AtWork
        <4> QED BY <4>1 DEF HasOther
      <3> QED BY <3>1, <3>2 DEF HasOther
    <2> QED BY <2>2, <2>3
  <1>5. ASSUME NEW new, Added(new),
               \/ \A n \in new : n.step # "followup_1"
               \/ \A n \in new : n.step = "followup_1"
        PROVE  HasFollowup(r) /\ HasOther(r)
    <2>0. runs \in Int /\ r \in Int /\ ~(runs + 1 <= runs)
      BY DEF RecoveryTyped, Runs
    <2>1. CASE r = runs + 1
      <3>1. << "followup_1", r >> \notin stepKeys'
        BY <1>5, <2>0, <2>1 DEF FreshInv, Added, Steps
      <3>2. \A q \in Procs : ~AtWork(proc'[q], r)
        BY <1>5, <2>0, <2>1 DEF FreshInv, Added, AtWork
      <3>3. \A n \in tasks' : n.run = r => n \in new
        BY <1>5, <2>0, <2>1 DEF FreshInv, Added
      <3>4. [step |-> "followup_1", run |-> r] \in new
        BY <3>1, <3>2, <3>3 DEF HasFollowup
      <3>5. \E n \in new : n.step # "followup_1"
        BY <3>2, <3>3 DEF HasOther
      <3>6. [step |-> "followup_1", run |-> r].step = "followup_1"
        OBVIOUS
      <3> QED BY <1>5, <3>4, <3>5, <3>6
    <2>2. CASE r # runs + 1
      <3>1. HasFollowup(r)
        BY <1>5, <2>2 DEF HasFollowup, Added
      <3>2. HasOther(r)
        BY <1>5, <2>2 DEF HasOther, Added
      <3> QED BY <3>1, <3>2
    <2> QED BY <2>1, <2>2
  <1>6. ASSUME NEW p \in Procs,
               \/ \E m \in tasks : TakeStep(p, m)
               \/ GetTrace(p) \/ SetTrace(p) \/ RunStep(p) \/ LockNotAcquired(p)
               \/ PublishNext(p) \/ CommittedStepFails(p)
        PROVE  FALSE
    BY <1>2, <1>3, <1>4, <1>6, WorkerStepDoes
  <1>7. ASSUME BeatOnly \/ UNCHANGED recoveryVars \/ (\E x \in Runs : RunRetried(x)) \/ \E s \in Steps : RetryStepCalled(s)
        PROVE  FALSE
    <2>1. ASSUME UNCHANGED << tasks, stepKeys, early, proc >>
          PROVE  FALSE
      BY <1>2, <2>1 DEF HasFollowup, HasOther
    <2>2. ASSUME NEW x \in Runs, NEW new, Added(new),
                 \A m \in new : early' \/ DependsOn[m.step] \subseteq Succeeded(trace[x])
          PROVE  FALSE
      <3>1. \A m \in new : m.step # "followup_1"
        BY <1>1, <2>2, OutreachSucceeded
      <3>2. ~early
        BY <2>2 DEF Added
      <3> QED BY <1>2, <1>5, <2>2, <3>1, <3>2
    <2>3. ASSUME NEW m, Added({ m })
          PROVE  FALSE
      <3>1. ~early
        BY <2>3 DEF Added
      <3>2. (\A n \in { m } : n.step # "followup_1") \/ (\A n \in { m } : n.step = "followup_1")
        OBVIOUS
      <3>3. HasFollowup(r) /\ HasOther(r)
        BY <1>5, <2>3, <3>2
      <3> QED BY <1>2, <3>1, <3>3
    <2>4. \/ UNCHANGED << tasks, stepKeys, early, proc >>
          \/ \E x \in Runs : \E new : Added(new) /\ \A m \in new : early' \/ DependsOn[m.step] \subseteq Succeeded(trace[x])
          \/ \E m : Added({ m }) /\ early' = early
      BY <1>7, OtherStepDoes
    <2> QED BY <2>1, <2>2, <2>3, <2>4
  <1> QED BY <1>6, <1>7, NextIs

\* At first one step is queued.
LEMMA LoneInit == RecoveryInit => LoneInv /\ FreshInv /\ StagesInv /\ TouchInv
  <1> SUFFICES ASSUME RecoveryInit
               PROVE  LoneInv /\ FreshInv /\ StagesInv /\ TouchInv
    OBVIOUS
  <1>1. /\ stepKeys = {} /\ runs = 1 /\ touched = 0 /\ torn = 0 /\ status = FirstStatus
        /\ \A p \in Procs : proc[p] = Idle
        /\ \A m \in tasks : m.run = 1 /\ Wants[m.step] = status
    BY DEF RecoveryInit
  <1>2. FreshInv /\ StagesInv /\ TouchInv
    BY <1>1, IdleTyped DEF FreshInv, StagesInv, StageOK, TouchInv
  <1>3. Rank[status] < 4 => \A r \in Runs : ~HasFollowup(r)
    <2>1. \A m \in tasks : m.step = "followup_1" => Rank[status] = 4
      BY <1>1, StepsMoveOn
    <2> QED BY <1>1, <2>1, IdleTyped DEF HasFollowup, AtWork
  <1>4. LoneInv
    BY <1>3 DEF LoneInv
  <1> QED BY <1>2, <1>4

-----------------------------------------------------------------------------
Pending == (\E p \in Procs : Turns(p) \/ Brings(p)) \/ \E r \in Runs : Waits(r)

\* A worker that is not what will bring the turn goes on.
LEMMA OthersKeepPending ==
  ASSUME RecoveryTyped, NEW p \in Procs, NEW w, WorkerGoes(p, w), ~Turns(p), ~Brings(p),
         tasks \subseteq tasks', stepKeys' = stepKeys, Pending
  PROVE  Pending'
  <1>1. ASSUME NEW q \in Procs, Turns(q) \/ Brings(q)
        PROVE  Turns(q)' \/ Brings(q)'
    BY <1>1, WorkersLater DEF Turns, Brings
  <1>2. ASSUME NEW r \in Runs, Waits(r)
        PROVE  Waits(r)'
    BY <1>2 DEF Waits
  <1> QED BY <1>1, <1>2 DEF Pending

\* The followup is taken: its turn has come, or its key was not its own.
LEMMA PendingTakeStep ==
  ASSUME RecoveryTyped, NEW p \in Procs, NEW m \in tasks, TakeStep(p, m), Pending
  PROVE  Pending'
  <1>1. PICK w : /\ WorkerGoes(p, w)
                 /\ w.stage # "idle" => w.step = m.step /\ w.run = m.run
                 /\ w.stage = IF m.step # "followup_1" THEN "get"
                              ELSE IF << m.step, m.run >> \in stepKeys THEN "idle" ELSE "run"
    BY TakeStepDoes
  <1>2. /\ m \in Message /\ tasks' = tasks \ { m } /\ stepKeys' = stepKeys \cup { << m.step, m.run >> }
        /\ proc[p].stage = "idle"
    BY TakeStepDoes
  <1>3. ASSUME m.step = "followup_1", << "followup_1", m.run >> \notin stepKeys
        PROVE  Pending'
    <2>1. w.stage = "run" /\ w.step = "followup_1"
      BY <1>1, <1>3
    <2>2. Turns(p)'
      BY <1>1, <2>1, WorkersLater DEF Turns
    <2> QED BY <2>2 DEF Pending
  <1>4. ASSUME NEW q \in Procs, Turns(q) \/ Brings(q)
        PROVE  Pending'
    <2>1. q # p /\ proc'[q] = proc[q]
      BY <1>1, <1>2, <1>4, WorkersLater DEF Turns, Brings
    <2>2. CASE Turns(q)
      <3>1. Turns(q)'
        BY <2>1, <2>2 DEF Turns
      <3> QED BY <3>1 DEF Pending
    <2>3. CASE Brings(q)
      <3>1. CASE m.step = "followup_1" /\ m.run = proc[q].run
        BY <1>3, <2>3, <3>1 DEF Brings
      <3>2. CASE ~(m.step = "followup_1" /\ m.run = proc[q].run)
        <4>1. << "followup_1", proc[q].run >> \notin stepKeys'
          BY <1>2, <2>3, <3>2 DEF Brings
        <4>2. Brings(q)'
          BY <2>1, <2>3, <4>1 DEF Brings
        <4> QED BY <4>2 DEF Pending
      <3> QED BY <3>1, <3>2
    <2> QED BY <1>4, <2>2, <2>3
  <1>5. ASSUME NEW r \in Runs, Waits(r)
        PROVE  Pending'
    <2>1. CASE m.step = "followup_1" /\ m.run = r
      BY <1>3, <1>5, <2>1 DEF Waits
    <2>2. CASE ~(m.step = "followup_1" /\ m.run = r)
      <3>1. << "followup_1", r >> \notin stepKeys'
        BY <1>2, <1>5, <2>2 DEF Waits
      <3>2. [step |-> "followup_1", run |-> r] # m
        BY <2>2
      <3>3. Waits(r)'
        BY <1>2, <1>5, <3>1, <3>2 DEF Waits
      <3> QED BY <3>3 DEF Pending
    <2> QED BY <2>1, <2>2
  <1> QED BY <1>4, <1>5 DEF Pending

\* Records of traces have no part in it.
LEMMA PendingTrace ==
  ASSUME RecoveryTyped, NEW p \in Procs, GetTrace(p) \/ SetTrace(p), Pending
  PROVE  Pending'
  <1>1. stepKeys' = stepKeys /\ tasks \subseteq tasks' /\ proc[p].stage \in { "get", "set" }
    BY GetTraceDoes, SetTraceDoes
  <1>2. PICK w : WorkerGoes(p, w)
    BY GetTraceDoes, SetTraceDoes
  <1>3. ~Turns(p) /\ ~Brings(p)
    BY <1>1 DEF Turns, Brings
  <1> QED BY <1>1, <1>2, <1>3, OthersKeepPending

\* The first touch is made in a run without the key of the followup; the followup has its turn.
LEMMA PendingRunStep ==
  ASSUME RecoveryTyped, LoneInv, PendingInv, NEW p \in Procs, RunStep(p),
         status' = "OUTREACH_SENT", ~early', ~dropped', ~followed'
  PROVE  Pending'
  <1>1. /\ proc[p].stage = "run" /\ UNCHANGED << tasks, stepKeys, early, dropped >>
        /\ followed' = (followed \/ (proc[p].step = "followup_1" /\ status = Wants[proc[p].step]))
    BY RunStepDoes
  <1>2. PICK record \in { "success", "error", "skipped" } :
            /\ Ends(p, record)
            /\ status' = status \/ (record = "success" /\ status = Wants[proc[p].step] /\ status' = Leaves[proc[p].step])
    BY RunStepDoes
  <1>3. proc[p].step \in Steps /\ proc[p].run \in Runs
    BY DEF RecoveryTyped, ProcDocs
  <1>4. CASE status = "OUTREACH_SENT"
    <2>1. PICK w : WorkerGoes(p, w)
      BY <1>2, EndsDoes
    <2>2. ~Turns(p)
      BY <1>1, <1>4, StepsMoveOn DEF Turns
    <2>3. ~Brings(p)
      BY <1>1 DEF Brings
    <2>4. Pending
      BY <1>1, <1>4 DEF PendingInv, Pending
    <2> QED BY <1>1, <2>1, <2>2, <2>3, <2>4, OthersKeepPending
  <1>5. CASE status # "OUTREACH_SENT"
    <2>1. proc[p].step = "outreach" /\ record = "success" /\ status = "EMAIL_READY"
      BY <1>2, <1>3, <1>5, StepsMoveOn DEF Leaves, Steps
    <2>2. PICK w : /\ WorkerGoes(p, w) /\ w.stage = "publish"
                   /\ w.step = "outreach" /\ w.run = proc[p].run
      BY <1>2, <2>1, EndsDoes
    <2>3. HasOther(proc[p].run)
      BY <1>1, <2>1 DEF HasOther, AtWork
    <2>4. << "followup_1", proc[p].run >> \notin stepKeys
      BY <1>1, <1>3, <2>1, <2>3, StepsMoveOn DEF LoneInv, HasFollowup
    <2>5. Brings(p)'
      BY <1>1, <2>2, <2>4, WorkersLater DEF Brings
    <2> QED BY <2>5 DEF Pending
  <1> QED BY <1>4, <1>5

\* A followup that finds its lock taken leaves the turn to the worker that has it.
LEMMA PendingLockNotAcquired ==
  ASSUME RecoveryTyped, StagesInv, NEW p \in Procs, LockNotAcquired(p), ~followed, Pending
  PROVE  Pending'
  <1>1. Ends(p, "locked") /\ UNCHANGED << tasks, stepKeys >> /\ proc[p].stage = "run"
    BY LockNotAcquiredDoes
  <1>2. PICK w : WorkerGoes(p, w)
    BY <1>1, EndsDoes
  <1>3. ~Brings(p)
    BY <1>1 DEF Brings
  <1>4. CASE Turns(p)
    <2>1. PICK q \in Procs \ { p } : proc[q].stage # "idle" /\ proc[q].step = proc[p].step
      BY LockNotAcquiredDoes
    <2>2. proc[q].step = "followup_1" /\ proc[q].stage = "run"
      BY <1>4, <2>1 DEF Turns, StagesInv, StageOK
    <2>3. Turns(q)'
      BY <1>2, <2>1, <2>2, WorkersLater DEF Turns
    <2> QED BY <2>1, <2>3 DEF Pending
  <1>5. CASE ~Turns(p)
    BY <1>1, <1>2, <1>3, <1>5, OthersKeepPending
  <1> QED BY <1>4, <1>5

\* The followup of the first touch is published.
LEMMA PendingPublishNext ==
  ASSUME RecoveryTyped, NEW p \in Procs, PublishNext(p), Pending
  PROVE  Pending'
  <1>1. stepKeys' = stepKeys /\ tasks \subseteq tasks' /\ proc[p].stage = "publish"
    BY PublishNextDoes
  <1>w. PICK w : WorkerGoes(p, w)
    BY PublishNextDoes
  <1>2. ~Turns(p)
    BY <1>1 DEF Turns
  <1>3. CASE Brings(p)
    <2>1. PICK r \in Runs : r = proc[p].run
      BY DEF RecoveryTyped, ProcDocs
    <2>2. [step |-> "followup_1", run |-> r] \in tasks'
      BY <1>3, <2>1, PublishNextDoes DEF Brings
    <2>3. Waits(r)'
      BY <1>1, <1>3, <2>1, <2>2 DEF Waits, Brings
    <2> QED BY <2>3 DEF Pending
  <1>4. CASE ~Brings(p)
    BY <1>1, <1>w, <1>2, <1>4, OthersKeepPending
  <1> QED BY <1>3, <1>4

\* A committed step that fails drops nothing else.
LEMMA PendingCommittedStepFails ==
  ASSUME RecoveryTyped, NEW p \in Procs, CommittedStepFails(p), ~dropped', Pending
  PROVE  Pending'
  <1>1. stepKeys' = stepKeys /\ tasks \subseteq tasks' /\ proc[p].stage \in { "publish", "get" }
    BY CommittedStepFailsDoes
  <1>2. PICK w : WorkerGoes(p, w)
    BY CommittedStepFailsDoes
  <1>3. ~(proc[p].stage = "publish" /\ proc[p].step = "outreach")
    BY CommittedStepFailsDoes
  <1>4. ~Turns(p) /\ ~Brings(p)
    BY <1>1, <1>3 DEF Turns, Brings
  <1> QED BY <1>1, <1>2, <1>4, OthersKeepPending

\* Every step keeps the turn of the followup coming.
LEMMA PendingStep ==
  ASSUME RecoveryTyped, StagesInv, LoneInv, PendingInv, [RecoveryNext]_recoveryVars
  PROVE  PendingInv'
  <1> SUFFICES ASSUME status' = "OUTREACH_SENT", ~early', ~dropped', ~followed'
               PROVE  Pending'
    BY DEF PendingInv, Pending
  <1>0. ~followed
    BY StagesStep
  <1>1. ASSUME status' = status, early => early', dropped => dropped'
        PROVE  Pending
    BY <1>0, <1>1 DEF PendingInv, Pending
  <1>2. ASSUME NEW p \in Procs, NEW m \in tasks, TakeStep(p, m)
        PROVE  Pending'
    <2>1. UNCHANGED << status, early, dropped >>
      BY <1>2, TakeStepDoes DEF historyVars
    <2> QED BY <1>1, <1>2, <2>1, PendingTakeStep
  <1>3. ASSUME NEW p \in Procs, GetTrace(p) \/ SetTrace(p)
        PROVE  Pending'
    <2>1. UNCHANGED << status, early, dropped >>
      BY <1>3, GetTraceDoes, SetTraceDoes DEF historyVars
    <2> QED BY <1>1, <1>3, <2>1, PendingTrace
  <1>4. ASSUME NEW p \in Procs, RunStep(p)
        PROVE  Pending'
    BY <1>4, PendingRunStep
  <1>5. ASSUME NEW p \in Procs, LockNotAcquired(p)
        PROVE  Pending'
    <2>1. UNCHANGED << status, early, dropped >>
      BY <1>5, LockNotAcquiredDoes DEF historyVars
    <2> QED BY <1>0, <1>1, <1>5, <2>1, PendingLockNotAcquired
  <1>6. ASSUME NEW p \in Procs, PublishNext(p)
        PROVE  Pending'
    <2>1. UNCHANGED << status, early, dropped >>
      BY <1>6, PublishNextDoes DEF historyVars
    <2> QED BY <1>1, <1>6, <2>1, PendingPublishNext
  <1>7. ASSUME BeatOnly \/ UNCHANGED recoveryVars \/ (\E x \in Runs : RunRetried(x)) \/ \E s \in Steps : RetryStepCalled(s)
        PROVE  Pending'
    <2>1. status' = status /\ proc' = proc
      BY <1>7, OtherStepDoes
    <2>2. tasks \subseteq tasks' /\ stepKeys' \subseteq stepKeys /\ (early => early') /\ dropped' = dropped
      BY <1>7, OtherStepDoes DEF Added
    <2>3. Pending
      BY <1>1, <2>1, <2>2
    <2>4. (\E p \in Procs : Turns(p) \/ Brings(p)) => Pending'
      BY <2>1, <2>2 DEF Pending, Turns, Brings
    <2>5. (\E r \in Runs : Waits(r)) => Pending'
      BY <2>2 DEF Pending, Waits
    <2> QED BY <2>3, <2>4, <2>5 DEF Pending
  <1>8. ASSUME NEW p \in Procs, CommittedStepFails(p)
        PROVE  Pending'
    <2>1. UNCHANGED << status, early >> /\ (dropped => dropped')
      BY <1>8, CommittedStepFailsDoes
    <2> QED BY <1>1, <1>8, <2>1, PendingCommittedStepFails
  <1> QED BY <1>2, <1>3, <1>4, <1>5, <1>6, <1>7, <1>8, NextIs

\* A lead that starts after its first touch has its followup queued.
LEMMA PendingInit == RecoveryInit => PendingInv
  <1> SUFFICES ASSUME RecoveryInit, status = "OUTREACH_SENT"
               PROVE  \E r \in Runs : Waits(r)
    BY DEF PendingInv
  <1>1. 1 \in Runs
    BY RecoveryAssumption DEF Runs
  <1>2. [step |-> "followup_1", run |-> 1] \in tasks
    BY StepsMoveOn DEF RecoveryInit, Steps
  <1>3. Waits(1)
    BY <1>2 DEF Waits, RecoveryInit
  <1> QED BY <1>1, <1>3

-----------------------------------------------------------------------------
(* The inductive invariant of the traces, the touches and the followup.     *)
THEOREM PipelineInvHolds == RecoverySpec => []PipelineInv
  <1>1. RecoveryInit => PipelineInv
    BY RecoveryTypedInit, TracesInit, LoneInit, PendingInit DEF PipelineInv
  <1>2. PipelineInv /\ [RecoveryNext]_recoveryVars => PipelineInv'
    BY TypedStep, TracesStep, TouchStep, StagesStep, FreshStep, LoneStep, PendingStep DEF PipelineInv
  <1> QED BY <1>1, <1>2, PTL DEF RecoverySpec

(* Types of the pipeline runs and their recovery (pipeline_trace.py,        *)
(* recovery.py), for any workers, deliveries and bounds. *)
THEOREM RecoveryTypes == RecoverySpec => []RecoveryTypeOK
  <1>1. RecoveryTyped => RecoveryTypeOK
    <2> SUFFICES ASSUME RecoveryTyped
                 PROVE  RecoveryTypeOK
      OBVIOUS
    <2>1. \A r \in Runs : trace[r].status \in { "none", "running", "failed" }
                          /\ trace[r].entries \in Seq([step : Steps, is : Records])
      BY DEF RecoveryTyped, TraceDocs, TraceEntries
    <2>2. \A p \in Procs : /\ proc[p].stage \in { "idle", "get", "set", "run", "publish" }
                           /\ proc[p].step \in Steps /\ proc[p].run \in Runs /\ proc[p].record \in Records
      BY DEF RecoveryTyped, ProcDocs
    <2> QED BY <2>1, <2>2 DEF RecoveryTyped, RecoveryTypeOK
  <1> QED BY <1>1, PipelineInvHolds, PTL DEF PipelineInv

(* However often and in whatever overlap the runs are recovered, a second   *)
(* first touch follows only a transaction that was rolled back: start_outreach *)
(* compares the status under the row lock. *)
THEOREM RecoveryTouchesOnce == RecoverySpec => []TouchRepeatedOnlyWhenTorn
  <1>1. PipelineInv => TouchRepeatedOnlyWhenTorn
    BY DEF PipelineInv, TouchInv, TouchRepeatedOnlyWhenTorn
  <1> QED BY <1>1, PipelineInvHolds, PTL

(* A success in a trace is the truth, though copies of the trace are read,  *)
(* changed and set by workers and lost to one another (record_step_result). *)
THEOREM RecoveryTracesTrue == RecoverySpec => []TracesAreTrue
  <1>1. PipelineInv => TracesAreTrue
    BY DEF PipelineInv, TracesInv, DocTrue, TracesAreTrue, Succeeded
  <1> QED BY <1>1, PipelineInvHolds, PTL

(* The followup of the first touch has its turn, unless a recovery started  *)
(* a step before the one it depends on had succeeded (retry_pipeline_run), *)
(* or start_outreach failed between its commit and schedule_followup. *)
THEOREM RecoveryFollowup == RecoverySpec => []FollowupLostOnlyByEarlyStartOrDrop
  <1>1. PipelineInv => FollowupLostOnlyByEarlyStartOrDrop
    BY DEF PipelineInv, PendingInv, FollowupLostOnlyByEarlyStartOrDrop, Turns, Brings, Waits
  <1> QED BY <1>1, PipelineInvHolds, PTL
=============================================================================
