---------------------------- MODULE Outbound_proof ----------------------------
(***************************************************************************)
(* Proofs about Outbound, for any number of workers, any limits and any    *)
(* length of the day.  For each counter only the current window is at      *)
(* stake: SendsBounded is not inductive by itself, it needs what is known  *)
(* of the workers between the check and record_send.                       *)
(***************************************************************************)
EXTENDS Outbound, FiniteSetTheorems, TLAPS

\* A mail of window n that is not recorded yet.
IsOwing(t, c, n) == t.stage = "record" /\ c \in Concerned(t) /\ Window(c, t.hour) = n
Owing(c, n) == { w \in Senders : IsOwing(outreach[w], c, n) }

\* A task that may mail without looking at counter c in window n: it has
\* looked already, or looks at the window before.
IsAhead(t, c, n) ==
    /\ t.stage \in { "throttle", "compose" }
    /\ \/ Window(c, t.hour) # n
       \/ \E i \in 1 .. (t.next - 1) : Checks(t.domain, t.campaign)[i] = c
Ahead(c, n) == { w \in Senders : IsAhead(outreach[w], c, n) }

\* A task of campaign k that may mail without looking at the pause.
IsUnderWay(t, k) == t.stage \in { "validate", "throttle", "compose" } /\ t.campaign = k
UnderWay(k) == { w \in Senders : IsUnderWay(outreach[w], k) }

\* The counter a task looks at next.
TaskOK(t) ==
    /\ t \in Task
    /\ t.stage \in { "idle", "validate" } => t.next = 1
    /\ t.stage = "throttle" => t.next \in 1 .. Len(Checks(t.domain, t.campaign))
    /\ t.stage = "compose" => t.next = Len(Checks(t.domain, t.campaign)) + 1

Typed ==
    /\ hour \in Hours /\ ends \in 0 .. MaxLost
    /\ count \in [Counters -> [Hours -> Nat]]
    /\ sent \in [Counters -> [Hours -> Nat]]
    /\ lost \in [Counters -> [Hours -> Nat]]
    /\ outreach \in [Senders -> Task] /\ \A w \in Senders : TaskOK(outreach[w])
    /\ paused \in [Campaigns -> { "no", "hand" }]
    /\ total \in [Campaigns -> [sent : { 0 }, bounced : 0 .. MaxBounces]]
    /\ afterPause \in [Campaigns -> Nat]

Bound(c) == Limit(c) - 1 + Cardinality(Senders)

\* Counter c in its current window n, and in the other ones.
CounterInv(c, n) ==
    /\ sent[c][n] <= count[c][n] + lost[c][n] + Cardinality(Owing(c, n))
    /\ sent[c][n] + Cardinality(Ahead(c, n)) <= Bound(c) + lost[c][n]
    /\ \A m \in Hours : /\ m > n => sent[c][m] = 0
                        /\ m < n => sent[c][m] <= Bound(c) + lost[c][m]

CountersInv == \A c \in Counters, n \in Hours : n = Window(c, hour) => CounterInv(c, n)

PauseInv ==
    \A k \in Campaigns :
        paused[k] # "no" => afterPause[k] + Cardinality(UnderWay(k)) <= Cardinality(Senders)

-----------------------------------------------------------------------------
\* The windows of a counter are hours, and go up with the clock.
LEMMA WindowsGoUp ==
  ASSUME NEW c, NEW h \in Hours
  PROVE  /\ Window(c, h) \in Hours
         /\ h + 1 \in Hours => Window(c, h) <= Window(c, h + 1)
  <1>1. HoursPerDay \in Nat \ {0} /\ MaxHour \in Nat
    BY BoundsAssumption
  <1>2. h \in Nat /\ h <= MaxHour
    BY <1>1 DEF Hours
  <1>3. h \div HoursPerDay \in Nat /\ h \div HoursPerDay <= h
    BY <1>1, <1>2
  <1>4. (h + 1) \div HoursPerDay \in Nat /\ h \div HoursPerDay <= (h + 1) \div HoursPerDay
    BY <1>1, <1>2
  <1> QED BY <1>1, <1>2, <1>3, <1>4 DEF Window, Hours

\* Limits are positive.
LEMMA LimitsPositive == \A c \in Counters : Limit(c) \in Nat \ {0}
  BY LimitsAssumption DEF Limit, Counters

\* The checks of a mail are counters, and leave none out that the mail concerns.
LEMMA ChecksCoverConcerned ==
  ASSUME NEW t \in Task
  PROVE  LET checks == Checks(t.domain, t.campaign)
         IN  /\ Len(checks) = 3 \/ Len(checks) = 4
             /\ \A i \in 1 .. Len(checks) : checks[i] \in Counters
             /\ \A c \in Concerned(t) : \E i \in 1 .. Len(checks) : checks[i] = c
             /\ DOMAIN checks = 1 .. Len(checks)
  <1> DEFINE checks == Checks(t.domain, t.campaign)
  <1>1. t.domain \in Domains /\ t.campaign \in Campaigns \cup {NoCampaign}
    BY DEF Task
  <1>2. CASE t.campaign = NoCampaign
    <2>1. /\ checks = << "hour", "sender", t.domain >>
          /\ Concerned(t) = { "hour", "sender", t.domain }
      BY <1>2 DEF Checks, Concerned
    <2> QED BY <1>1, <2>1 DEF Counters
  <1>3. CASE t.campaign # NoCampaign
    <2>2. checks = << "hour", "sender", t.domain, t.campaign >>
      BY <1>3 DEF Checks
    <2>3. Concerned(t) = { "hour", "sender", t.domain, t.campaign }
      BY <1>3 DEF Concerned
    <2> QED BY <1>1, <1>3, <2>2, <2>3 DEF Counters
  <1> QED BY <1>2, <1>3

\* Sets of workers are finite, and a worker owes or is ahead, not both.
LEMMA WorkersFit ==
  ASSUME NEW c, NEW n, NEW k
  PROVE  /\ Cardinality(Senders) \in Nat
         /\ IsFiniteSet(Owing(c, n)) /\ IsFiniteSet(Ahead(c, n)) /\ IsFiniteSet(UnderWay(k))
         /\ Cardinality(Owing(c, n)) \in Nat /\ Cardinality(Ahead(c, n)) \in Nat
         /\ Cardinality(UnderWay(k)) \in Nat
         /\ Cardinality(UnderWay(k)) <= Cardinality(Senders)
         /\ Cardinality(Owing(c, n)) + Cardinality(Ahead(c, n)) <= Cardinality(Senders)
  <1>1. IsFiniteSet(Senders)
    BY SendersAssumption
  <1>2. /\ Owing(c, n) \subseteq Senders /\ Ahead(c, n) \subseteq Senders
        /\ UnderWay(k) \subseteq Senders /\ Owing(c, n) \cup Ahead(c, n) \subseteq Senders
        /\ Owing(c, n) \cap Ahead(c, n) = {}
    BY DEF Owing, Ahead, UnderWay, IsOwing, IsAhead
  <1>3. /\ IsFiniteSet(Owing(c, n)) /\ IsFiniteSet(Ahead(c, n)) /\ IsFiniteSet(UnderWay(k))
        /\ Cardinality(Owing(c, n) \cup Ahead(c, n)) <= Cardinality(Senders)
        /\ Cardinality(UnderWay(k)) <= Cardinality(Senders)
    BY <1>1, <1>2, FS_Subset
  <1>4. Cardinality(Owing(c, n) \cup Ahead(c, n))
          = Cardinality(Owing(c, n)) + Cardinality(Ahead(c, n)) - Cardinality(Owing(c, n) \cap Ahead(c, n))
    BY <1>3, FS_Union
  <1>5. /\ Cardinality(Senders) \in Nat /\ Cardinality(Owing(c, n)) \in Nat
        /\ Cardinality(Ahead(c, n)) \in Nat /\ Cardinality(UnderWay(k)) \in Nat
        /\ Cardinality(Owing(c, n) \cap Ahead(c, n)) = 0
    BY <1>1, <1>2, <1>3, FS_CardinalityType, FS_EmptySet
  <1> QED BY <1>3, <1>4, <1>5

\* The same after the step.
LEMMA WorkersFitLater ==
  ASSUME NEW c, NEW n
  PROVE  Cardinality(Owing(c, n)') + Cardinality(Ahead(c, n)') <= Cardinality(Senders)
  <1>1. IsFiniteSet(Senders)
    BY SendersAssumption
  <1>2. /\ Owing(c, n)' \subseteq Senders /\ Ahead(c, n)' \subseteq Senders
        /\ Owing(c, n)' \cup Ahead(c, n)' \subseteq Senders /\ Owing(c, n)' \cap Ahead(c, n)' = {}
    BY DEF Owing, Ahead, IsOwing, IsAhead
  <1>3. /\ IsFiniteSet(Owing(c, n)') /\ IsFiniteSet(Ahead(c, n)')
        /\ Cardinality(Owing(c, n)' \cup Ahead(c, n)') <= Cardinality(Senders)
    BY <1>1, <1>2, FS_Subset
  <1>4. Cardinality(Owing(c, n)' \cup Ahead(c, n)')
          = Cardinality(Owing(c, n)') + Cardinality(Ahead(c, n)') - Cardinality(Owing(c, n)' \cap Ahead(c, n)')
    BY <1>3, FS_Union
  <1>5. /\ Cardinality(Owing(c, n)') \in Nat /\ Cardinality(Ahead(c, n)') \in Nat
        /\ Cardinality(Owing(c, n)' \cap Ahead(c, n)') = 0
    BY <1>2, <1>3, FS_CardinalityType, FS_EmptySet
  <1> QED BY <1>3, <1>4, <1>5

\* Two sets that differ by at most one element.
LEMMA OneInOrOut ==
  ASSUME NEW S, NEW T, IsFiniteSet(S), NEW w, S \ { w } = T \ { w }
  PROVE  Cardinality(T) = Cardinality(S) + (IF w \in T THEN 1 ELSE 0) - (IF w \in S THEN 1 ELSE 0)
  <1>1. Cardinality(S) \in Nat
    BY FS_CardinalityType
  <1>2. CASE w \in S /\ w \notin T
    <2>1. T = S \ { w }
      BY <1>2
    <2>2. Cardinality(T) = Cardinality(S) - 1
      BY <1>2, <2>1, FS_RemoveElement
    <2> QED BY <1>1, <1>2, <2>2
  <1>3. CASE w \notin S /\ w \in T
    <2>1. T = S \cup { w }
      BY <1>3
    <2>2. Cardinality(T) = Cardinality(S) + 1
      BY <1>3, <2>1, FS_AddElement
    <2> QED BY <1>1, <1>3, <2>2
  <1>4. CASE w \in S <=> w \in T
    <2>1. S = T
      BY <1>4
    <2> QED BY <1>1, <2>1
  <1> QED BY <1>2, <1>3, <1>4

\* The task of one worker changes: the sets lose and gain at most this worker.
LEMMA TaskGoesOn ==
  ASSUME NEW w \in Senders, \A v \in Senders \ { w } : outreach'[v] = outreach[v],
         NEW c, NEW n, NEW k
  PROVE  /\ Cardinality(Owing(c, n)')
              = Cardinality(Owing(c, n)) + (IF w \in Owing(c, n)' THEN 1 ELSE 0)
                                         - (IF w \in Owing(c, n) THEN 1 ELSE 0)
         /\ Cardinality(Ahead(c, n)')
              = Cardinality(Ahead(c, n)) + (IF w \in Ahead(c, n)' THEN 1 ELSE 0)
                                         - (IF w \in Ahead(c, n) THEN 1 ELSE 0)
         /\ Cardinality(UnderWay(k)')
              = Cardinality(UnderWay(k)) + (IF w \in UnderWay(k)' THEN 1 ELSE 0)
                                         - (IF w \in UnderWay(k) THEN 1 ELSE 0)
  <1>1. /\ IsFiniteSet(Owing(c, n)) /\ IsFiniteSet(Ahead(c, n)) /\ IsFiniteSet(UnderWay(k))
    BY WorkersFit
  <1>2. Owing(c, n) \ { w } = Owing(c, n)' \ { w }
    BY DEF Owing
  <1>3. Ahead(c, n) \ { w } = Ahead(c, n)' \ { w }
    BY DEF Ahead
  <1>4. UnderWay(k) \ { w } = UnderWay(k)' \ { w }
    BY DEF UnderWay
  <1>5. Cardinality(Owing(c, n)')
          = Cardinality(Owing(c, n)) + (IF w \in Owing(c, n)' THEN 1 ELSE 0)
                                     - (IF w \in Owing(c, n) THEN 1 ELSE 0)
    BY <1>1, <1>2, OneInOrOut
  <1>6. Cardinality(Ahead(c, n)')
          = Cardinality(Ahead(c, n)) + (IF w \in Ahead(c, n)' THEN 1 ELSE 0)
                                     - (IF w \in Ahead(c, n) THEN 1 ELSE 0)
    BY <1>1, <1>3, OneInOrOut
  <1>7. Cardinality(UnderWay(k)')
          = Cardinality(UnderWay(k)) + (IF w \in UnderWay(k)' THEN 1 ELSE 0)
                                     - (IF w \in UnderWay(k) THEN 1 ELSE 0)
    BY <1>1, <1>4, OneInOrOut
  <1> QED BY <1>5, <1>6, <1>7

\* The bound of a counter is a number.
LEMMA BoundsAreNumbers == \A c \in Counters : Bound(c) \in Nat
  BY LimitsPositive, SendersAssumption, FS_CardinalityType DEF Bound

(* One worker's step within an hour keeps the invariant of a counter if the *)
(* mails it adds are owed or recorded, and were already reckoned with.      *)
LEMMA CounterKept ==
  ASSUME Typed, Typed', hour' = hour, NEW w \in Senders, \A v \in Senders \ { w } : outreach'[v] = outreach[v],
         NEW c \in Counters, NEW n \in Hours, CounterInv(c, n),
         \A m \in Hours : m # n => sent'[c][m] = sent[c][m] /\ lost[c][m] <= lost'[c][m],
         sent'[c][n] - sent[c][n] + (IF w \in Owing(c, n) THEN 1 ELSE 0)
            <= count'[c][n] - count[c][n] + lost'[c][n] - lost[c][n] + (IF w \in Owing(c, n)' THEN 1 ELSE 0),
         \/ sent'[c][n] - sent[c][n] + (IF w \in Ahead(c, n)' THEN 1 ELSE 0)
              <= lost'[c][n] - lost[c][n] + (IF w \in Ahead(c, n) THEN 1 ELSE 0)
         \/ count'[c][n] < Limit(c)
  PROVE  CounterInv(c, n)'
  <1>1. /\ sent[c][n] \in Nat /\ count[c][n] \in Nat /\ lost[c][n] \in Nat
        /\ sent'[c][n] \in Nat /\ count'[c][n] \in Nat /\ lost'[c][n] \in Nat
        /\ \A m \in Hours : sent[c][m] \in Nat /\ lost[c][m] \in Nat /\ lost'[c][m] \in Nat
        /\ Limit(c) \in Nat /\ Cardinality(Senders) \in Nat /\ Bound(c) \in Nat
    BY LimitsPositive, BoundsAreNumbers, SendersAssumption, FS_CardinalityType DEF Typed
  <1>2. /\ Cardinality(Owing(c, n)) \in Nat /\ Cardinality(Ahead(c, n)) \in Nat
        /\ Cardinality(Owing(c, n)')
              = Cardinality(Owing(c, n)) + (IF w \in Owing(c, n)' THEN 1 ELSE 0)
                                         - (IF w \in Owing(c, n) THEN 1 ELSE 0)
        /\ Cardinality(Ahead(c, n)')
              = Cardinality(Ahead(c, n)) + (IF w \in Ahead(c, n)' THEN 1 ELSE 0)
                                         - (IF w \in Ahead(c, n) THEN 1 ELSE 0)
        /\ Cardinality(Owing(c, n)') + Cardinality(Ahead(c, n)') <= Cardinality(Senders)
    BY TaskGoesOn, WorkersFit, WorkersFitLater
  <1>3. /\ sent[c][n] <= count[c][n] + lost[c][n] + Cardinality(Owing(c, n))
        /\ sent[c][n] + Cardinality(Ahead(c, n)) <= Bound(c) + lost[c][n]
        /\ \A m \in Hours : /\ m > n => sent[c][m] = 0
                            /\ m < n => sent[c][m] <= Bound(c) + lost[c][m]
    BY DEF CounterInv
  <1>4. sent'[c][n] <= count'[c][n] + lost'[c][n] + Cardinality(Owing(c, n)')
    BY <1>1, <1>2, <1>3
  <1>5. sent'[c][n] + Cardinality(Ahead(c, n)') <= Bound(c) + lost'[c][n]
    <2>1. CASE count'[c][n] < Limit(c)
      BY <1>1, <1>2, <1>4, <2>1 DEF Bound
    <2>2. CASE sent'[c][n] - sent[c][n] + (IF w \in Ahead(c, n)' THEN 1 ELSE 0)
                 <= lost'[c][n] - lost[c][n] + (IF w \in Ahead(c, n) THEN 1 ELSE 0)
      BY <1>1, <1>2, <1>3, <2>2
    <2> QED BY <2>1, <2>2
  <1>6. ASSUME NEW m \in Hours
        PROVE  /\ m > n => sent'[c][m] = 0
               /\ m < n => sent'[c][m] <= Bound(c) + lost'[c][m]
    <2>1. m \in Nat /\ n \in Nat
      BY BoundsAssumption DEF Hours
    <2>2. CASE m # n
      BY <1>1, <1>3, <2>1, <2>2
    <2> QED BY <2>1, <2>2
  <1> QED BY <1>4, <1>5, <1>6 DEF CounterInv, Bound

-----------------------------------------------------------------------------
\* A worker's next task is set in the map of tasks.
LEMMA TaskIsSet ==
  ASSUME Typed, NEW w \in Senders, NEW t, TaskOK(t), Becomes(w, t)
  PROVE  /\ outreach' \in [Senders -> Task] /\ \A v \in Senders : TaskOK(outreach'[v])
         /\ outreach'[w] = t /\ \A v \in Senders \ { w } : outreach'[v] = outreach[v]
  BY DEF Typed, TaskOK, Becomes

\* A task that returns is in order.
LEMMA ReturnedTaskOK ==
  ASSUME Typed, NEW w \in Senders
  PROVE  TaskOK(Over(outreach[w])) /\ Over(outreach[w]).stage = "idle"
  <1>1. outreach[w] \in Task /\ 1 \in 1 .. 5 /\ 0 \in Hours
    BY BoundsAssumption DEF Typed, Hours
  <1>2. Over(outreach[w]) \in Task
    BY <1>1 DEF Over, AtStage, Task, TaskStages
  <1> QED BY <1>2 DEF TaskOK, Over, AtStage

\* A worker that is idle, or validates, owes nothing and is not ahead.
LEMMA QuietTask ==
  ASSUME NEW w \in Senders, NEW c, NEW n
  PROVE  /\ outreach[w].stage \in { "idle", "validate" } => w \notin Owing(c, n) /\ w \notin Ahead(c, n)
         /\ outreach'[w].stage \in { "idle", "validate" } => w \notin Owing(c, n)' /\ w \notin Ahead(c, n)'
  BY DEF Owing, Ahead, IsOwing, IsAhead

\* Counting is typed, adds one in the window of each counter concerned, and nothing else.
LEMMA CountedFacts ==
  ASSUME NEW f \in [Counters -> [Hours -> Nat]], NEW t \in Task, NEW h \in Hours
  PROVE  /\ Counted(f, t, h) \in [Counters -> [Hours -> Nat]]
         /\ \A c \in Counters, n \in Hours :
                Counted(f, t, h)[c][n]
                    = f[c][n] + (IF c \in Concerned(t) /\ n = Window(c, h) THEN 1 ELSE 0)
  BY DEF Counted

\* The types hold at the start.
LEMMA TypedInit == OutboundInit => Typed
  <1> SUFFICES ASSUME OutboundInit PROVE Typed
    OBVIOUS
  <1>1. 0 \in Hours /\ 0 \in 0 .. MaxLost /\ 0 \in 0 .. MaxBounces
    BY BoundsAssumption DEF Hours
  <1>2. Zero \in [Counters -> [Hours -> Nat]]
    BY DEF Zero
  <1>3. outreach \in [Senders -> Task] /\ \A w \in Senders : TaskOK(outreach[w])
    BY DEF OutboundInit, TaskOK
  <1> QED BY <1>1, <1>2, <1>3 DEF OutboundInit, Typed

\* No step of a sender leaves the types.
LEMMA TypedInductive == Typed /\ [OutboundNext]_outboundVars => Typed'
  <1> SUFFICES ASSUME Typed, [OutboundNext]_outboundVars PROVE Typed'
    OBVIOUS
  <1>0. /\ hour \in Hours /\ ends \in 0 .. MaxLost /\ MaxLost \in Nat
        /\ count \in [Counters -> [Hours -> Nat]] /\ sent \in [Counters -> [Hours -> Nat]]
        /\ lost \in [Counters -> [Hours -> Nat]] /\ outreach \in [Senders -> Task]
    BY BoundsAssumption DEF Typed
  <1>1. ASSUME NEW w \in Senders, NEW d \in Domains, NEW k \in Campaigns \cup {NoCampaign}, CheckPaused(w, d, k)
        PROVE  Typed'
    <2> DEFINE t == [stage |-> "validate", domain |-> d, campaign |-> k, hour |-> hour, next |-> 1]
    <2>1. t \in Task /\ t.stage = "validate" /\ t.next = 1
      BY <1>0 DEF Task, TaskStages
    <2>2. Becomes(w, t)
      BY <1>1 DEF CheckPaused
    <2> HIDE DEF t
    <2>3. TaskOK(t)
      BY <2>1 DEF TaskOK
    <2> QED BY <1>1, <2>2, <2>3, TaskIsSet DEF CheckPaused, Typed
  <1>2. ASSUME NEW w \in Senders, StartThrottle(w) PROVE Typed'
    <2> DEFINE t == AtStage(outreach[w], "throttle", hour, 1)
    <2>1. /\ t \in Task /\ t.stage = "throttle" /\ t.next = 1
      BY <1>0 DEF AtStage, Task, TaskStages
    <2>2. Becomes(w, t)
      BY <1>2 DEF StartThrottle
    <2> HIDE DEF t
    <2>3. 1 \in 1 .. Len(Checks(t.domain, t.campaign))
      <3> DEFINE n == Len(Checks(t.domain, t.campaign))
      <3>1. n = 3 \/ n = 4
        BY <2>1, ChecksCoverConcerned
      <3> HIDE DEF n
      <3>2. 1 \in 1 .. n
        BY <3>1
      <3> QED BY <3>2 DEF n
    <2>4. TaskOK(t)
      BY <2>1, <2>3 DEF TaskOK
    <2> QED BY <1>2, <2>2, <2>4, TaskIsSet DEF StartThrottle, Typed
  <1>3. ASSUME NEW w \in Senders, ReadCounter(w) PROVE Typed'
    <2>1. CASE Returns(w)
      BY <1>3, <2>1, ReturnedTaskOK, TaskIsSet DEF ReadCounter, Returns, Typed
    <2>2. CASE ~Returns(w)
      <3> DEFINE old == outreach[w]
                 n == Len(Checks(old.domain, old.campaign))
                 stage == IF old.next = n THEN "compose" ELSE "throttle"
                 t == AtStage(old, stage, old.hour, old.next + 1)
      <3>1. Becomes(w, t) /\ old.stage = "throttle"
        BY <1>3, <2>2 DEF ReadCounter
      <3>2. old \in Task /\ old.next \in 1 .. n /\ (n = 3 \/ n = 4)
        BY <1>0, <3>1, ChecksCoverConcerned DEF Typed, TaskOK
      <3>3. n = Len(Checks(t.domain, t.campaign)) /\ t.stage = stage /\ t.next = old.next + 1
        BY DEF AtStage
      <3>4. t \in Task
        <4> HIDE DEF n
        <4>1. old.next + 1 \in 1 .. 5
          BY <3>2
        <4> QED BY <3>2, <4>1 DEF AtStage, Task, TaskStages
      <3>5. t.next # n + 1 => t.next \in 1 .. n
        <4> HIDE DEF n, t
        <4> QED BY <3>2, <3>3
      <3> HIDE DEF t, n
      <3>6. TaskOK(t)
        BY <3>2, <3>3, <3>4, <3>5 DEF TaskOK
      <3> QED BY <1>3, <3>1, <3>6, TaskIsSet DEF ReadCounter, Typed
    <2> QED BY <2>1, <2>2
  <1>4. ASSUME NEW w \in Senders, GiveUp(w) PROVE Typed'
    BY <1>4, ReturnedTaskOK, TaskIsSet DEF GiveUp, Returns, Typed
  <1>5. ASSUME NEW w \in Senders, SendFirstTouch(w) PROVE Typed'
    <2> DEFINE t == AtStage(outreach[w], "record", hour, outreach[w].next)
    <2>1. t \in Task /\ t.stage = "record"
      BY <1>0 DEF AtStage, Task, TaskStages
    <2>2. /\ Becomes(w, t) /\ sent' = Counted(sent, outreach[w], hour)
          /\ afterPause' \in [Campaigns -> Nat]
      BY <1>5 DEF SendFirstTouch, Typed
    <2> HIDE DEF t
    <2>3. TaskOK(t)
      BY <2>1 DEF TaskOK
    <2>4. sent' \in [Counters -> [Hours -> Nat]]
      BY <1>0, <2>2, CountedFacts
    <2> QED BY <1>5, <2>2, <2>3, <2>4, TaskIsSet DEF SendFirstTouch, Typed
  <1>6. ASSUME NEW w \in Senders, RecordSend(w) PROVE Typed'
    <2>1. count' \in [Counters -> [Hours -> Nat]]
      BY <1>0, <1>6, CountedFacts DEF RecordSend
    <2> QED BY <1>6, <2>1, ReturnedTaskOK, TaskIsSet DEF RecordSend, Returns, Typed
  <1>7. ASSUME NEW w \in Senders, Fault(w) PROVE Typed'
    <2>1. outreach[w].hour \in Hours
      BY <1>0 DEF Task
    <2>2. lost' \in [Counters -> [Hours -> Nat]] /\ ends' \in 0 .. MaxLost
      BY <1>0, <1>7, <2>1, CountedFacts DEF Fault
    <2> QED BY <1>7, <2>2, ReturnedTaskOK, TaskIsSet DEF Fault, Returns, Typed
  <1>8. ASSUME NEW k \in Campaigns, PauseCampaign(k) PROVE Typed'
    BY <1>8 DEF PauseCampaign, Typed
  <1>9. ASSUME NEW k \in Campaigns, UnpauseCampaign(k) PROVE Typed'
    BY <1>9 DEF UnpauseCampaign, Typed
  <1>10. ASSUME NEW k \in Campaigns, RecordBounce(k) PROVE Typed'
    <2>1. /\ total[k] \in [sent : { 0 }, bounced : 0 .. MaxBounces] /\ MaxBounces \in Nat
          /\ total[k].bounced < MaxBounces
      BY <1>10, BoundsAssumption DEF RecordBounce, Typed
    <2>2. [total[k] EXCEPT !.bounced = @ + 1] \in [sent : { 0 }, bounced : 0 .. MaxBounces]
      BY <2>1
    <2>3. total' = [total EXCEPT ![k] = [total[k] EXCEPT !.bounced = @ + 1]]
      BY <1>10 DEF RecordBounce
    <2>4. total' \in [Campaigns -> [sent : { 0 }, bounced : 0 .. MaxBounces]]
      BY <2>2, <2>3 DEF Typed
    <2> QED BY <1>10, <2>4 DEF RecordBounce, Typed
  <1>11. ASSUME AutoPause PROVE Typed'
    <2>1. \A k \in Campaigns : total[k].sent = 0
      BY DEF Typed
    <2>2. paused' = [k \in Campaigns |-> paused[k]] /\ afterPause' = [k \in Campaigns |-> afterPause[k]]
      BY <1>11, <2>1 DEF AutoPause
    <2> QED BY <1>11, <2>2 DEF AutoPause, Typed
  <1>12. ASSUME NextHour PROVE Typed'
    <2>1. hour' \in Hours
      BY <1>12, BoundsAssumption DEF NextHour, Hours, Typed
    <2> QED BY <1>12, <2>1 DEF NextHour, Typed
  <1>13. CASE UNCHANGED outboundVars
    BY <1>13 DEF outboundVars, Typed
  <1> QED BY <1>1, <1>2, <1>3, <1>4, <1>5, <1>6, <1>7, <1>8, <1>9, <1>10, <1>11, <1>12, <1>13 DEF OutboundNext

-----------------------------------------------------------------------------
\* Nothing has been counted at the start.
LEMMA CountersInvInit == OutboundInit => CountersInv
  <1> SUFFICES ASSUME OutboundInit, NEW c \in Counters, NEW n \in Hours, n = Window(c, hour)
               PROVE  CounterInv(c, n)
    BY DEF CountersInv
  <1>1. Typed
    BY TypedInit
  <1>2. /\ \A m \in Hours : sent[c][m] = 0 /\ lost[c][m] = 0
        /\ count[c][n] = 0
    BY <1>1 DEF OutboundInit, Zero
  <1>3. /\ Cardinality(Owing(c, n)) \in Nat /\ Cardinality(Ahead(c, n)) \in Nat
        /\ Cardinality(Ahead(c, n)) <= Cardinality(Senders) /\ Cardinality(Senders) \in Nat
        /\ Limit(c) \in Nat \ {0}
    BY WorkersFit, LimitsPositive
  <1> QED BY <1>1, <1>2, <1>3 DEF CounterInv, Bound

\* The hour ends: a counter stays in its window, or begins a new one with no
\* mail sent and all workers ahead at most.
LEMMA HourEnds ==
  ASSUME Typed, CountersInv, NextHour
  PROVE  CountersInv'
  <1> SUFFICES ASSUME NEW c \in Counters, NEW later \in Hours, later = Window(c, hour)'
               PROVE  CounterInv(c, later)'
    BY DEF CountersInv
  <1>0. PICK n \in Hours : n = Window(c, hour)
    BY WindowsGoUp DEF Typed
  <1>1. /\ hour' = hour + 1 /\ UNCHANGED << count, outreach, sent, lost >>
        /\ hour \in Hours /\ hour + 1 \in Hours
    BY BoundsAssumption DEF NextHour, Typed, Hours
  <1>2. n \in Hours /\ later \in Hours /\ n <= later
    <2>1. later = Window(c, hour + 1)
      BY <1>1 DEF Window
    <2> QED BY <1>0, <1>1, <2>1, WindowsGoUp
  <1>4. CounterInv(c, n)
    BY <1>0 DEF CountersInv
  <1>5. /\ sent[c][n] \in Nat /\ lost[c][n] \in Nat
        /\ \A m \in Hours : sent[c][m] \in Nat /\ lost[c][m] \in Nat /\ count[c][m] \in Nat
        /\ Limit(c) \in Nat \ {0} /\ Cardinality(Senders) \in Nat /\ Bound(c) \in Nat
        /\ Bound(c) = Limit(c) - 1 + Cardinality(Senders)
    BY <1>2, LimitsPositive, BoundsAreNumbers, SendersAssumption, FS_CardinalityType DEF Typed, Bound
  <1>6. /\ Cardinality(Owing(c, n)) \in Nat /\ Cardinality(Ahead(c, n)) \in Nat
        /\ Cardinality(Owing(c, later)) \in Nat /\ Cardinality(Ahead(c, later)) \in Nat
        /\ Cardinality(Owing(c, n)) + Cardinality(Ahead(c, n)) <= Cardinality(Senders)
        /\ Cardinality(Owing(c, later)) + Cardinality(Ahead(c, later)) <= Cardinality(Senders)
    BY WorkersFit
  <1>7. /\ sent[c][n] <= count[c][n] + lost[c][n] + Cardinality(Owing(c, n))
        /\ sent[c][n] + Cardinality(Ahead(c, n)) <= Bound(c) + lost[c][n]
        /\ \A m \in Hours : /\ m > n => sent[c][m] = 0
                            /\ m < n => sent[c][m] <= Bound(c) + lost[c][m]
    BY <1>4 DEF CounterInv
  <1>8. Hours \subseteq Nat
    BY BoundsAssumption DEF Hours
  <1>9. CounterInv(c, later)
    <2>1. CASE later = n
      BY <1>4, <2>1
    <2>2. CASE later # n
      <3>1. later > n
        BY <1>2, <1>8, <2>2
      <3>2. sent[c][later] = 0
        BY <1>2, <1>7, <3>1
      <3>3. ASSUME NEW m \in Hours
            PROVE  /\ m > later => sent[c][m] = 0
                   /\ m < later => sent[c][m] <= Bound(c) + lost[c][m]
        <4>1. m > later => m > n
          BY <1>2, <1>8
        <4>2. CASE m < n
          BY <1>2, <1>7, <1>8, <4>1, <4>2
        <4>3. CASE m = n
          <5>1. sent[c][n] <= Bound(c) + lost[c][n]
            BY <1>5, <1>6, <1>7
          <5> QED BY <1>2, <1>8, <3>1, <4>3, <5>1
        <4>4. CASE m > n
          BY <1>2, <1>5, <1>7, <1>8, <4>1, <4>4
        <4> QED BY <1>2, <1>8, <4>2, <4>3, <4>4
      <3>4. /\ sent[c][later] <= count[c][later] + lost[c][later] + Cardinality(Owing(c, later))
            /\ sent[c][later] + Cardinality(Ahead(c, later)) <= Bound(c) + lost[c][later]
        BY <1>2, <1>5, <1>6, <3>2
      <3> QED BY <3>3, <3>4 DEF CounterInv
    <2> QED BY <2>1, <2>2
  <1>10. Owing(c, later)' = Owing(c, later) /\ Ahead(c, later)' = Ahead(c, later)
    BY <1>1 DEF Owing, Ahead
  <1> QED BY <1>1, <1>9, <1>10 DEF CounterInv, Bound

\* Steps that send, record and lose nothing keep the invariant if the worker
\* is not ahead afterwards where it was not before, or read a low counter.
LEMMA QuietStep ==
  ASSUME Typed, Typed', CountersInv, UNCHANGED << hour, count, sent, lost >>, NEW w \in Senders,
         \A v \in Senders \ { w } : outreach'[v] = outreach[v],
         \A c \in Counters, n \in Hours : n = Window(c, hour) =>
                /\ w \in Owing(c, n) => w \in Owing(c, n)'
                /\ w \in Ahead(c, n)' => w \in Ahead(c, n) \/ count[c][n] < Limit(c)
  PROVE  CountersInv'
  <1> SUFFICES ASSUME NEW c \in Counters, NEW n \in Hours, n = Window(c, hour)'
               PROVE  CounterInv(c, n)'
    BY DEF CountersInv
  <1>0. n = Window(c, hour)
    BY DEF Window
  <1>1. CounterInv(c, n)
    BY <1>0 DEF CountersInv
  <1>2. /\ w \in Owing(c, n) => w \in Owing(c, n)'
        /\ w \in Ahead(c, n)' => w \in Ahead(c, n) \/ count[c][n] < Limit(c)
    BY <1>0
  <1>4. sent[c][n] \in Nat /\ count[c][n] \in Nat /\ lost[c][n] \in Nat
        /\ \A m \in Hours : lost[c][m] \in Nat
    BY <1>1 DEF Typed
  <1> QED BY <1>1, <1>2, <1>4, CounterKept

\* Steps after which the worker is idle and that send nothing: what was owed
\* is recorded or lost.
LEMMA ReturningStep ==
  ASSUME Typed, Typed', CountersInv, UNCHANGED << hour, sent >>, NEW w \in Senders,
         \A v \in Senders \ { w } : outreach'[v] = outreach[v], outreach'[w].stage = "idle",
         \A c \in Counters, m \in Hours : lost[c][m] <= lost'[c][m] /\ count[c][m] <= count'[c][m],
         \A c \in Counters, n \in Hours : n = Window(c, hour) /\
                w \in Owing(c, n) => count[c][n] + lost[c][n] + 1 <= count'[c][n] + lost'[c][n]
  PROVE  CountersInv'
  <1> SUFFICES ASSUME NEW c \in Counters, NEW n \in Hours, n = Window(c, hour)'
               PROVE  CounterInv(c, n)'
    BY DEF CountersInv
  <1>0. n = Window(c, hour)
    BY DEF Window
  <1>1. CounterInv(c, n)
    BY <1>0 DEF CountersInv
  <1>2. /\ w \notin Owing(c, n)' /\ w \notin Ahead(c, n)'
        /\ w \in Owing(c, n) => count[c][n] + lost[c][n] + 1 <= count'[c][n] + lost'[c][n]
    BY <1>0, QuietTask
  <1>4. /\ sent[c][n] \in Nat /\ count[c][n] \in Nat /\ lost[c][n] \in Nat
        /\ count'[c][n] \in Nat /\ lost'[c][n] \in Nat
        /\ lost[c][n] <= lost'[c][n] /\ count[c][n] <= count'[c][n]
    BY <1>1 DEF Typed
  <1> QED BY <1>1, <1>2, <1>4, CounterKept

\* A mail: owed from now on, by a worker that was ahead of each counter it concerns.
LEMMA SendingStep ==
  ASSUME Typed, Typed', CountersInv, NEW w \in Senders, SendFirstTouch(w)
  PROVE  CountersInv'
  <1> SUFFICES ASSUME NEW c \in Counters, NEW n \in Hours, n = Window(c, hour)'
               PROVE  CounterInv(c, n)'
    BY DEF CountersInv
  <1> DEFINE t == outreach[w]
             new == AtStage(t, "record", hour, t.next)
  <1>1. /\ UNCHANGED << hour, count, lost >> /\ sent' = Counted(sent, t, hour)
        /\ t.stage = "compose" /\ Becomes(w, new) /\ t \in Task /\ TaskOK(t) /\ hour \in Hours
    BY DEF SendFirstTouch, Typed
  <1>2. n = Window(c, hour) /\ CounterInv(c, n)
    BY <1>1 DEF CountersInv, Window
  <1>3. outreach'[w] = new /\ \A v \in Senders \ { w } : outreach'[v] = outreach[v]
    BY <1>1 DEF Becomes, Typed
  <1>4. new.stage = "record" /\ new.hour = hour /\ Concerned(new) = Concerned(t)
    BY DEF AtStage, Concerned
  <1>5. \A m \in Hours : sent'[c][m] = sent[c][m] + (IF c \in Concerned(t) /\ m = n THEN 1 ELSE 0)
    <2>1. sent \in [Counters -> [Hours -> Nat]]
      BY DEF Typed
    <2> HIDE DEF t
    <2>2. \A m \in Hours :
            Counted(sent, t, hour)[c][m] = sent[c][m] + (IF c \in Concerned(t) /\ m = Window(c, hour) THEN 1 ELSE 0)
      BY <1>1, <2>1, CountedFacts
    <2> QED BY <1>1, <1>2, <2>2
  <1>6. w \notin Owing(c, n) /\ w \notin Ahead(c, n)'
    BY <1>1, <1>3, <1>4 DEF Owing, Ahead, IsOwing, IsAhead
  <1>7. w \in Owing(c, n)' <=> c \in Concerned(t)
    BY <1>2, <1>3, <1>4 DEF Owing, IsOwing
  <1>8. c \in Concerned(t) => w \in Ahead(c, n)
    <2> DEFINE checks == Checks(t.domain, t.campaign)
    <2>1. t.next = Len(checks) + 1 /\ (Len(checks) = 3 \/ Len(checks) = 4)
          /\ (c \in Concerned(t) => \E i \in 1 .. Len(checks) : checks[i] = c)
      BY <1>1, ChecksCoverConcerned DEF TaskOK
    <2>2. 1 .. (t.next - 1) = 1 .. Len(checks)
      BY <2>1
    <2> QED BY <1>1, <2>1, <2>2 DEF Ahead, IsAhead
  <1>9. /\ sent[c][n] \in Nat /\ count[c][n] \in Nat /\ lost[c][n] \in Nat
        /\ \A m \in Hours : sent[c][m] \in Nat /\ lost[c][m] \in Nat
    BY DEF Typed
  <1> HIDE DEF t, new
  <1>10. \A m \in Hours : m # n => sent'[c][m] = sent[c][m] /\ lost[c][m] <= lost'[c][m]
    BY <1>1, <1>5, <1>9
  <1>11. CASE c \in Concerned(t)
    <2>1. sent'[c][n] = sent[c][n] + 1 /\ count'[c][n] = count[c][n] /\ lost'[c][n] = lost[c][n]
      BY <1>1, <1>5, <1>11
    <2> QED BY <1>1, <1>2, <1>3, <1>6, <1>7, <1>8, <1>9, <1>10, <1>11, <2>1, CounterKept
  <1>12. CASE c \notin Concerned(t)
    <2>1. sent'[c][n] = sent[c][n] /\ count'[c][n] = count[c][n] /\ lost'[c][n] = lost[c][n]
      BY <1>1, <1>5, <1>9, <1>12
    <2> QED BY <1>1, <1>2, <1>3, <1>6, <1>7, <1>9, <1>10, <1>12, <2>1, CounterKept
  <1> QED BY <1>11, <1>12

\* Inductive step of the counters: one step for each action of a worker.
LEMMA CountersInvInductive == Typed /\ CountersInv /\ [OutboundNext]_outboundVars => CountersInv'
  <1> SUFFICES ASSUME Typed, CountersInv, [OutboundNext]_outboundVars PROVE CountersInv'
    OBVIOUS
  <1>0. Typed'
    BY TypedInductive
  <1>1. ASSUME NEW w \in Senders, NEW d \in Domains, NEW k \in Campaigns \cup {NoCampaign}, CheckPaused(w, d, k)
        PROVE  CountersInv'
    <2>1. /\ UNCHANGED << hour, count, sent, lost >> /\ outreach'[w].stage = "validate"
          /\ outreach[w].stage = "idle" /\ \A v \in Senders \ { w } : outreach'[v] = outreach[v]
      BY <1>1 DEF CheckPaused, Becomes, Typed
    <2> QED BY <1>0, <2>1, QuietTask, QuietStep
  <1>2. ASSUME NEW w \in Senders, StartThrottle(w) PROVE CountersInv'
    <2> DEFINE t == AtStage(outreach[w], "throttle", hour, 1)
    <2>1. /\ UNCHANGED << hour, count, sent, lost >> /\ outreach[w].stage = "validate"
          /\ outreach'[w] = t /\ \A v \in Senders \ { w } : outreach'[v] = outreach[v]
      BY <1>2 DEF StartThrottle, Becomes, Typed
    <2>2. t.hour = hour /\ t.next = 1
      BY DEF AtStage
    <2> HIDE DEF t
    <2>3. ASSUME NEW c \in Counters, NEW n \in Hours, n = Window(c, hour)
          PROVE  w \notin Owing(c, n) /\ w \notin Ahead(c, n)'
      BY <2>1, <2>2, <2>3 DEF Owing, Ahead, IsOwing, IsAhead
    <2> QED BY <1>0, <2>1, <2>3, QuietStep
  <1>3. ASSUME NEW w \in Senders, ReadCounter(w) PROVE CountersInv'
    <2> DEFINE old == outreach[w]
               checks == Checks(old.domain, old.campaign)
               read == checks[old.next]
               t == AtStage(old, IF old.next = Len(checks) THEN "compose" ELSE "throttle",
                            old.hour, old.next + 1)
    <2>1. UNCHANGED << hour, count, sent, lost >> /\ old.stage = "throttle"
      BY <1>3 DEF ReadCounter
    <2>2. CASE Returns(w)
      <3>1. /\ outreach'[w].stage = "idle" /\ \A v \in Senders \ { w } : outreach'[v] = outreach[v]
        BY <2>2 DEF Returns, Over, Becomes, AtStage, Typed
      <3>2. ASSUME NEW c \in Counters, NEW n \in Hours
            PROVE  w \notin Owing(c, n) /\ w \notin Ahead(c, n)'
        BY <2>1, <3>1 DEF Owing, Ahead, IsOwing, IsAhead
      <3> QED BY <1>0, <2>1, <3>1, <3>2, QuietStep
    <2>3. CASE count[read][Window(read, old.hour)] < Limit(read) /\ Becomes(w, t)
      <3>1. /\ outreach'[w] = t /\ \A v \in Senders \ { w } : outreach'[v] = outreach[v]
            /\ old \in Task /\ old.next \in Nat
        BY <2>3 DEF Becomes, Typed, Task
      <3>2. /\ t.hour = old.hour /\ t.next = old.next + 1
            /\ Checks(t.domain, t.campaign) = checks
        BY DEF AtStage
      <3> HIDE DEF t
      <3>3. ASSUME NEW c \in Counters, NEW n \in Hours, n = Window(c, hour)
            PROVE  /\ w \notin Owing(c, n)
                   /\ w \in Ahead(c, n)' => w \in Ahead(c, n) \/ count[c][n] < Limit(c)
        <4>1. w \notin Owing(c, n)
          BY <2>1 DEF Owing, IsOwing
        <4>2. w \in Ahead(c, n) <=> Window(c, old.hour) # n \/ \E i \in 1 .. (old.next - 1) : checks[i] = c
          BY <2>1 DEF Ahead, IsAhead
        <4>3. w \in Ahead(c, n)' => Window(c, old.hour) # n \/ \E i \in 1 .. old.next : checks[i] = c
          <5>1. old.next + 1 - 1 = old.next
            BY <3>1
          <5> QED BY <3>1, <3>2, <5>1 DEF Ahead, IsAhead
        <4>4. ASSUME NEW i \in 1 .. old.next, checks[i] = c PROVE i \in 1 .. (old.next - 1) \/ read = c
          BY <3>1, <4>4
        <4>5. read = c /\ Window(c, old.hour) = n => count[c][n] < Limit(c)
          BY <2>3
        <4> HIDE DEF checks, read, old
        <4> QED BY <4>1, <4>2, <4>3, <4>4, <4>5
      <3> QED BY <1>0, <2>1, <3>1, <3>3, QuietStep
    <2> QED BY <1>3, <2>2, <2>3 DEF ReadCounter
  <1>4. ASSUME NEW w \in Senders, GiveUp(w) PROVE CountersInv'
    <2>1. /\ UNCHANGED << hour, count, sent, lost >> /\ outreach'[w].stage = "idle"
          /\ outreach[w].stage # "record" /\ \A v \in Senders \ { w } : outreach'[v] = outreach[v]
      BY <1>4 DEF GiveUp, Returns, Over, Becomes, AtStage, Typed
    <2>2. ASSUME NEW c \in Counters, NEW n \in Hours PROVE w \notin Owing(c, n) /\ w \notin Ahead(c, n)'
      BY <2>1 DEF Owing, Ahead, IsOwing, IsAhead
    <2> QED BY <1>0, <2>1, <2>2, QuietStep
  <1>5. ASSUME NEW w \in Senders, SendFirstTouch(w) PROVE CountersInv'
    BY <1>0, <1>5, SendingStep
  <1>6. ASSUME NEW w \in Senders, RecordSend(w) PROVE CountersInv'
    <2>1. /\ UNCHANGED << hour, sent, lost >> /\ outreach'[w].stage = "idle"
          /\ count' = Counted(count, outreach[w], hour) /\ outreach[w] \in Task /\ hour \in Hours
          /\ \A v \in Senders \ { w } : outreach'[v] = outreach[v]
      BY <1>6 DEF RecordSend, Returns, Over, Becomes, AtStage, Typed
    <2>2. \A c \in Counters, m \in Hours :
            /\ lost[c][m] \in Nat /\ count[c][m] \in Nat
            /\ count'[c][m] = count[c][m] + (IF c \in Concerned(outreach[w]) /\ m = Window(c, hour) THEN 1 ELSE 0)
      <3>1. count \in [Counters -> [Hours -> Nat]] /\ lost \in [Counters -> [Hours -> Nat]]
        BY DEF Typed
      <3>2. \A c \in Counters, m \in Hours :
              Counted(count, outreach[w], hour)[c][m]
                = count[c][m] + (IF c \in Concerned(outreach[w]) /\ m = Window(c, hour) THEN 1 ELSE 0)
        BY <2>1, <3>1, CountedFacts
      <3> QED BY <2>1, <3>1, <3>2
    <2>3. ASSUME NEW c \in Counters, NEW n \in Hours, n = Window(c, hour), w \in Owing(c, n)
          PROVE  count[c][n] + lost[c][n] + 1 <= count'[c][n] + lost'[c][n]
      <3>1. c \in Concerned(outreach[w])
        BY <2>3 DEF Owing, IsOwing
      <3> QED BY <2>1, <2>2, <2>3, <3>1
    <2>4. \A c \in Counters, m \in Hours : lost[c][m] <= lost'[c][m] /\ count[c][m] <= count'[c][m]
      BY <2>1, <2>2
    <2> QED BY <1>0, <2>1, <2>3, <2>4, ReturningStep
  <1>7. ASSUME NEW w \in Senders, Fault(w) PROVE CountersInv'
    <2> DEFINE t == outreach[w]
    <2>1. /\ UNCHANGED << hour, sent, count >> /\ outreach'[w].stage = "idle" /\ t \in Task
          /\ t.hour \in Hours /\ lost' = IF t.stage = "record" THEN Counted(lost, t, t.hour) ELSE lost
          /\ \A v \in Senders \ { w } : outreach'[v] = outreach[v]
      BY <1>7 DEF Fault, Returns, Over, Becomes, AtStage, Typed, Task
    <2>2. \A c \in Counters, m \in Hours :
            /\ lost[c][m] \in Nat /\ count[c][m] \in Nat
            /\ t.stage = "record" =>
                 lost'[c][m] = lost[c][m] + (IF c \in Concerned(t) /\ m = Window(c, t.hour) THEN 1 ELSE 0)
      BY <2>1, CountedFacts DEF Typed
    <2>3. ASSUME NEW c \in Counters, NEW n \in Hours, n = Window(c, hour), w \in Owing(c, n)
          PROVE  count[c][n] + lost[c][n] + 1 <= count'[c][n] + lost'[c][n]
      <3>1. c \in Concerned(t) /\ t.stage = "record" /\ n = Window(c, t.hour)
        BY <2>3 DEF Owing, IsOwing
      <3> QED BY <2>1, <2>2, <3>1
    <2>4. \A c \in Counters, m \in Hours : lost[c][m] <= lost'[c][m] /\ count[c][m] <= count'[c][m]
      BY <2>1, <2>2
    <2> QED BY <1>0, <2>1, <2>3, <2>4, ReturningStep
  <1>8. ASSUME UNCHANGED << hour, count, outreach, sent, lost >> PROVE CountersInv'
    BY <1>8 DEF CountersInv, CounterInv, Owing, Ahead, Bound, Window
  <1>9. ASSUME \/ \E k \in Campaigns : PauseCampaign(k) \/ UnpauseCampaign(k) \/ RecordBounce(k)
               \/ AutoPause \/ UNCHANGED outboundVars
        PROVE  UNCHANGED << hour, count, outreach, sent, lost >>
    BY <1>9 DEF PauseCampaign, UnpauseCampaign, RecordBounce, AutoPause, outboundVars
  <1> QED BY <1>1, <1>2, <1>3, <1>4, <1>5, <1>6, <1>7, <1>8, <1>9, HourEnds DEF OutboundNext

-----------------------------------------------------------------------------
\* A worker's step that pauses nothing keeps the invariant of the pause, if the
\* worker comes under way only in campaigns that are not paused.
LEMMA PauseKept ==
  ASSUME Typed, Typed', PauseInv, paused' = paused, NEW w \in Senders,
         \A v \in Senders \ { w } : outreach'[v] = outreach[v],
         \A k \in Campaigns : paused[k] # "no" =>
            afterPause'[k] + (IF w \in UnderWay(k)' THEN 1 ELSE 0)
                <= afterPause[k] + (IF w \in UnderWay(k) THEN 1 ELSE 0)
  PROVE  PauseInv'
  <1> SUFFICES ASSUME NEW k \in Campaigns, paused[k] # "no"
               PROVE  afterPause'[k] + Cardinality(UnderWay(k)') <= Cardinality(Senders)
    BY DEF PauseInv
  <1>1. Cardinality(UnderWay(k)')
          = Cardinality(UnderWay(k)) + (IF w \in UnderWay(k)' THEN 1 ELSE 0)
                                     - (IF w \in UnderWay(k) THEN 1 ELSE 0)
    BY TaskGoesOn
  <1>2. /\ Cardinality(UnderWay(k)) \in Nat /\ Cardinality(Senders) \in Nat
        /\ afterPause[k] \in Nat /\ afterPause'[k] \in Nat
        /\ afterPause[k] + Cardinality(UnderWay(k)) <= Cardinality(Senders)
    BY WorkersFit DEF PauseInv, Typed
  <1> QED BY <1>1, <1>2

\* No step breaks what is known of a pause.
LEMMA PauseInvInductive == Typed /\ PauseInv /\ [OutboundNext]_outboundVars => PauseInv'
  <1> SUFFICES ASSUME Typed, PauseInv, [OutboundNext]_outboundVars PROVE PauseInv'
    OBVIOUS
  <1>0. Typed' /\ \A k \in Campaigns : afterPause[k] \in Nat
    BY TypedInductive DEF Typed
  <1>1. ASSUME NEW w \in Senders, NEW d \in Domains, NEW j \in Campaigns \cup {NoCampaign}, CheckPaused(w, d, j)
        PROVE  PauseInv'
    <2>1. /\ UNCHANGED << paused, afterPause >> /\ outreach'[w].campaign = j
          /\ j # NoCampaign => paused[j] = "no"
          /\ \A v \in Senders \ { w } : outreach'[v] = outreach[v]
      BY <1>1 DEF CheckPaused, Becomes, Typed
    <2>2. ASSUME NEW k \in Campaigns, paused[k] # "no" PROVE w \notin UnderWay(k)'
      BY <2>1, <2>2, ScopesAssumption DEF UnderWay, IsUnderWay
    <2> QED BY <1>0, <2>1, <2>2, PauseKept
  <1>2. ASSUME NEW w \in Senders, StartThrottle(w) \/ ReadCounter(w) \/ GiveUp(w) \/ RecordSend(w) \/ Fault(w)
        PROVE  PauseInv'
    <2>1. /\ UNCHANGED << paused, afterPause >>
          /\ \A v \in Senders \ { w } : outreach'[v] = outreach[v]
          /\ \/ outreach'[w].stage = "idle"
             \/ /\ outreach'[w].campaign = outreach[w].campaign
                /\ outreach[w].stage \in { "validate", "throttle" }
      BY <1>2 DEF StartThrottle, ReadCounter, GiveUp, RecordSend, Fault, Returns, Over, Becomes, AtStage, Typed
    <2>2. ASSUME NEW k \in Campaigns, w \in UnderWay(k)' PROVE w \in UnderWay(k)
      BY <2>1, <2>2 DEF UnderWay, IsUnderWay
    <2> QED BY <1>0, <2>1, <2>2, PauseKept
  <1>3. ASSUME NEW w \in Senders, SendFirstTouch(w) PROVE PauseInv'
    <2>1. /\ UNCHANGED paused /\ outreach'[w].stage = "record" /\ outreach[w].stage = "compose"
          /\ \A v \in Senders \ { w } : outreach'[v] = outreach[v]
          /\ \A k \in Campaigns :
                afterPause'[k] = IF k = outreach[w].campaign /\ paused[k] # "no"
                                 THEN afterPause[k] + 1 ELSE afterPause[k]
      BY <1>3 DEF SendFirstTouch, Becomes, AtStage, Typed
    <2>2. ASSUME NEW k \in Campaigns
          PROVE  w \notin UnderWay(k)' /\ (w \in UnderWay(k) <=> k = outreach[w].campaign)
      BY <2>1 DEF UnderWay, IsUnderWay
    <2> QED BY <1>0, <2>1, <2>2, PauseKept
  <1>4. ASSUME NEW k \in Campaigns, PauseCampaign(k) PROVE PauseInv'
    <2>1. \A j \in Campaigns : UnderWay(j)' = UnderWay(j)
      BY <1>4 DEF PauseCampaign, UnderWay
    <2>2. \A j \in Campaigns : Cardinality(UnderWay(j)) \in Nat /\ Cardinality(UnderWay(j)) <= Cardinality(Senders)
      BY WorkersFit
    <2> QED BY <1>4, <2>1, <2>2 DEF PauseCampaign, PauseInv, Typed
  <1>5. ASSUME \/ \E k \in Campaigns : UnpauseCampaign(k) \/ RecordBounce(k)
               \/ NextHour \/ UNCHANGED outboundVars
        PROVE  PauseInv'
    BY <1>5 DEF UnpauseCampaign, RecordBounce, NextHour, outboundVars, PauseInv, UnderWay, Typed
  <1>6. ASSUME AutoPause PROVE PauseInv'
    <2>1. \A k \in Campaigns : total[k].sent = 0
      BY DEF Typed
    <2>2. \A k \in Campaigns : paused'[k] = paused[k] /\ afterPause'[k] = afterPause[k]
      BY <1>6, <2>1 DEF AutoPause
    <2>3. \A k \in Campaigns : UnderWay(k)' = UnderWay(k)
      BY <1>6 DEF AutoPause, UnderWay
    <2> QED BY <2>2, <2>3 DEF PauseInv
  <1> QED BY <1>1, <1>2, <1>3, <1>4, <1>5, <1>6 DEF OutboundNext

\* Nothing is paused at the start.
LEMMA PauseInvInit == OutboundInit => PauseInv
  BY DEF OutboundInit, PauseInv

-----------------------------------------------------------------------------
\* The counters, pauses and tasks have their types; a task at the throttle is
\* at one of its checks.
THEOREM OutboundTypeCorrect == OutboundSpec => []OutboundTypeOK
  <1>1. Typed => OutboundTypeOK
    <2> SUFFICES ASSUME Typed PROVE OutboundTypeOK
      OBVIOUS
    <2>1. \A w \in Senders : outreach[w].stage = "throttle" =>
            outreach[w].next \in DOMAIN Checks(outreach[w].domain, outreach[w].campaign)
      BY ChecksCoverConcerned DEF Typed, TaskOK
    <2>2. total \in [Campaigns -> [sent : Nat, bounced : 0 .. MaxBounces]]
      BY DEF Typed
    <2> QED BY <2>1, <2>2 DEF Typed, OutboundTypeOK
  <1> QED BY <1>1, TypedInit, TypedInductive, PTL DEF OutboundSpec

(* check_throttle and record_send reserve nothing between them, and yet in  *)
(* no hour or day a counter's limit is exceeded by more than the other      *)
(* workers and the mails whose worker was lost before record_send.  *)
THEOREM SendsAreBounded == OutboundSpec => []SendsBounded
  <1>1. Typed /\ CountersInv => SendsBounded
    <2> SUFFICES ASSUME Typed, CountersInv, NEW c \in Counters, NEW m \in Hours
                 PROVE  sent[c][m] <= Limit(c) - 1 + Cardinality(Senders) + lost[c][m]
      BY DEF SendsBounded
    <2>1. PICK n \in Hours : n = Window(c, hour)
      BY WindowsGoUp DEF Typed
    <2>2. CounterInv(c, n)
      BY <2>1 DEF CountersInv
    <2>3. /\ sent[c][m] \in Nat /\ lost[c][m] \in Nat /\ Limit(c) \in Nat \ {0}
          /\ Cardinality(Senders) \in Nat /\ Cardinality(Ahead(c, n)) \in Nat
          /\ Bound(c) \in Nat /\ Bound(c) = Limit(c) - 1 + Cardinality(Senders)
          /\ m \in Nat /\ n \in Nat
      <3>1. m \in Nat /\ n \in Nat
        BY BoundsAssumption DEF Hours
      <3>2. sent[c][m] \in Nat /\ lost[c][m] \in Nat
        BY DEF Typed
      <3>3. Limit(c) \in Nat \ {0} /\ Bound(c) \in Nat
        BY LimitsPositive, BoundsAreNumbers
      <3> QED BY <3>1, <3>2, <3>3, WorkersFit DEF Bound
    <2>4. sent[c][m] <= Bound(c) + lost[c][m]
      <3>1. CASE m = n
        BY <2>2, <2>3, <3>1 DEF CounterInv
      <3>2. CASE m > n
        BY <2>2, <2>3, <3>2 DEF CounterInv
      <3>3. CASE m < n
        BY <2>2, <3>3 DEF CounterInv
      <3> QED BY <2>3, <3>1, <3>2, <3>3
    <2> QED BY <2>3, <2>4
  <1> QED BY <1>1, TypedInit, TypedInductive, CountersInvInit, CountersInvInductive, PTL DEF OutboundSpec

(* start_outreach looks at the pause before everything else: after a pause  *)
(* each worker sends at most the one mail it was at. *)
THEOREM PausesStopAllButOneEach == OutboundSpec => []PauseOvershoot
  <1>1. Typed /\ PauseInv => PauseOvershoot
    <2> SUFFICES ASSUME Typed, PauseInv, NEW k \in Campaigns, paused[k] # "no"
                 PROVE  afterPause[k] <= Cardinality(Senders)
      BY DEF PauseOvershoot
    <2>1. /\ afterPause[k] \in Nat /\ Cardinality(UnderWay(k)) \in Nat /\ Cardinality(Senders) \in Nat
          /\ afterPause[k] + Cardinality(UnderWay(k)) <= Cardinality(Senders)
      BY WorkersFit DEF Typed, PauseInv
    <2> QED BY <2>1
  <1> QED BY <1>1, TypedInit, TypedInductive, PauseInvInit, PauseInvInductive, PTL DEF OutboundSpec
=============================================================================
