--------------------------- MODULE Approvals_proof ----------------------------
(***************************************************************************)
(* Proofs about Approvals, for any number of overlapping calls.  A request *)
(* is read, changed and set: what is said of it is said of every copy in   *)
(* flight; how often a decision is overwritten and a runbook executed is   *)
(* counted against the calls in flight.                                    *)
(***************************************************************************)
EXTENDS Approvals, FiniteSetTheorems, TLAPS

RequestDocs == [status : Decided \cup { "none", "pending" }, required : 1 .. 2,
                approvers : Seq(Actors), by : Actors \cup { "nobody" }]
Decisions == [by : Actors, is : { "approve", "reject" }]
GateOps == { "idle", "approve", "reject", "cancel", "set_approved", "set_rejected", "run" }
GateCallDocs == [op : GateOps, who : Actors \cup { "nobody" }, copy : RequestDocs,
                 last : Times \cup { Never }, now : Times]
Deciding == GateOps \ { "idle", "run" }

ApprovalsTyped ==
    /\ rules \subseteq Categories /\ expired \in BOOLEAN
    /\ request \in RequestDocs /\ decisions \in Seq(Decisions)
    /\ gateCall \in [GateCalls -> GateCallDocs]
    /\ \A c \in GateCalls :
        /\ gateCall[c].copy.status \in { "none", "pending" }
        /\ gateCall[c].op \in Deciding =>
                gateCall[c].who \in Actors /\ gateCall[c].copy.status = "pending"
    /\ clock \in Times /\ lastRun \in Times \cup { Never }
    /\ runsAt \in [Times -> Nat] /\ overwritten \in Nat

\* A request, in Redis or in a copy: its approvers are different people who decided so.
RequestOK(r, log) ==
    /\ IsFiniteSet(ToSet(r.approvers)) /\ Cardinality(ToSet(r.approvers)) = Len(r.approvers)
    /\ \A a \in ToSet(r.approvers) : [by |-> a, is |-> "approve"] \in ToSet(log)
    /\ r.status = "approved" => Len(r.approvers) >= r.required

ApproversOK ==
    /\ RequestOK(request, decisions)
    /\ \A c \in GateCalls :
        /\ RequestOK(gateCall[c].copy, decisions)
        /\ gateCall[c].op = "set_approved" =>
                [by |-> gateCall[c].who, is |-> "approve"] \in ToSet(decisions)

-----------------------------------------------------------------------------
\* What one more element does to the set of a sequence.
LEMMA SetOfAppended ==
  ASSUME NEW S, NEW s \in Seq(S), NEW x \in S
  PROVE  ToSet(Append(s, x)) = ToSet(s) \cup { x }
  <1> DEFINE t == Append(s, x)
  <1>1. /\ t \in Seq(S) /\ DOMAIN t = 1 .. Len(s) + 1 /\ DOMAIN s = 1 .. Len(s) /\ Len(s) \in Nat
        /\ t[Len(s) + 1] = x /\ \A i \in 1 .. Len(s) : t[i] = s[i]
    OBVIOUS
  <1>2. \A i \in 1 .. Len(s) + 1 : i \in 1 .. Len(s) \/ i = Len(s) + 1
    BY <1>1
  <1> HIDE DEF t
  <1> QED BY <1>1, <1>2 DEF ToSet, t

\* A sequence with one element in front is one longer, and has all the elements.
LEMMA SetOfPrepended ==
  ASSUME NEW S, NEW s \in Seq(S), NEW x \in S
  PROVE  /\ << x >> \o s \in Seq(S) /\ Len(<< x >> \o s) = Len(s) + 1
         /\ ToSet(s) \subseteq ToSet(<< x >> \o s) /\ x \in ToSet(<< x >> \o s)
  <1> DEFINE t == << x >> \o s
  <1>1. t \in Seq(S) /\ Len(t) = Len(s) + 1 /\ DOMAIN t = 1 .. Len(s) + 1
    OBVIOUS
  <1>2. t[1] = x /\ DOMAIN s = 1 .. Len(s) /\ Len(s) \in Nat
    OBVIOUS
  <1>3. ASSUME NEW i \in 1 .. Len(s) PROVE t[i + 1] = s[i] /\ i + 1 \in 1 .. Len(s) + 1
    BY <1>2
  <1>4. 1 \in 1 .. Len(s) + 1
    BY <1>2
  <1>5. t \in Seq(S) /\ Len(t) = Len(s) + 1 /\ ToSet(s) \subseteq ToSet(t) /\ x \in ToSet(t)
    <2> HIDE DEF t
    <2> QED BY <1>1, <1>2, <1>3, <1>4 DEF ToSet
  <1> QED BY <1>5

\* A call that does nothing, and the request that is not there.
LEMMA CallIdleTyped ==
    /\ CallIdle \in GateCallDocs /\ NoRequest \in RequestDocs
    /\ CallIdle.op = "idle" /\ CallIdle.copy = NoRequest /\ CallIdle.now = 0 /\ CallIdle.last = Never
    /\ NoRequest.status = "none" /\ NoRequest.approvers = << >> /\ NoRequest.required = 1
    /\ \A log : RequestOK(NoRequest, log)
  <1>1. /\ NoRequest \in RequestDocs /\ NoRequest.status = "none" /\ NoRequest.approvers = << >>
        /\ NoRequest.required = 1
    BY DEF NoRequest, RequestDocs
  <1>2. 0 \in Times
    BY ApprovalsAssumption DEF Times
  <1>3. ToSet(<< >>) = {} /\ Len(<< >>) = 0
    BY DEF ToSet
  <1>4. ASSUME NEW log PROVE RequestOK(NoRequest, log)
    BY <1>1, <1>3, FS_EmptySet DEF RequestOK
  <1> HIDE DEF NoRequest
  <1> QED BY <1>1, <1>2, <1>4 DEF CallIdle, GateCallDocs, GateOps

-----------------------------------------------------------------------------
\* What the actions do to the calls, and to the request when they set it.
CallGoes(c, w) == gateCall' = [gateCall EXCEPT ![c] = w] /\ w \in GateCallDocs

\* What each step of a decision does to the calls and the request: a call takes
\* a copy of a pending request,
LEMMA GetRequestDoes ==
  ASSUME ApprovalsTyped, NEW c \in GateCalls, NEW op \in { "approve", "reject", "cancel" }, NEW a \in Actors,
         GetRequest(c, op, a)
  PROVE  /\ \E w : /\ CallGoes(c, w) /\ w.op = op /\ w.who = a /\ w.copy = request /\ w.now = 0
         /\ gateCall[c] = CallIdle /\ request.status = "pending"
         /\ UNCHANGED << rules, request, expired, decisions, overwritten, runbookVars >>
  <1> DEFINE w == [CallIdle EXCEPT !.op = op, !.who = a, !.copy = request]
  <1>1. /\ w \in GateCallDocs /\ w.op = op /\ w.who = a /\ w.copy = request /\ w.now = CallIdle.now
    BY CallIdleTyped DEF GateCallDocs, GateOps, ApprovalsTyped
  <1> QED BY <1>1, CallIdleTyped DEF GetRequest, CallGoes

\* its decision is recorded while the request stays,
LEMMA RecordDecisionDoes ==
  ASSUME ApprovalsTyped, NEW c \in GateCalls, RecordDecision(c)
  PROVE  /\ \E w : /\ CallGoes(c, w) /\ w.who = gateCall[c].who /\ w.copy = gateCall[c].copy
                   /\ w.now = gateCall[c].now
                   /\ w.op = IF gateCall[c].op = "reject" THEN "set_rejected" ELSE "set_approved"
         /\ gateCall[c].op \in Deciding
         /\ decisions' = << [by |-> gateCall[c].who, is |-> gateCall[c].op] >> \o decisions
         /\ gateCall[c].op \in { "reject", "approve" }
         /\ UNCHANGED << rules, request, expired, overwritten, runbookVars >>
  <1> DEFINE v == gateCall[c]
             w == [v EXCEPT !.op = IF v.op = "reject" THEN "set_rejected" ELSE "set_approved"]
  <1>1. v \in GateCallDocs /\ v.op \in { "reject", "approve" }
    BY DEF ApprovalsTyped, RecordDecision
  <1>2. /\ w \in GateCallDocs /\ w.op = IF v.op = "reject" THEN "set_rejected" ELSE "set_approved"
        /\ w.who = v.who /\ w.copy = v.copy /\ w.now = v.now
    BY <1>1 DEF GateCallDocs, GateOps
  <1>3. gateCall' = [gateCall EXCEPT ![c] = w]
    BY <1>1 DEF RecordDecision, ApprovalsTyped
  <1>4. v.op \in Deciding
    BY <1>1 DEF Deciding, GateOps
  <1> HIDE DEF w
  <1> QED BY <1>1, <1>2, <1>3, <1>4 DEF RecordDecision, CallGoes

\* The four actions that set the request, from the copy of a call.
SetsRequest(c) == SetExpired(c) \/ SetApproved(c) \/ SetRejected(c) \/ SetCancelled(c)

\* and the request is set from the copy, over whatever has been decided since.
LEMMA SetRequestDoes ==
  ASSUME ApprovalsTyped, NEW c \in GateCalls, SetsRequest(c)
  PROVE  /\ CallGoes(c, CallIdle)
         /\ gateCall[c].op \in Deciding
         /\ request' \in RequestDocs /\ request'.required = gateCall[c].copy.required
         /\ overwritten' = IF request.status \in Decided THEN overwritten + 1 ELSE overwritten
         /\ UNCHANGED << rules, expired, decisions, runbookVars >>
         /\ request'.status \in Decided \cup { "pending" }
         /\ \/ request'.approvers = gateCall[c].copy.approvers /\ request'.status \in Decided \ { "approved" }
            \/ /\ gateCall[c].op = "set_approved"
               /\ request'.approvers = IF gateCall[c].who \in ToSet(gateCall[c].copy.approvers)
                                       THEN gateCall[c].copy.approvers
                                       ELSE Append(gateCall[c].copy.approvers, gateCall[c].who)
               /\ request'.status = IF Len(request'.approvers) >= request'.required
                                    THEN "approved" ELSE "pending"
  <1> DEFINE v == gateCall[c]
             r == v.copy
  <1>1. v \in GateCallDocs /\ r \in RequestDocs
    BY DEF ApprovalsTyped, GateCallDocs
  <1>2. CASE SetExpired(c)
    <2>1. v.op \in Deciding /\ request' = [r EXCEPT !.status = "expired"]
      BY <1>2 DEF SetExpired, SetRequest, Deciding, GateOps
    <2>2. /\ request' \in RequestDocs /\ request'.required = r.required /\ request'.approvers = r.approvers
          /\ request'.status = "expired"
      BY <1>1, <2>1 DEF RequestDocs, Decided
    <2> QED BY <1>2, <2>1, <2>2, CallIdleTyped DEF SetExpired, SetRequest, CallGoes, Decided
  <1>3. CASE SetRejected(c)
    <2>1. v.op \in Deciding /\ request' = [r EXCEPT !.status = "rejected", !.by = v.who]
      BY <1>3 DEF SetRejected, SetRequest, Deciding, GateOps
    <2>2. /\ request' \in RequestDocs /\ request'.required = r.required /\ request'.approvers = r.approvers
          /\ request'.status = "rejected"
      BY <1>1, <2>1 DEF RequestDocs, Decided, GateCallDocs
    <2> QED BY <1>3, <2>1, <2>2, CallIdleTyped DEF SetRejected, SetRequest, CallGoes, Decided
  <1>4. CASE SetCancelled(c)
    <2>1. v.op \in Deciding /\ request' = [r EXCEPT !.status = "cancelled", !.by = v.who]
      BY <1>4 DEF SetCancelled, SetRequest, Deciding, GateOps
    <2>2. /\ request' \in RequestDocs /\ request'.required = r.required /\ request'.approvers = r.approvers
          /\ request'.status = "cancelled"
      BY <1>1, <2>1 DEF RequestDocs, Decided, GateCallDocs
    <2> QED BY <1>4, <2>1, <2>2, CallIdleTyped DEF SetCancelled, SetRequest, CallGoes, Decided
  <1>5. CASE SetApproved(c)
    <2> DEFINE approvers == IF v.who \in ToSet(r.approvers) THEN r.approvers ELSE Append(r.approvers, v.who)
    <2>1. /\ v.op = "set_approved" /\ v.op \in Deciding
          /\ request' = IF Len(approvers) >= r.required
                        THEN [r EXCEPT !.approvers = approvers, !.status = "approved", !.by = v.who]
                        ELSE [r EXCEPT !.approvers = approvers]
      BY <1>5 DEF SetApproved, SetRequest, Deciding, GateOps
    <2>2. v.who \in Actors /\ r.status = "pending"
      BY <2>1 DEF ApprovalsTyped
    <2>3. approvers \in Seq(Actors)
      <3>1. r.approvers \in Seq(Actors)
        BY <1>1 DEF RequestDocs
      <3> QED BY <2>2, <3>1
    <2> HIDE DEF approvers
    <2>4. /\ request' \in RequestDocs /\ request'.required = r.required /\ request'.approvers = approvers
          /\ request'.status = IF Len(approvers) >= r.required THEN "approved" ELSE "pending"
      BY <1>1, <2>1, <2>2, <2>3 DEF RequestDocs, Decided
    <2>5. request'.approvers = IF v.who \in ToSet(r.approvers) THEN r.approvers
                               ELSE Append(r.approvers, v.who)
      BY <2>4 DEF approvers
    <2>6. CallGoes(c, CallIdle) /\ UNCHANGED << rules, expired, decisions, runbookVars >>
          /\ overwritten' = IF request.status \in Decided THEN overwritten + 1 ELSE overwritten
      BY <1>5, CallIdleTyped DEF SetApproved, SetRequest, CallGoes
    <2> QED BY <2>1, <2>4, <2>5, <2>6 DEF Decided
  <1> QED BY <1>2, <1>3, <1>4, <1>5 DEF SetsRequest

\* A new request is pending, without approvers.
LEMMA RequestApprovalDoes ==
  ASSUME NEW k \in Categories, RequestApproval(k)
  PROVE  /\ request = NoRequest /\ request' \in RequestDocs /\ request'.status = "pending"
         /\ request'.approvers = << >>
         /\ UNCHANGED << rules, expired, decisions, gateCall, overwritten, runbookVars >>
  <1>1. Required(rules, k) \in 1 .. 2
    BY DEF Required, DefaultRules
  <1>2. request' = [NoRequest EXCEPT !.status = "pending", !.required = Required(rules, k)]
    BY DEF RequestApproval
  <1>3. /\ request' \in RequestDocs /\ request'.status = "pending" /\ request'.approvers = NoRequest.approvers
    BY <1>1, <1>2, CallIdleTyped DEF RequestDocs
  <1> QED BY <1>3, CallIdleTyped DEF RequestApproval

\* A run of the runbook starts with the time and without a request.
LEMMA StartRunbookDoes ==
  ASSUME ApprovalsTyped, NEW c \in GateCalls, StartRunbook(c)
  PROVE  /\ \E w : CallGoes(c, w) /\ w.op = "run" /\ w.now = clock /\ w.copy = NoRequest
         /\ gateCall[c] = CallIdle
         /\ UNCHANGED << rules, request, expired, decisions, overwritten, runbookVars >>
  <1> DEFINE w == [CallIdle EXCEPT !.op = "run", !.last = lastRun, !.now = clock]
  <1>1. /\ w \in GateCallDocs /\ w.op = "run" /\ w.now = clock /\ w.copy = NoRequest
    BY CallIdleTyped DEF GateCallDocs, GateOps, ApprovalsTyped
  <1> QED BY <1>1 DEF StartRunbook, CallGoes
-----------------------------------------------------------------------------
\* The types hold at the start.
LEMMA ApprovalsTypedInit == ApprovalsInit => ApprovalsTyped
  <1> SUFFICES ASSUME ApprovalsInit PROVE ApprovalsTyped
    OBVIOUS
  <1>1. 0 \in Times
    BY ApprovalsAssumption DEF Times
  <1>2. gateCall \in [GateCalls -> GateCallDocs] /\ \A c \in GateCalls : gateCall[c] = CallIdle
    BY CallIdleTyped DEF ApprovalsInit
  <1>3. CallIdle.op \notin Deciding /\ CallIdle.copy.status = "none"
    BY CallIdleTyped DEF Deciding
  <1>4. /\ rules \subseteq Categories /\ expired \in BOOLEAN /\ request \in RequestDocs
        /\ decisions \in Seq(Decisions) /\ clock \in Times /\ lastRun \in Times \cup { Never }
        /\ overwritten \in Nat
    <2>1. << >> \in Seq(Decisions) /\ {} \subseteq Categories
      OBVIOUS
    <2> QED BY <1>1, <2>1, CallIdleTyped DEF ApprovalsInit
  <1>5. runsAt \in [Times -> Nat]
    BY DEF ApprovalsInit
  <1> QED BY <1>2, <1>3, <1>4, <1>5 DEF ApprovalsTyped

\* No step of a decision or of a run leaves the types, and every copy taken of
\* the request stays well formed.
LEMMA ApprovalsTypedInductive == ApprovalsTyped /\ [ApprovalsNext]_approvalsVars => ApprovalsTyped'
  <1> SUFFICES ASSUME ApprovalsTyped, [ApprovalsNext]_approvalsVars PROVE ApprovalsTyped'
    OBVIOUS
  <1>0. /\ gateCall \in [GateCalls -> GateCallDocs]
        /\ \A c \in GateCalls :
            /\ gateCall[c].copy.status \in { "none", "pending" }
            /\ gateCall[c].op \in Deciding =>
                    gateCall[c].who \in Actors /\ gateCall[c].copy.status = "pending"
    BY DEF ApprovalsTyped
  <1>1. ASSUME NEW c \in GateCalls, NEW w, CallGoes(c, w), w.copy.status \in { "none", "pending" },
               w.op \in Deciding => w.who \in Actors /\ w.copy.status = "pending",
               rules' = rules, expired' = expired, request' \in RequestDocs, decisions' \in Seq(Decisions),
               clock' = clock, lastRun' \in Times \cup { Never }, runsAt' \in [Times -> Nat],
               overwritten' \in Nat
        PROVE  ApprovalsTyped'
    <2>1. gateCall' \in [GateCalls -> GateCallDocs]
      BY <1>0, <1>1 DEF CallGoes
    <2>2. ASSUME NEW d \in GateCalls
          PROVE  /\ gateCall'[d].copy.status \in { "none", "pending" }
                 /\ gateCall'[d].op \in Deciding =>
                        gateCall'[d].who \in Actors /\ gateCall'[d].copy.status = "pending"
      BY <1>0, <1>1 DEF CallGoes
    <2> QED BY <1>1, <2>1, <2>2 DEF ApprovalsTyped
  <1>2. CASE InitializeDefaults
    BY <1>2 DEF InitializeDefaults, ApprovalsTyped, runbookVars, Categories, DefaultRules
  <1>3. CASE Expires
    BY <1>3 DEF Expires, ApprovalsTyped, runbookVars
  <1>4. CASE Minute
    BY <1>4, ApprovalsAssumption DEF Minute, ApprovalsTyped, approvalVars, Times
  <1>5. ASSUME NEW k \in Categories, RequestApproval(k) PROVE ApprovalsTyped'
    BY <1>5, RequestApprovalDoes DEF ApprovalsTyped, runbookVars
  <1>6. ASSUME NEW c \in GateCalls, NEW op \in { "approve", "reject", "cancel" }, NEW a \in Actors,
               GetRequest(c, op, a)
        PROVE  ApprovalsTyped'
    <2>1. PICK w : CallGoes(c, w) /\ w.op = op /\ w.who = a /\ w.copy = request
      BY <1>6, GetRequestDoes
    <2>2. request.status = "pending" /\ UNCHANGED << rules, request, expired, decisions, overwritten, runbookVars >>
      BY <1>6, GetRequestDoes
    <2> QED BY <1>1, <2>1, <2>2 DEF ApprovalsTyped, runbookVars
  <1>7. ASSUME NEW c \in GateCalls, RecordDecision(c) PROVE ApprovalsTyped'
    <2>1. PICK w : /\ CallGoes(c, w) /\ w.who = gateCall[c].who /\ w.copy = gateCall[c].copy
      BY <1>7, RecordDecisionDoes
    <2>2. /\ gateCall[c].op \in Deciding /\ gateCall[c].op \in { "reject", "approve" }
          /\ decisions' = << [by |-> gateCall[c].who, is |-> gateCall[c].op] >> \o decisions
          /\ UNCHANGED << rules, request, expired, overwritten, runbookVars >>
      BY <1>7, RecordDecisionDoes
    <2>3. decisions' \in Seq(Decisions)
      <3>1. [by |-> gateCall[c].who, is |-> gateCall[c].op] \in Decisions /\ decisions \in Seq(Decisions)
        BY <1>0, <2>2 DEF Decisions, ApprovalsTyped
      <3> QED BY <2>2, <3>1, SetOfPrepended
    <2> QED BY <1>0, <1>1, <2>1, <2>2, <2>3 DEF ApprovalsTyped, runbookVars
  <1>8. ASSUME NEW c \in GateCalls, SetsRequest(c) PROVE ApprovalsTyped'
    <2>1. overwritten' \in Nat
      BY <1>8, SetRequestDoes DEF ApprovalsTyped
    <2>2. CallIdle.op \notin Deciding /\ CallIdle.copy.status = "none"
      BY CallIdleTyped DEF Deciding
    <2>3. /\ CallGoes(c, CallIdle) /\ request' \in RequestDocs
          /\ UNCHANGED << rules, expired, decisions, runbookVars >>
      BY <1>8, SetRequestDoes
    <2> QED BY <1>1, <2>1, <2>2, <2>3 DEF ApprovalsTyped, runbookVars
  <1>9. ASSUME NEW c \in GateCalls, StartRunbook(c) PROVE ApprovalsTyped'
    <2>1. PICK w : CallGoes(c, w) /\ w.op = "run" /\ w.copy = NoRequest
      BY <1>9, StartRunbookDoes
    <2>2. UNCHANGED << rules, request, expired, decisions, overwritten, runbookVars >>
      BY <1>9, StartRunbookDoes
    <2> QED BY <1>1, <2>1, <2>2, CallIdleTyped DEF ApprovalsTyped, Deciding, runbookVars
  <1>10. ASSUME NEW c \in GateCalls, FinishRunbook(c) PROVE ApprovalsTyped'
    <2>1. gateCall[c].now \in Times
      BY <1>0 DEF GateCallDocs
    <2>2. runsAt' \in [Times -> Nat] /\ lastRun' \in Times \cup { Never } /\ CallGoes(c, CallIdle)
      BY <1>10, <2>1, CallIdleTyped DEF FinishRunbook, ApprovalsTyped, CallGoes
    <2> QED BY <1>1, <1>10, <2>2, CallIdleTyped DEF FinishRunbook, ApprovalsTyped, Deciding
  <1>11. CASE UNCHANGED approvalsVars
    BY <1>11 DEF approvalsVars, approvalVars, runbookVars, ApprovalsTyped
  <1> QED BY <1>2, <1>3, <1>4, <1>5, <1>6, <1>7, <1>8, <1>9, <1>10, <1>11 DEF ApprovalsNext, SetsRequest

-----------------------------------------------------------------------------
\* The approvers of a request: what a longer log and a new copy keep.
LEMMA RequestStaysOK ==
  ASSUME NEW r, NEW log, NEW later, ToSet(log) \subseteq ToSet(later), RequestOK(r, log)
  PROVE  RequestOK(r, later)
  BY DEF RequestOK

\* Nobody has approved at the start.
LEMMA ApproversOKInit == ApprovalsInit => ApproversOK
  BY CallIdleTyped DEF ApprovalsInit, ApproversOK

\* Whoever approves a request or a copy of it stays on the record of decisions.
LEMMA ApproversOKInductive ==
    ApprovalsTyped /\ ApproversOK /\ [ApprovalsNext]_approvalsVars => ApproversOK'
  <1> SUFFICES ASSUME ApprovalsTyped, ApproversOK, [ApprovalsNext]_approvalsVars PROVE ApproversOK'
    OBVIOUS
  <1>1. ASSUME NEW c \in GateCalls, NEW w, CallGoes(c, w), RequestOK(request', decisions'),
               ToSet(decisions) \subseteq ToSet(decisions'),
               RequestOK(w.copy, decisions'),
               w.op = "set_approved" => [by |-> w.who, is |-> "approve"] \in ToSet(decisions')
        PROVE  ApproversOK'
    <2>1. ASSUME NEW d \in GateCalls
          PROVE  /\ RequestOK(gateCall'[d].copy, decisions')
                 /\ gateCall'[d].op = "set_approved" =>
                        [by |-> gateCall'[d].who, is |-> "approve"] \in ToSet(decisions')
      <3>1. CASE d = c
        BY <1>1, <3>1 DEF CallGoes, ApprovalsTyped
      <3>2. CASE d # c
        <4>1. gateCall'[d] = gateCall[d]
          BY <1>1, <3>2 DEF CallGoes, ApprovalsTyped
        <4> QED BY <1>1, <4>1, RequestStaysOK DEF ApproversOK
      <3> QED BY <3>1, <3>2
    <2> QED BY <1>1, <2>1 DEF ApproversOK
  <1>2. CASE UNCHANGED << request, decisions, gateCall >>
    BY <1>2 DEF ApproversOK
  <1>3. ASSUME NEW k \in Categories, RequestApproval(k) PROVE ApproversOK'
    <2>1. /\ request'.status = "pending" /\ request'.approvers = NoRequest.approvers
          /\ UNCHANGED << decisions, gateCall >>
      BY <1>3, RequestApprovalDoes, CallIdleTyped
    <2>2. RequestOK(request', decisions)
      BY <2>1, CallIdleTyped DEF RequestOK
    <2> QED BY <2>1, <2>2 DEF ApproversOK
  <1>4. ASSUME NEW c \in GateCalls, NEW op \in { "approve", "reject", "cancel" }, NEW a \in Actors,
               GetRequest(c, op, a)
        PROVE  ApproversOK'
    <2>1. PICK w : CallGoes(c, w) /\ w.op = op /\ w.copy = request
      BY <1>4, GetRequestDoes
    <2>2. UNCHANGED << request, decisions >> /\ w.op # "set_approved"
      BY <1>4, <2>1, GetRequestDoes
    <2> QED BY <1>1, <2>1, <2>2 DEF ApproversOK
  <1>5. ASSUME NEW c \in GateCalls, RecordDecision(c) PROVE ApproversOK'
    <2> DEFINE v == gateCall[c]
               d == [by |-> v.who, is |-> v.op]
    <2>1. PICK w : /\ CallGoes(c, w) /\ w.who = v.who /\ w.copy = v.copy
                   /\ w.op = IF v.op = "reject" THEN "set_rejected" ELSE "set_approved"
      BY <1>5, RecordDecisionDoes
    <2>2. /\ v.op \in Deciding /\ v.op \in { "reject", "approve" } /\ request' = request
          /\ decisions' = << d >> \o decisions
      BY <1>5, RecordDecisionDoes
    <2>3. d \in Decisions /\ decisions \in Seq(Decisions)
      BY <2>2 DEF Decisions, ApprovalsTyped
    <2>4. ToSet(decisions) \subseteq ToSet(decisions') /\ d \in ToSet(decisions')
      BY <2>2, <2>3, SetOfPrepended
    <2>5. w.op = "set_approved" => [by |-> w.who, is |-> "approve"] = d
      BY <2>1, <2>2
    <2> QED BY <1>1, <2>1, <2>2, <2>4, <2>5, RequestStaysOK DEF ApproversOK
  <1>6. ASSUME NEW c \in GateCalls, SetsRequest(c) PROVE ApproversOK'
    <2> DEFINE v == gateCall[c]
               old == v.copy.approvers
               new == request'.approvers
    <2>1. CallGoes(c, CallIdle) /\ decisions' = decisions /\ v.op \in Deciding
      BY <1>6, SetRequestDoes
    <2>2. RequestOK(v.copy, decisions) /\ v.who \in Actors /\ old \in Seq(Actors)
      BY <2>1 DEF ApproversOK, ApprovalsTyped, GateCallDocs, RequestDocs
    <2>3. RequestOK(request', decisions)
      <3>1. CASE new = old /\ request'.status \in Decided \ { "approved" }
        BY <2>2, <3>1 DEF RequestOK, Decided
      <3>2. CASE /\ v.op = "set_approved"
                 /\ new = IF v.who \in ToSet(old) THEN old ELSE Append(old, v.who)
                 /\ request'.status = IF Len(new) >= request'.required THEN "approved" ELSE "pending"
        <4>1. [by |-> v.who, is |-> "approve"] \in ToSet(decisions)
          BY <3>2 DEF ApproversOK
        <4>2. CASE v.who \in ToSet(old)
          BY <2>2, <3>2, <4>2 DEF RequestOK
        <4>3. CASE v.who \notin ToSet(old)
          <5>1. new = Append(old, v.who) /\ Len(new) = Len(old) + 1 /\ ToSet(new) = ToSet(old) \cup { v.who }
            BY <2>2, <3>2, <4>3, SetOfAppended
          <5>2. IsFiniteSet(ToSet(new)) /\ Cardinality(ToSet(new)) = Cardinality(ToSet(old)) + 1
            BY <2>2, <4>3, <5>1, FS_AddElement DEF RequestOK
          <5> QED BY <2>2, <3>2, <4>1, <5>1, <5>2 DEF RequestOK
        <4> QED BY <4>2, <4>3
      <3> QED BY <1>6, <3>1, <3>2, SetRequestDoes
    <2> QED BY <1>1, <2>1, <2>3, CallIdleTyped
  <1>7. ASSUME NEW c \in GateCalls, StartRunbook(c) PROVE ApproversOK'
    <2>1. PICK w : CallGoes(c, w) /\ w.op = "run" /\ w.copy = NoRequest
      BY <1>7, StartRunbookDoes
    <2>2. UNCHANGED << request, decisions >>
      BY <1>7, StartRunbookDoes
    <2> QED BY <1>1, <2>1, <2>2, CallIdleTyped DEF ApproversOK
  <1>8. ASSUME NEW c \in GateCalls, FinishRunbook(c) PROVE ApproversOK'
    BY <1>1, <1>8, CallIdleTyped DEF FinishRunbook, CallGoes, ApproversOK
  <1> QED BY <1>2, <1>3, <1>4, <1>5, <1>6, <1>7, <1>8
          DEF ApprovalsNext, SetsRequest, InitializeDefaults, Expires, Minute, approvalVars, approvalsVars
-----------------------------------------------------------------------------
\* With one approver, what calls in flight may still do to a decided request.
InFlight(calls) == { c \in GateCalls : calls[c].op \in Deciding }

OverwrittenInv ==
    /\ \A c \in InFlight(gateCall) :
            request.status # "none" /\ gateCall[c].copy.required = request.required
    /\ request.status = "none" => overwritten = 0
    /\ request.required = 1 =>
            IF request.status \in Decided
            THEN overwritten + Cardinality(InFlight(gateCall)) <= Cardinality(GateCalls) - 1
            ELSE overwritten = 0

\* There are no more decisions under way than calls.
LEMMA InFlightFinite ==
  ASSUME NEW calls
  PROVE  /\ IsFiniteSet(InFlight(calls)) /\ Cardinality(InFlight(calls)) \in Nat
         /\ Cardinality(InFlight(calls)) <= Cardinality(GateCalls) /\ Cardinality(GateCalls) \in Nat
  <1>1. InFlight(calls) \in SUBSET GateCalls
    BY DEF InFlight
  <1> QED BY <1>1, ApprovalsAssumption, FS_Subset, FS_CardinalityType

\* The decisions under way change by one call at a time.
LEMMA InFlightMoves ==
  ASSUME ApprovalsTyped, NEW c \in GateCalls, NEW w, CallGoes(c, w)
  PROVE  /\ w.op \in Deciding => InFlight(gateCall') = InFlight(gateCall) \cup { c }
         /\ w.op \notin Deciding => InFlight(gateCall') = InFlight(gateCall) \ { c }
  BY DEF InFlight, CallGoes, ApprovalsTyped

\* No decision is under way at the start.
LEMMA OverwrittenInvInit == ApprovalsInit => OverwrittenInv
  <1> SUFFICES ASSUME ApprovalsInit PROVE OverwrittenInv
    OBVIOUS
  <1>1. InFlight(gateCall) = {}
    BY CallIdleTyped DEF ApprovalsInit, InFlight, Deciding
  <1> QED BY <1>1, CallIdleTyped DEF ApprovalsInit, OverwrittenInv, Decided

\* A decision that overwrites another was under way when that one was made, and
\* is so no longer.
LEMMA OverwrittenInvInductive ==
    ApprovalsTyped /\ OverwrittenInv /\ [ApprovalsNext]_approvalsVars => OverwrittenInv'
  <1> SUFFICES ASSUME ApprovalsTyped, OverwrittenInv, [ApprovalsNext]_approvalsVars PROVE OverwrittenInv'
    OBVIOUS
  <1> DEFINE F == InFlight(gateCall)
             G == InFlight(gateCall')
             n == Cardinality(GateCalls)
  <1>0. /\ gateCall \in [GateCalls -> GateCallDocs] /\ overwritten \in Nat
        /\ IsFiniteSet(F) /\ Cardinality(F) \in Nat /\ Cardinality(F) <= n /\ n \in Nat
    BY InFlightFinite DEF ApprovalsTyped
  <1>1. CASE UNCHANGED << request, gateCall, overwritten >>
    BY <1>1 DEF OverwrittenInv
  \* a call that does not decide comes or goes
  <1>2. ASSUME NEW c \in GateCalls, NEW w, CallGoes(c, w), gateCall[c].op \notin Deciding,
               w.op \notin Deciding, UNCHANGED << request, overwritten >>
        PROVE  OverwrittenInv'
    <2>1. G = F
      BY <1>2, InFlightMoves DEF InFlight
    <2>2. ASSUME NEW d \in F PROVE gateCall'[d] = gateCall[d]
      BY <1>0, <1>2 DEF CallGoes, InFlight
    <2> QED BY <1>2, <2>1, <2>2 DEF OverwrittenInv
  <1>3. ASSUME NEW k \in Categories, RequestApproval(k) PROVE OverwrittenInv'
    <2>1. /\ request.status = "none" /\ request'.status = "pending"
          /\ gateCall' = gateCall /\ overwritten' = overwritten
      BY <1>3, RequestApprovalDoes, CallIdleTyped
    <2>2. F = {} /\ overwritten = 0
      BY <2>1 DEF OverwrittenInv
    <2> QED BY <2>1, <2>2 DEF OverwrittenInv, Decided
  <1>4. ASSUME NEW c \in GateCalls, NEW op \in { "approve", "reject", "cancel" }, NEW a \in Actors,
               GetRequest(c, op, a)
        PROVE  OverwrittenInv'
    <2>1. PICK w : CallGoes(c, w) /\ w.op = op /\ w.copy = request
      BY <1>4, GetRequestDoes
    <2>2. request.status = "pending" /\ UNCHANGED << request, overwritten >>
      BY <1>4, GetRequestDoes
    <2>3. ASSUME NEW d \in G PROVE gateCall'[d].copy.required = request.required
      BY <1>0, <2>1, <2>3 DEF CallGoes, InFlight, OverwrittenInv
    <2>4. request.status # "none" /\ request.status \notin Decided
      BY <2>2 DEF Decided
    <2> QED BY <2>2, <2>3, <2>4 DEF OverwrittenInv
  <1>5. ASSUME NEW c \in GateCalls, RecordDecision(c) PROVE OverwrittenInv'
    <2>1. PICK w : /\ CallGoes(c, w) /\ w.copy = gateCall[c].copy
                   /\ w.op = IF gateCall[c].op = "reject" THEN "set_rejected" ELSE "set_approved"
      BY <1>5, RecordDecisionDoes
    <2>2. w.op \in Deciding /\ gateCall[c].op \in Deciding /\ UNCHANGED << request, overwritten >>
      BY <1>5, <2>1, RecordDecisionDoes DEF Deciding, GateOps
    <2>3. G = F
      BY <2>1, <2>2, InFlightMoves DEF InFlight
    <2>4. ASSUME NEW d \in G PROVE gateCall'[d].copy = gateCall[d].copy
      BY <1>0, <2>1 DEF CallGoes, InFlight
    <2> QED BY <2>2, <2>3, <2>4 DEF OverwrittenInv
  <1>6. ASSUME NEW c \in GateCalls, SetsRequest(c) PROVE OverwrittenInv'
    <2> DEFINE new == request'.approvers
               old == gateCall[c].copy.approvers
    <2>1. /\ CallGoes(c, CallIdle) /\ gateCall[c].op \in Deciding /\ c \in F
          /\ request'.required = gateCall[c].copy.required
          /\ request'.status \in Decided \cup { "pending" }
          /\ overwritten' = IF request.status \in Decided THEN overwritten + 1 ELSE overwritten
      BY <1>6, SetRequestDoes DEF InFlight
    <2>2. G = F \ { c } /\ Cardinality(G) = Cardinality(F) - 1
      <3>1. CallIdle.op \notin Deciding
        BY CallIdleTyped DEF Deciding
      <3>2. G = F \ { c }
        BY <2>1, <3>1, InFlightMoves
      <3> HIDE DEF F, G
      <3> QED BY <1>0, <2>1, <3>2, FS_RemoveElement
    <2>3. request'.required = request.required /\ request.status # "none" /\ request'.status # "none"
      BY <2>1 DEF OverwrittenInv, Decided
    <2>4. ASSUME NEW d \in G PROVE gateCall'[d].copy.required = request'.required
      <3>1. d \in F /\ d # c
        BY <2>2
      <3>2. gateCall'[d] = gateCall[d]
        BY <1>0, <2>1, <3>1 DEF CallGoes, InFlight
      <3> QED BY <2>3, <3>1, <3>2 DEF OverwrittenInv
    <2>5. request'.required = 1 => request'.status \in Decided
      <3>1. SUFFICES ASSUME request'.required = 1, request'.status \notin Decided PROVE FALSE
        OBVIOUS
      <3>2. /\ new = IF gateCall[c].who \in ToSet(old) THEN old ELSE Append(old, gateCall[c].who)
            /\ Len(new) < 1
        <4>1. ~(Len(new) >= 1)
          BY <1>6, <3>1, SetRequestDoes DEF Decided
        <4>2. Len(new) \in Nat
          BY <1>6, SetRequestDoes DEF RequestDocs
        <4> QED BY <1>6, <3>1, <4>1, <4>2, SetRequestDoes DEF Decided
      <3>3. old \in Seq(Actors) /\ gateCall[c].who \in Actors
        BY <2>1 DEF ApprovalsTyped, GateCallDocs, RequestDocs
      <3>4. gateCall[c].who \in ToSet(old) => Len(old) >= 1
        BY <3>3 DEF ToSet
      <3> QED BY <3>2, <3>3, <3>4
    <2>6. request'.required = 1 => overwritten' + Cardinality(G) <= n - 1
      <3> HIDE DEF F, G, n
      <3>1. request.required = 1 =>
                IF request.status \in Decided THEN overwritten + Cardinality(F) <= n - 1 ELSE overwritten = 0
        BY DEF OverwrittenInv, F, n
      <3> QED BY <1>0, <2>1, <2>2, <2>3, <3>1
    <2> QED BY <2>3, <2>4, <2>5, <2>6 DEF OverwrittenInv
  <1>7. ASSUME NEW c \in GateCalls, StartRunbook(c) PROVE OverwrittenInv'
    <2>1. PICK w : CallGoes(c, w) /\ w.op = "run"
      BY <1>7, StartRunbookDoes
    <2>2. /\ gateCall[c].op \notin Deciding /\ w.op \notin Deciding
          /\ UNCHANGED << request, overwritten >>
      BY <1>7, <2>1, StartRunbookDoes, CallIdleTyped DEF Deciding
    <2> QED BY <1>2, <2>1, <2>2
  <1>8. ASSUME NEW c \in GateCalls, FinishRunbook(c) PROVE OverwrittenInv'
    <2>1. CallGoes(c, CallIdle) /\ UNCHANGED << request, overwritten >>
      BY <1>8, CallIdleTyped DEF FinishRunbook, CallGoes
    <2>2. gateCall[c].op \notin Deciding /\ CallIdle.op \notin Deciding
      BY <1>8, CallIdleTyped DEF FinishRunbook, Deciding
    <2> QED BY <1>2, <2>1, <2>2
  <1> QED BY <1>1, <1>3, <1>4, <1>5, <1>6, <1>7, <1>8
          DEF ApprovalsNext, SetsRequest, InitializeDefaults, Expires, Minute, approvalVars, approvalsVars
-----------------------------------------------------------------------------
\* Runbooks in flight by the minute their call started in.
RunsOf(calls, t) == { c \in GateCalls : calls[c].op = "run" /\ calls[c].now = t }
OlderThan(calls, t) == { c \in GateCalls : calls[c].op = "run" /\ calls[c].now < t }

\* In the present minute q calls have not started before it.  None starts once
\* last_executed is this minute; an older call that finishes puts it back, and
\* is then one of those that can start.
PresentOK(q, runs, current, isLast) ==
    IF isLast THEN 2 * (runs + current) <= q * (q + 1) ELSE 2 * runs <= q * (q - 1)

CooldownInv ==
    LET n == Cardinality(GateCalls)
    IN  /\ \A c \in GateCalls : gateCall[c].op = "run" => gateCall[c].now <= clock
        /\ lastRun <= clock
        /\ \A t \in Times :
            /\ t > clock => runsAt[t] = 0
            /\ t < clock => 2 * (runsAt[t] + Cardinality(RunsOf(gateCall, t))) <= n * (n + 1)
        /\ PresentOK(n - Cardinality(OlderThan(gateCall, clock)), runsAt[clock],
                     Cardinality(RunsOf(gateCall, clock)), lastRun = clock)

\* q (q + 1) does not fall as q grows: the squares are handled here, since the
\* provers take them for unknown numbers elsewhere.
LEMMA TriangleGrows ==
  ASSUME NEW q \in Nat, NEW n \in Nat, q <= n
  PROVE  q * (q + 1) <= n * (n + 1)
  <1>1. PICK d \in Nat : n = q + d
    <2>1. n - q \in Nat /\ n = q + (n - q)
      OBVIOUS
    <2> QED BY <2>1
  <1>2. n * (n + 1) = q * (q + 1) + (2 * (q * d) + d * d + d)
    BY <1>1
  <1>3. q * d \in Nat /\ d * d \in Nat
    BY <1>1
  <1> QED BY <1>1, <1>2, <1>3

\* The differences of these numbers.
LEMMA Triangles ==
  ASSUME NEW q \in Nat
  PROVE  /\ q * (q - 1) + 2 * q = q * (q + 1) /\ (q + 1) * ((q + 1) - 1) = q * (q + 1)
         /\ q * (q - 1) >= 0 /\ q * (q - 1) <= q * (q + 1) /\ q * (q + 1) \in Nat /\ q * (q - 1) \in Int
  <1>1. q * q \in Nat /\ q * (q - 1) = q * q - q /\ q * (q + 1) = q * q + q
        /\ (q + 1) * ((q + 1) - 1) = q * q + q
    OBVIOUS
  <1>2. q * q >= q
    <2>1. CASE q = 0
      BY <2>1
    <2>2. CASE q # 0
      <3>1. q - 1 \in Nat
        BY <2>2
      <3>2. q * (q - 1) \in Nat
        BY <3>1
      <3> QED BY <1>1, <3>2
    <2> QED BY <2>1, <2>2
  <1> QED BY <1>1, <1>2

\* The runbooks of a minute and the older ones are different calls.
LEMMA RunsCounted ==
  ASSUME NEW calls \in [GateCalls -> GateCallDocs], NEW t \in Times
  PROVE  /\ IsFiniteSet(RunsOf(calls, t)) /\ Cardinality(RunsOf(calls, t)) \in Nat
         /\ IsFiniteSet(OlderThan(calls, t)) /\ Cardinality(OlderThan(calls, t)) \in Nat
         /\ Cardinality(GateCalls) \in Nat
         /\ Cardinality(RunsOf(calls, t)) + Cardinality(OlderThan(calls, t)) <= Cardinality(GateCalls)
  <1> DEFINE R == RunsOf(calls, t)
             O == OlderThan(calls, t)
  <1>1. R \in SUBSET GateCalls /\ O \in SUBSET GateCalls /\ R \cup O \in SUBSET GateCalls
    BY DEF RunsOf, OlderThan
  <1>2. R \cap O = {}
    <2>1. ASSUME NEW c \in GateCalls PROVE calls[c].now \in Int
      BY ApprovalsAssumption DEF GateCallDocs, Times
    <2>2. t \in Int
      BY ApprovalsAssumption DEF Times
    <2> QED BY <2>1, <2>2 DEF RunsOf, OlderThan
  <1> HIDE DEF R, O
  <1>3. IsFiniteSet(R) /\ IsFiniteSet(O) /\ Cardinality(R) \in Nat /\ Cardinality(O) \in Nat
        /\ Cardinality(GateCalls) \in Nat /\ Cardinality(R \cup O) <= Cardinality(GateCalls)
    BY <1>1, ApprovalsAssumption, FS_Subset, FS_CardinalityType
  <1>4. Cardinality(R \cup O) = Cardinality(R) + Cardinality(O)
    <2>1. Cardinality(R \cup O) = Cardinality(R) + Cardinality(O) - Cardinality(R \cap O)
      BY <1>3, FS_Union
    <2>2. Cardinality(R \cap O) = 0
      BY <1>2, FS_EmptySet
    <2> QED BY <1>3, <2>1, <2>2
  <1> QED BY <1>3, <1>4 DEF R, O

\* No run has been counted at the start.
LEMMA CooldownInvInit == ApprovalsInit => CooldownInv
  <1> SUFFICES ASSUME ApprovalsInit PROVE CooldownInv
    OBVIOUS
  <1>1. clock = 0 /\ lastRun = -1 /\ \A c \in GateCalls : gateCall[c].op # "run"
    BY CallIdleTyped DEF ApprovalsInit, Never
  <1>2. 0 \in Times /\ \A t \in Times : t \in Nat /\ runsAt[t] = 0
    BY ApprovalsAssumption DEF ApprovalsInit, Times
  <1>3. OlderThan(gateCall, clock) = {} /\ Cardinality(GateCalls) \in Nat
    BY <1>1, ApprovalsAssumption, FS_CardinalityType DEF OlderThan
  <1>4. PresentOK(Cardinality(GateCalls) - Cardinality(OlderThan(gateCall, clock)), runsAt[clock],
                  Cardinality(RunsOf(gateCall, clock)), lastRun = clock)
    <2> DEFINE n == Cardinality(GateCalls)
    <2>1. n \in Nat /\ n * (n - 1) >= 0 /\ n * (n - 1) \in Int
      BY <1>3, Triangles
    <2>2. Cardinality(OlderThan(gateCall, clock)) = 0 /\ runsAt[clock] = 0 /\ lastRun # clock
      BY <1>1, <1>2, <1>3, FS_EmptySet
    <2> HIDE DEF n
    <2>3. n - 0 = n
      BY <2>1
    <2> QED BY <2>1, <2>2, <2>3 DEF PresentOK, n
  <1> QED BY <1>1, <1>2, <1>4 DEF CooldownInv

\* No step counts more runs in a minute than the calls that can still start in
\* it allow.
LEMMA CooldownInvInductive ==
  ASSUME Cooldown > 0
  PROVE  ApprovalsTyped /\ CooldownInv /\ [ApprovalsNext]_approvalsVars => CooldownInv'
  <1> SUFFICES ASSUME ApprovalsTyped, CooldownInv, [ApprovalsNext]_approvalsVars PROVE CooldownInv'
    OBVIOUS
  <1> DEFINE n == Cardinality(GateCalls)
             R(t) == RunsOf(gateCall, t)
             O == OlderThan(gateCall, clock)
             q == n - Cardinality(O)
  <1>t. /\ gateCall \in [GateCalls -> GateCallDocs] /\ clock \in Times /\ lastRun \in Times \cup { -1 }
        /\ runsAt \in [Times -> Nat] /\ Times \subseteq Nat
        /\ \A c \in GateCalls : gateCall[c].now \in Times
    <2>1. /\ gateCall \in [GateCalls -> GateCallDocs] /\ clock \in Times /\ lastRun \in Times \cup { -1 }
          /\ runsAt \in [Times -> Nat] /\ Times \subseteq Nat
      BY DEF ApprovalsTyped, Never, Times
    <2>2. \A c \in GateCalls : gateCall[c].now \in Times
      BY <2>1 DEF GateCallDocs
    <2> QED BY <2>1, <2>2
  <1>i. clock \in Int /\ lastRun \in Int /\ \A c \in GateCalls : gateCall[c].now \in Int
    <2>1. \A t \in Times : t \in Int
      BY <1>t
    <2>2. -1 \in Int
      OBVIOUS
    <2> QED BY <1>t, <2>1, <2>2
  <1>n. /\ \A t \in Times : IsFiniteSet(R(t)) /\ Cardinality(R(t)) \in Nat
        /\ IsFiniteSet(O) /\ Cardinality(O) \in Nat /\ n \in Nat
        /\ Cardinality(R(clock)) <= q /\ q \in Nat /\ q <= n
    <2>3. \A t \in Times : IsFiniteSet(R(t)) /\ Cardinality(R(t)) \in Nat
      BY <1>t, RunsCounted
    <2>4. /\ IsFiniteSet(O) /\ Cardinality(O) \in Nat /\ n \in Nat
          /\ Cardinality(R(clock)) \in Nat /\ Cardinality(R(clock)) + Cardinality(O) <= n
      BY <1>t, RunsCounted
    <2> HIDE DEF R, O, n
    <2>5. Cardinality(R(clock)) <= q /\ q \in Nat /\ q <= n
      BY <2>4
    <2> QED BY <2>3, <2>4, <2>5
  <1>a. /\ \A c \in GateCalls : gateCall[c].op = "run" => gateCall[c].now <= clock
        /\ lastRun <= clock
    BY DEF CooldownInv
  <1>b. \A t \in Times : /\ t > clock => runsAt[t] = 0
                         /\ t < clock => 2 * (runsAt[t] + Cardinality(R(t))) <= n * (n + 1)
    BY DEF CooldownInv
  <1>c. PresentOK(q, runsAt[clock], Cardinality(R(clock)), lastRun = clock)
    BY DEF CooldownInv
  <1>2. CASE UNCHANGED << gateCall, runbookVars >>
    BY <1>2 DEF CooldownInv, runbookVars
  \* approvals come and go
  <1>3. ASSUME NEW c \in GateCalls, NEW w, CallGoes(c, w), gateCall[c].op # "run", w.op # "run",
               UNCHANGED runbookVars
        PROVE  CooldownInv'
    <2>1. \A t : RunsOf(gateCall', t) = R(t) /\ OlderThan(gateCall', t) = OlderThan(gateCall, t)
      <3>1. gateCall' = [gateCall EXCEPT ![c] = w]
        BY <1>3 DEF CallGoes
      <3>2. ASSUME NEW t
            PROVE  /\ RunsOf(gateCall', t) = RunsOf(gateCall, t)
                   /\ OlderThan(gateCall', t) = OlderThan(gateCall, t)
        BY <1>t, <1>3, <3>1 DEF RunsOf, OlderThan
      <3> QED BY <3>2
    <2>2. \A d \in GateCalls : gateCall'[d].op = "run" => gateCall'[d].now <= clock
      BY <1>t, <1>n, <1>a, <1>b, <1>c, <1>3 DEF CallGoes
    <2>3. clock' = clock /\ lastRun' = lastRun /\ runsAt' = runsAt
      BY <1>3 DEF runbookVars
    <2> QED BY <1>a, <1>b, <1>c, <2>1, <2>2, <2>3 DEF CooldownInv
  <1>4. ASSUME NEW c \in GateCalls, NEW op \in { "approve", "reject", "cancel" }, NEW a \in Actors,
               GetRequest(c, op, a)
        PROVE  CooldownInv'
    <2>1. PICK w : CallGoes(c, w) /\ w.op = op
      BY <1>4, GetRequestDoes
    <2> QED BY <1>3, <1>4, <2>1, CallIdleTyped, GetRequestDoes
  <1>5. ASSUME NEW c \in GateCalls, RecordDecision(c) PROVE CooldownInv'
    <2>1. PICK w : CallGoes(c, w) /\ w.op = IF gateCall[c].op = "reject" THEN "set_rejected" ELSE "set_approved"
      BY <1>5, RecordDecisionDoes
    <2> QED BY <1>3, <1>5, <2>1, RecordDecisionDoes
  <1>6. ASSUME NEW c \in GateCalls, SetsRequest(c) PROVE CooldownInv'
    BY <1>3, <1>6, CallIdleTyped, SetRequestDoes DEF Deciding
  <1>7. ASSUME NEW c \in GateCalls, StartRunbook(c) PROVE CooldownInv'
    <2>1. PICK w : CallGoes(c, w) /\ w.op = "run" /\ w.now = clock
      BY <1>7, StartRunbookDoes
    <2>2. gateCall[c].op = "idle" /\ clock' = clock /\ lastRun' = lastRun /\ runsAt' = runsAt
      BY <1>7, StartRunbookDoes, CallIdleTyped DEF runbookVars
    <2>3. lastRun # clock
      BY <1>t, <1>n, <1>7, ApprovalsAssumption DEF StartRunbook, Never
    <2>4. OlderThan(gateCall', clock) = O /\ \A t \in Times : t # clock => RunsOf(gateCall', t) = R(t)
      BY <1>t, <1>n, <2>1, <2>2 DEF CallGoes, OlderThan, RunsOf
    <2>5. PresentOK(q, runsAt[clock], Cardinality(RunsOf(gateCall', clock)), FALSE)
      BY <1>a, <1>b, <1>c, <2>3 DEF PresentOK
    <2>6. \A d \in GateCalls : gateCall'[d].op = "run" => gateCall'[d].now <= clock
      BY <1>t, <1>n, <1>a, <1>b, <1>c, <2>1 DEF CallGoes
    <2>7. \A t \in Times : t < clock => RunsOf(gateCall', t) = R(t)
      BY <1>t, <1>n, <2>4
    <2> QED BY <1>a, <1>b, <1>c, <2>2, <2>3, <2>4, <2>5, <2>6, <2>7 DEF CooldownInv, PresentOK
  <1>8. ASSUME NEW c \in GateCalls, FinishRunbook(c) PROVE CooldownInv'
    <2> DEFINE u == gateCall[c].now
               r == runsAt[u]
               P(t) == RunsOf(gateCall', t)
    <2>1. /\ gateCall[c].op = "run" /\ lastRun' = u /\ runsAt' = [runsAt EXCEPT ![u] = r + 1]
          /\ CallGoes(c, CallIdle) /\ CallIdle.op = "idle" /\ clock' = clock
      BY <1>8, CallIdleTyped DEF FinishRunbook, CallGoes
    <2>2. u \in Times /\ u <= clock /\ c \in R(u)
      BY <1>t, <1>n, <1>a, <1>b, <1>c, <2>1 DEF RunsOf
    <2>3. P(u) = R(u) \ { c } /\ \A t \in Times : t # u => P(t) = R(t)
      BY <1>t, <1>n, <2>1, <2>2 DEF CallGoes, RunsOf
    <2>4. Cardinality(P(u)) = Cardinality(R(u)) - 1 /\ Cardinality(P(u)) \in Nat
      <3> HIDE DEF P, R
      <3>1. Cardinality(R(u) \ { c }) = Cardinality(R(u)) - 1 /\ IsFiniteSet(R(u) \ { c })
        BY <1>t, <1>n, <2>2, FS_RemoveElement
      <3> QED BY <2>3, <3>1, FS_CardinalityType
    <2>5. \A d \in GateCalls : gateCall'[d].op = "run" => gateCall'[d].now <= clock
      BY <1>t, <1>n, <1>a, <1>b, <1>c, <2>1 DEF CallGoes
    <2>6. runsAt'[u] = r + 1 /\ r \in Nat /\ \A t \in Times : t # u => runsAt'[t] = runsAt[t]
      BY <1>t, <1>n, <2>1, <2>2
    <2>7. ASSUME NEW t \in Times
          PROVE  /\ t > clock => runsAt'[t] = 0
                 /\ t < clock => 2 * (runsAt'[t] + Cardinality(P(t))) <= n * (n + 1)
      <3> HIDE DEF P, R, n, u, r
      <3>1. t > clock => t # u
        BY <1>t, <1>n, <2>2
      <3>2. CASE t # u
        <4>1. runsAt'[t] = runsAt[t] /\ P(t) = R(t)
          BY <2>3, <2>6, <3>2
        <4>2. /\ t > clock => runsAt[t] = 0
              /\ t < clock => 2 * (runsAt[t] + Cardinality(R(t))) <= n * (n + 1)
          BY <1>b
        <4> QED BY <4>1, <4>2
      <3>3. CASE t = u
        <4>1. r + 1 + Cardinality(P(u)) = r + Cardinality(R(u))
          BY <1>t, <1>n, <2>2, <2>4, <2>6
        <4>2. r = runsAt[u]
          BY DEF r
        <4>3. t < clock => 2 * (runsAt[t] + Cardinality(R(t))) <= n * (n + 1)
          BY <1>b
        <4>4. runsAt'[t] = r + 1 /\ runsAt[t] = r
          BY <2>6, <3>3, <4>2
        <4>5. t < clock => 2 * (runsAt'[t] + Cardinality(P(t))) <= n * (n + 1)
          BY <3>3, <4>1, <4>3, <4>4
        <4> QED BY <3>1, <3>3, <4>5
      <3> QED BY <3>2, <3>3
    <2>8. PresentOK(n - Cardinality(OlderThan(gateCall', clock)), runsAt'[clock], Cardinality(P(clock)),
                    u = clock)
      <3>1. CASE u = clock
        <4>1. OlderThan(gateCall', clock) = O
          BY <1>t, <1>n, <2>1, <2>2, <3>1 DEF CallGoes, OlderThan
        <4>2. PresentOK(q, r, Cardinality(R(u)), lastRun = clock)
          BY <1>a, <1>b, <1>c, <3>1
        <4>3. /\ q * (q - 1) + 2 * q = q * (q + 1) /\ q * (q + 1) \in Nat /\ q * (q - 1) \in Int
              /\ q \in Nat /\ Cardinality(R(u)) <= q /\ Cardinality(R(u)) \in Nat
          BY <1>t, <1>n, <2>2, <3>1, Triangles
        <4> HIDE DEF q, R, P, r, u
        <4>4. 2 * ((r + 1) + Cardinality(P(u))) <= q * (q + 1)
          <5>1. (r + 1) + Cardinality(P(u)) = r + Cardinality(R(u))
            BY <2>4, <2>6, <4>3
          <5>2. CASE lastRun = clock
            BY <4>2, <5>1, <5>2 DEF PresentOK
          <5>3. CASE lastRun # clock
            <6>1. 2 * r <= q * (q - 1)
              BY <4>2, <5>3 DEF PresentOK
            <6>2. 2 * (r + Cardinality(R(u))) <= q * (q - 1) + 2 * q
              BY <2>6, <4>3, <6>1
            <6> QED BY <4>3, <5>1, <6>2
          <5> QED BY <5>2, <5>3
        <4>5. PresentOK(q, r + 1, Cardinality(P(u)), TRUE)
          BY <4>4 DEF PresentOK
        <4> QED BY <2>6, <3>1, <4>1, <4>5 DEF q
      <3>2. CASE u # clock
        <4>1. OlderThan(gateCall', clock) = O \ { c } /\ c \in O
          <5>1. u < clock
            BY <1>i, <2>2, <3>2
          <5>2. gateCall'[c].op # "run" /\ \A d \in GateCalls : d # c => gateCall'[d] = gateCall[d]
            BY <1>t, <1>n, <2>1 DEF CallGoes
          <5> QED BY <2>1, <5>1, <5>2 DEF OlderThan
        <4>2. Cardinality(OlderThan(gateCall', clock)) = Cardinality(O) - 1
          <5> HIDE DEF O
          <5> QED BY <1>t, <1>n, <4>1, FS_RemoveElement
        <4>3. n - Cardinality(OlderThan(gateCall', clock)) = q + 1
          <5> HIDE DEF O, n
          <5> QED BY <1>t, <1>n, <4>2
        <4>4. 2 * runsAt[clock] <= q * (q + 1)
          <5>1. /\ q * (q - 1) <= q * (q + 1) /\ q * (q + 1) \in Nat /\ q * (q - 1) \in Int
                /\ runsAt[clock] \in Nat /\ Cardinality(R(clock)) \in Nat
            BY <1>t, <1>n, Triangles
          <5> HIDE DEF q, R
          <5> QED BY <1>a, <1>b, <1>c, <5>1 DEF PresentOK
        <4>5. (q + 1) * ((q + 1) - 1) = q * (q + 1)
          BY <1>t, <1>n, Triangles
        <4>6. runsAt'[clock] = runsAt[clock]
          BY <1>t, <1>n, <2>6, <3>2
        <4> HIDE DEF q
        <4> QED BY <3>2, <4>3, <4>4, <4>5, <4>6 DEF PresentOK
      <3> QED BY <3>1, <3>2
    <2> QED BY <2>1, <2>2, <2>5, <2>7, <2>8 DEF CooldownInv
  <1>9. CASE Minute
    <2>1. /\ clock' = clock + 1 /\ clock + 1 \in Times /\ gateCall' = gateCall /\ lastRun' = lastRun
          /\ runsAt' = runsAt
      BY <1>t, <1>n, <1>9, ApprovalsAssumption DEF Minute, approvalVars, Times
    <2>2. (\A c \in GateCalls : gateCall[c].op = "run" => gateCall[c].now <= clock + 1) /\ lastRun <= clock + 1
      <3>1. \A k \in Int : k <= clock => k <= clock + 1
        BY <1>i
      <3> QED BY <1>a, <1>i, <3>1
    <2>3. ASSUME NEW t \in Times
          PROVE  /\ t > clock + 1 => runsAt[t] = 0
                 /\ t < clock + 1 => 2 * (runsAt[t] + Cardinality(R(t))) <= n * (n + 1)
      <3>1. /\ q * (q - 1) + 2 * q = q * (q + 1) /\ q * (q + 1) \in Nat /\ q * (q - 1) \in Int
            /\ q * (q + 1) <= n * (n + 1) /\ n * (n + 1) \in Nat
        BY <1>t, <1>n, Triangles, TriangleGrows
      <3>2. runsAt[clock] \in Nat /\ Cardinality(R(clock)) \in Nat /\ Cardinality(R(clock)) <= q /\ q \in Nat
        BY <1>t, <1>n
      <3>3. 2 * (runsAt[clock] + Cardinality(R(clock))) <= q * (q + 1)
        <4> HIDE DEF q, R
        <4>1. CASE lastRun = clock
          BY <1>a, <1>b, <1>c, <4>1 DEF PresentOK
        <4>2. CASE lastRun # clock
          <5>1. 2 * runsAt[clock] <= q * (q - 1)
            BY <1>a, <1>b, <1>c, <4>2 DEF PresentOK
          <5>2. 2 * (runsAt[clock] + Cardinality(R(clock))) <= q * (q - 1) + 2 * q
            BY <3>1, <3>2, <5>1
          <5> QED BY <3>1, <5>2
        <4> QED BY <4>1, <4>2
      <3>4. 2 * (runsAt[clock] + Cardinality(R(clock))) <= n * (n + 1)
        <4> HIDE DEF q, R, n
        <4> QED BY <3>1, <3>2, <3>3
      <3>5. t < clock + 1 => t < clock \/ t = clock
        BY <1>t, <1>n
      <3>6. t > clock + 1 => t > clock
        BY <1>t, <1>n
      <3> HIDE DEF q, R, n
      <3>7. /\ t > clock => runsAt[t] = 0
            /\ t < clock => 2 * (runsAt[t] + Cardinality(R(t))) <= n * (n + 1)
        BY <1>b
      <3> QED BY <3>4, <3>5, <3>6, <3>7
    <2>4. PresentOK(n - Cardinality(OlderThan(gateCall, clock + 1)), runsAt[clock + 1],
                    Cardinality(R(clock + 1)), lastRun = clock + 1)
      <3> DEFINE p == n - Cardinality(OlderThan(gateCall, clock + 1))
      <3>1. runsAt[clock + 1] = 0 /\ lastRun # clock + 1
        <4>1. clock + 1 > clock /\ ~(clock + 1 <= clock)
          BY <1>i
        <4> QED BY <1>a, <1>b, <2>1, <4>1
      <3>2. p \in Nat
        <4>1. /\ Cardinality(R(clock + 1)) \in Nat /\ Cardinality(OlderThan(gateCall, clock + 1)) \in Nat
              /\ Cardinality(R(clock + 1)) + Cardinality(OlderThan(gateCall, clock + 1)) <= n
          BY <1>t, <1>n, <2>1, RunsCounted
        <4> HIDE DEF R, n
        <4> QED BY <1>t, <1>n, <4>1
      <3>3. p * (p - 1) >= 0
        BY <3>2, Triangles
      <3> HIDE DEF p
      <3>4. PresentOK(p, 0, Cardinality(R(clock + 1)), FALSE)
        BY <3>3 DEF PresentOK
      <3> QED BY <3>1, <3>4 DEF p
    <2> QED BY <2>1, <2>2, <2>3, <2>4 DEF CooldownInv
  <1> QED BY <1>2, <1>4, <1>5, <1>6, <1>7, <1>8, <1>9
          DEF ApprovalsNext, SetsRequest, InitializeDefaults, RequestApproval, Expires, approvalsVars, approvalVars

-----------------------------------------------------------------------------
\* What the invariant says of the runs at one time, for any number of calls.
LEMMA CooldownInvBounds ==
  ASSUME ApprovalsTyped, CooldownInv, NEW t \in Times
  PROVE  2 * runsAt[t] <= Cardinality(GateCalls) * (Cardinality(GateCalls) + 1)
  <1> DEFINE n == Cardinality(GateCalls)
             q == n - Cardinality(OlderThan(gateCall, clock))
  <1>1. /\ clock \in Nat /\ t \in Nat /\ runsAt[t] \in Nat /\ n \in Nat /\ clock \in Times
        /\ Cardinality(RunsOf(gateCall, t)) \in Nat /\ q \in Nat /\ q <= n
    <2>1. gateCall \in [GateCalls -> GateCallDocs] /\ clock \in Times /\ Times \subseteq Nat /\ runsAt[t] \in Nat
      BY DEF ApprovalsTyped, Times
    <2>2. /\ Cardinality(OlderThan(gateCall, clock)) \in Nat /\ n \in Nat
          /\ Cardinality(RunsOf(gateCall, clock)) \in Nat
          /\ Cardinality(RunsOf(gateCall, clock)) + Cardinality(OlderThan(gateCall, clock)) <= n
      BY <2>1, RunsCounted
    <2>3. Cardinality(RunsOf(gateCall, t)) \in Nat
      BY <2>1, RunsCounted
    <2> HIDE DEF n
    <2> QED BY <2>1, <2>2, <2>3
  <1>2. /\ t > clock => runsAt[t] = 0
        /\ t < clock => 2 * (runsAt[t] + Cardinality(RunsOf(gateCall, t))) <= n * (n + 1)
        /\ PresentOK(q, runsAt[clock], Cardinality(RunsOf(gateCall, clock)), lastRun = clock)
    BY DEF CooldownInv
  <1>3. /\ q * (q - 1) <= q * (q + 1) /\ q * (q + 1) \in Nat /\ q * (q - 1) \in Int
        /\ q * (q + 1) <= n * (n + 1) /\ n * (n + 1) \in Nat
    BY <1>1, Triangles, TriangleGrows
  <1> HIDE DEF n, q
  <1>4. CASE t = clock
    <2>1. 2 * runsAt[t] <= q * (q + 1)
      BY <1>1, <1>2, <1>3, <1>4 DEF PresentOK
    <2> QED BY <1>1, <1>3, <2>1 DEF n
  <1>5. CASE t # clock
    <2>1. 2 * runsAt[t] <= n * (n + 1)
      BY <1>1, <1>2, <1>3, <1>5
    <2> QED BY <2>1 DEF n
  <1> QED BY <1>4, <1>5

\* The types of rules, requests, decisions, runbooks and of the copies in flight.
THEOREM ApprovalsTypes == ApprovalsSpec => []ApprovalsTypeOK
  <1>1. ApprovalsTyped => ApprovalsTypeOK
    BY DEF ApprovalsTyped, ApprovalsTypeOK, RequestDocs, Decisions
  <1> QED BY <1>1, ApprovalsTypedInit, ApprovalsTypedInductive, PTL DEF ApprovalsSpec

\* A request that reads approved has enough different approvers, each with a decision in the
\* log, however calls with copies of it overlap (approval_gates.py, approve).
THEOREM ApprovalsByEnough == ApprovalsSpec => []ApprovedByEnough
  <1>1. ApprovalsTyped /\ ApproversOK => ApprovedByEnough
    BY DEF ApproversOK, RequestOK, ApprovedByEnough
  <1>2. ApprovalsInit => ApprovalsTyped /\ ApproversOK
    BY ApprovalsTypedInit, ApproversOKInit
  <1>3. (ApprovalsTyped /\ ApproversOK) /\ [ApprovalsNext]_approvalsVars => (ApprovalsTyped /\ ApproversOK)'
    BY ApprovalsTypedInductive, ApproversOKInductive
  <1> QED BY <1>1, <1>2, <1>3, PTL DEF ApprovalsSpec

\* With one approver a decision is overwritten by the other calls at most, once each: those that
\* read the request while it was pending (approval_gates.py, approve, reject and cancel).
THEOREM ApprovalsOverwritten == ApprovalsSpec => []DecisionOverwrittenBounded
  <1>1. ApprovalsTyped /\ OverwrittenInv => DecisionOverwrittenBounded
    <2> SUFFICES ASSUME ApprovalsTyped, OverwrittenInv, request.required = 1
                 PROVE  overwritten <= Cardinality(GateCalls) - 1
      BY DEF DecisionOverwrittenBounded
    <2>1. Cardinality(GateCalls) \in Nat /\ Cardinality(GateCalls) # 0
      BY ApprovalsAssumption, FS_CardinalityType, FS_EmptySet
    <2>2. Cardinality(InFlight(gateCall)) \in Nat /\ overwritten \in Nat
      BY InFlightFinite DEF ApprovalsTyped
    <2> QED BY <2>1, <2>2 DEF OverwrittenInv
  <1>2. ApprovalsInit => ApprovalsTyped /\ OverwrittenInv
    BY ApprovalsTypedInit, OverwrittenInvInit
  <1>3. (ApprovalsTyped /\ OverwrittenInv) /\ [ApprovalsNext]_approvalsVars => (ApprovalsTyped /\ OverwrittenInv)'
    BY ApprovalsTypedInductive, OverwrittenInvInductive
  <1> QED BY <1>1, <1>2, <1>3, PTL DEF ApprovalsSpec

\* Calls that overlap execute a runbook 1 + 2 + ... + n times in a minute and not more often, for
\* any number n of calls and any cooldown (ops_assistant.py, execute_runbook).
THEOREM ApprovalsOvershoot == ApprovalsSpec => []CooldownOvershoot
  <1> DEFINE Inv == ApprovalsTyped /\ (Cooldown > 0 => CooldownInv)
  <1>1. Inv => CooldownOvershoot
    BY CooldownInvBounds DEF CooldownOvershoot
  <1>2. ApprovalsInit => Inv
    BY ApprovalsTypedInit, CooldownInvInit
  <1>3. Inv /\ [ApprovalsNext]_approvalsVars => Inv'
    <2>1. CASE Cooldown > 0
      BY <2>1, ApprovalsTypedInductive, CooldownInvInductive
    <2>2. CASE ~(Cooldown > 0)
      BY <2>2, ApprovalsTypedInductive
    <2> QED BY <2>1, <2>2
  <1> HIDE DEF Inv
  <1> QED BY <1>1, <1>2, <1>3, PTL DEF ApprovalsSpec
===============================================================================
