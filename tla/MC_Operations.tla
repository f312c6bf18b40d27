----------------------------- MODULE MC_Operations -----------------------------
(* The operations services in one run: approvals, governance, guards,       *)
(* deployments, failed jobs, chaos drills and signed backups.  They share   *)
(* no state, so each behaviour is one of one service, chosen at the start,  *)
(* and the numbers of states add up.  Approvals are explored in two halves, *)
(* gates and runbooks.                                                      *)
EXTENDS Approvals, Governance, Guards, Deployments, Jobs, ChaosDrills,
        SignedBackups, TLC

VARIABLE service

Services == { "gates", "runbooks", "governance", "guards", "deployments", "jobs",
              "drills", "backups" }
operationsVars == << approvalsVars, governanceVars, guardsVars, deploymentsVars,
                     jobsVars, drillsVars, backupsVars, service >>

OperationsInit ==
    /\ service \in Services
    /\ ApprovalsInit /\ GovernanceInit
    /\ GuardsInit /\ DeploymentsInit /\ JobsInit /\ DrillsInit /\ BackupsInit
    \* of a service that is not chosen one initial state is enough
    /\ service = "governance" \/ (~sandbox /\ ~trusted)

(* One of S is the chosen service; the others do not move. *)
On(S) == service \in S /\ UNCHANGED service

OthersStay ==
    /\ IF service \in { "gates", "runbooks" } THEN TRUE ELSE UNCHANGED approvalsVars
    /\ IF service = "governance" THEN TRUE ELSE UNCHANGED governanceVars
    /\ IF service = "guards" THEN TRUE ELSE UNCHANGED guardsVars
    /\ IF service = "deployments" THEN TRUE ELSE UNCHANGED deploymentsVars
    /\ IF service = "jobs" THEN TRUE ELSE UNCHANGED jobsVars
    /\ IF service = "drills" THEN TRUE ELSE UNCHANGED drillsVars
    /\ IF service = "backups" THEN TRUE ELSE UNCHANGED backupsVars

ApprovalsStep ==
    \/ On({ "gates" }) /\ InitializeDefaults /\ OthersStay
    \/ On({ "gates" }) /\ Expires /\ OthersStay
    \/ \E k \in Categories : On({ "gates" }) /\ RequestApproval(k) /\ OthersStay
    \/ \E c \in GateCalls, op \in { "approve", "reject", "cancel" }, a \in Actors :
            On({ "gates" }) /\ GetRequest(c, op, a) /\ OthersStay
    \/ \E c \in GateCalls : On({ "gates" }) /\ SetExpired(c) /\ OthersStay
    \/ \E c \in GateCalls : On({ "gates" }) /\ RecordDecision(c) /\ OthersStay
    \/ \E c \in GateCalls : On({ "gates" }) /\ SetApproved(c) /\ OthersStay
    \/ \E c \in GateCalls : On({ "gates" }) /\ SetRejected(c) /\ OthersStay
    \/ \E c \in GateCalls : On({ "gates" }) /\ SetCancelled(c) /\ OthersStay
    \/ \E c \in GateCalls : On({ "runbooks" }) /\ StartRunbook(c) /\ OthersStay
    \/ \E c \in GateCalls : On({ "runbooks" }) /\ FinishRunbook(c) /\ OthersStay
    \/ On({ "runbooks" }) /\ Minute /\ OthersStay

GovernanceStep ==
    \/ \E t \in ApprovalTypes : On({ "governance" }) /\ CreateLifecycleEntry(t) /\ OthersStay
    \/ \E ok \in BOOLEAN : On({ "governance" }) /\ RunSandboxTest(ok) /\ OthersStay
    \/ \E ok \in BOOLEAN : On({ "governance" }) /\ CalculateTrustScore(ok) /\ OthersStay
    \/ \E g \in Governors, s \in LifecycleStates : On({ "governance" }) /\ TransitionState(g, s) /\ OthersStay
    \/ \E g \in Governors : On({ "governance" }) /\ AskApproval(g) /\ OthersStay
    \/ \E g \in Governors : On({ "governance" }) /\ SetEntry(g) /\ OthersStay
    \/ \E g \in Governors : On({ "governance" }) /\ ReadType(g) /\ OthersStay
    \/ \E g \in Governors : On({ "governance" }) /\ SetRequestOf(g) /\ OthersStay
    \/ \E g \in Governors, op \in { "approve", "reject" } : On({ "governance" }) /\ ReadAsked(g, op) /\ OthersStay
    \/ \E g \in Governors : On({ "governance" }) /\ SetApproval(g) /\ OthersStay
    \/ \E g \in Governors : On({ "governance" }) /\ SetRejection(g) /\ OthersStay
    \/ \E g \in Governors : On({ "governance" }) /\ ReadEntry(g) /\ OthersStay
    \/ \E g \in Governors : On({ "governance" }) /\ SetReason(g) /\ OthersStay
    \/ \E g \in Governors, gate \in Gates : On({ "governance" }) /\ CheckGate(g, gate) /\ OthersStay
    \/ \E g \in Governors, conflicts \in BOOLEAN : On({ "governance" }) /\ SetPromotion(g, conflicts) /\ OthersStay
    \/ \E g \in Governors, force \in BOOLEAN : On({ "governance" }) /\ ReadPromotion(g, force) /\ OthersStay
    \/ \E g \in Governors : On({ "governance" }) /\ SetPromoted(g) /\ OthersStay
    \/ \E g \in Governors : On({ "governance" }) /\ Activate(g) /\ OthersStay

GuardsStep ==
    \/ \E c \in GuardCalls, i \in GuardIds : On({ "guards" }) /\ FindGuard(c, i) /\ OthersStay
    \/ \E c \in GuardCalls, matching \in SUBSET GuardIds : On({ "guards" }) /\ CheckGuard(c, matching) /\ OthersStay
    \/ \E c \in GuardCalls : On({ "guards" }) /\ LogViolation(c) /\ OthersStay
    \/ \E c \in GuardCalls : On({ "guards" }) /\ SetGuard(c) /\ OthersStay
    \/ \E c \in GuardCalls, i \in GuardIds, on \in BOOLEAN : On({ "guards" }) /\ ToggleGuard(c, i, on) /\ OthersStay
    \/ \E c \in GuardCalls : On({ "guards" }) /\ SetToggled(c) /\ OthersStay

DeploymentsStep ==
    \/ \E c \in Deployers : On({ "deployments" }) /\ CreatePlan(c) /\ OthersStay
    \/ \E c \in Deployers, found \in { "failed", "warning", "passed" } :
            On({ "deployments" }) /\ RunCheck(c, found) /\ OthersStay
    \/ \E c \in Deployers : On({ "deployments" }) /\ StorePlan(c) /\ OthersStay
    \/ \E c \in Deployers : On({ "deployments" }) /\ SetCurrent(c) /\ OthersStay
    \/ \E c \in Deployers, id \in PlanIds : On({ "deployments" }) /\ ApproveDeployment(c, id) /\ OthersStay
    \/ On({ "deployments" }) /\ CurrentExpires /\ OthersStay

JobsStep ==
    \/ \E n \in 0 .. MaxRetries : On({ "jobs" }) /\ RecordFailedJob(n) /\ OthersStay
    \/ \E c \in JobCalls : On({ "jobs" }) /\ ReadToRetry(c) /\ OthersStay
    \/ \E c \in JobCalls : On({ "jobs" }) /\ SetRetrying(c) /\ OthersStay
    \/ \E c \in JobCalls, ok \in BOOLEAN : On({ "jobs" }) /\ QueueRetry(c, ok) /\ OthersStay
    \/ \E c \in JobCalls : On({ "jobs" }) /\ ReadToCancel(c) /\ OthersStay
    \/ \E c \in JobCalls : On({ "jobs" }) /\ SetCancelledJob(c) /\ OthersStay

DrillsStep ==
    \/ \E c \in Drillers, type \in DrillTypes : On({ "drills" }) /\ StartDrill(c, type) /\ OthersStay
    \/ \E c \in Drillers, id \in DrillIds : On({ "drills" }) /\ StopDrill(c, id) /\ OthersStay
    \/ \E c \in Drillers : On({ "drills" }) /\ MarkActive(c) /\ OthersStay
    \/ \E c \in Drillers : On({ "drills" }) /\ Inject(c) /\ OthersStay
    \/ \E c \in Drillers : On({ "drills" }) /\ GetExecution(c) /\ OthersStay
    \/ \E c \in Drillers : On({ "drills" }) /\ RemoveInjection(c) /\ OthersStay
    \/ \E c \in Drillers : On({ "drills" }) /\ ClearActive(c) /\ OthersStay
    \/ \E c \in Drillers : On({ "drills" }) /\ StoreExecution(c) /\ OthersStay
    \/ \E c \in Drillers : On({ "drills" }) /\ DrillCrash(c) /\ OthersStay
    \/ On({ "drills" }) /\ ActiveExpires /\ OthersStay
    \/ \E type \in DrillTypes : On({ "drills" }) /\ InjectionExpires(type) /\ OthersStay

BackupsStep ==
    \/ \E c \in BackupCalls : On({ "backups" }) /\ CreateBackup(c) /\ OthersStay
    \/ \E c \in BackupCalls : On({ "backups" }) /\ GetSigningKey(c) /\ OthersStay
    \/ \E c \in BackupCalls : On({ "backups" }) /\ SetSigningKey(c) /\ OthersStay
    \/ \E c \in BackupCalls : On({ "backups" }) /\ StoreManifest(c) /\ OthersStay
    \/ \E c \in BackupCalls : On({ "backups" }) /\ StoreData(c) /\ OthersStay
    \/ \E c \in BackupCalls, id \in BackupIds : On({ "backups" }) /\ VerifyBackup(c, id) /\ OthersStay
    \/ \E c \in BackupCalls : On({ "backups" }) /\ CheckData(c) /\ OthersStay
    \/ \E c \in BackupCalls : On({ "backups" }) /\ ChecksumDiffers(c) /\ OthersStay
    \/ \E c \in BackupCalls : On({ "backups" }) /\ VerifySignature(c) /\ OthersStay
    \/ \E c \in BackupCalls, id \in BackupIds : On({ "backups" }) /\ DeleteBackup(c, id) /\ OthersStay
    \/ \E c \in BackupCalls : On({ "backups" }) /\ DeleteManifest(c) /\ OthersStay
    \/ \E c \in BackupCalls : On({ "backups" }) /\ DeleteData(c) /\ OthersStay
    \/ \E c \in BackupCalls : On({ "backups" }) /\ BackupCrash(c) /\ OthersStay
    \/ \E id \in BackupIds : On({ "backups" }) /\ DataExpires(id) /\ OthersStay
    \/ \E id \in BackupIds : On({ "backups" }) /\ DataAltered(id) /\ OthersStay

OperationsNext ==
    \/ ApprovalsStep \/ GovernanceStep \/ GuardsStep
    \/ DeploymentsStep \/ JobsStep \/ DrillsStep \/ BackupsStep
OperationsSpec == OperationsInit /\ [][OperationsNext]_operationsVars

(* The type invariants of the services. *)
OperationsTypeOK ==
    CASE service \in { "gates", "runbooks" } -> ApprovalsTypeOK
      [] service = "governance" -> GovernanceTypeOK
      [] service = "guards" -> GuardsTypeOK
      [] service = "deployments" -> DeploymentsTypeOK
      [] service = "jobs" -> JobsTypeOK
      [] service = "drills" -> DrillsTypeOK
      [] service = "backups" -> BackupsTypeOK

(* Every service has its sets of actors from the same two sets, so that few *)
(* permutations serve all of them. *)
Symmetry == Permutations(Actors) \cup Permutations(GateCalls)
=============================================================================
