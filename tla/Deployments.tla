----------------------------- MODULE Deployments -----------------------------
(***************************************************************************)
(* Deployment plans (app/services/deployment_safety.py): a plan runs its   *)
(* checks and is stored as a member of a sorted set, scored by its time of *)
(* creation, and as the current plan of its environment.  An approval      *)
(* stores the changed plan beside the old member, which nothing removes.   *)
(***************************************************************************)
EXTENDS Integers, Sequences, FiniteSets

CONSTANTS
    Deployers,      \* API calls that may overlap
    MaxPlans,       \* bound: plans
    MaxApprovals,   \* bound: approvals stored
    HistoryLimit    \* the members get_plan looks through, 100

ASSUME DeploymentsAssumption ==
    MaxPlans \in Nat \ {0} /\ MaxApprovals \in Nat /\ HistoryLimit \in Nat \ {0}

PlanIds == 1 .. MaxPlans

(* The checks in their order, each with what it can find. *)
CheckOrder == << "tests", "migrations", "dependencies", "config", "capacity", "timing", "rollback" >>
Finds ==
    [tests |-> { "failed", "warning", "passed" }, migrations |-> { "failed", "warning", "passed" },
     dependencies |-> { "failed", "warning", "passed" }, config |-> { "failed", "warning", "passed" },
     capacity |-> { "warning", "passed" }, timing |-> { "failed", "warning", "passed" },
     rollback |-> { "warning", "passed" }]

NoPlan == [id |-> 0, status |-> "none", clean |-> TRUE]
DeployIdle == [op |-> "idle", check |-> 1, plan |-> NoPlan]

VARIABLES
    planHistory,    \* deployments:history, with the order of storing
    currentPlan,    \* deployments:current:{environment}
    deployCall,     \* the calls in flight
    plans           \* plans created, in the order of created_at

deploymentsVars == << planHistory, currentPlan, deployCall, plans >>

DeploymentsInit ==
    /\ planHistory = {} /\ currentPlan = NoPlan /\ plans = 0
    /\ deployCall = [c \in Deployers |-> DeployIdle]

DeployGoes(c, w) == deployCall' = [deployCall EXCEPT ![c] = w]
-----------------------------------------------------------------------------
(* ZREVRANGE: by created_at, and members with the same score in the reverse *)
(* of their alphabetical order, where status is the first field to differ.  *)
Before(e, f) ==
    LET alphabet == [approved |-> 1, pending |-> 2, rejected |-> 3]
    IN  \/ e.plan.id > f.plan.id
        \/ e.plan.id = f.plan.id /\ alphabet[e.plan.status] > alphabet[f.plan.status]

(* get_plan: the first member of the plan among the first HistoryLimit.     *)
GetPlan(id) ==
    { e.plan : e \in { x \in planHistory :
        /\ x.plan.id = id
        /\ \A y \in planHistory : y.plan.id = id => ~Before(y, x)
        /\ Cardinality({ y \in planHistory : Before(y, x) }) < HistoryLimit } }

(* create_deployment_plan takes the time, runs the checks one by one, *)
CreatePlan(c) ==
    /\ deployCall[c] = DeployIdle /\ plans < MaxPlans
    /\ plans' = plans + 1
    /\ DeployGoes(c, [op |-> "checking", check |-> 1, plan |-> [NoPlan EXCEPT !.id = plans + 1]])
    /\ UNCHANGED << planHistory, currentPlan >>

RunCheck(c, found) ==
    LET w == deployCall[c]
        last == w.check = Len(CheckOrder)
        clean == w.plan.clean /\ found # "failed"
    IN  /\ w.op = "checking" /\ found \in Finds[CheckOrder[w.check]]
        /\ DeployGoes(c, IF ~last THEN [w EXCEPT !.check = @ + 1, !.plan.clean = clean]
                         ELSE [DeployIdle EXCEPT !.op = "store",
                                    !.plan = [w.plan EXCEPT !.clean = clean,
                                              !.status = IF clean THEN "pending" ELSE "rejected"]])
        /\ UNCHANGED << planHistory, currentPlan, plans >>

(* and _store_plan adds a member, then sets the current plan. *)
StorePlan(c) ==
    LET w == deployCall[c]
    IN  /\ w.op = "store"
        /\ planHistory' = planHistory \cup { [plan |-> w.plan, nth |-> Cardinality(planHistory) + 1] }
        /\ DeployGoes(c, [w EXCEPT !.op = "set_current"])
        /\ UNCHANGED << currentPlan, plans >>

SetCurrent(c) ==
    /\ deployCall[c].op = "set_current"
    /\ currentPlan' = deployCall[c].plan
    /\ DeployGoes(c, DeployIdle)
    /\ UNCHANGED << planHistory, plans >>

\* Mutant: the status of the plan is not looked at.
ApproveDeployment_AnyStatus(c, id) ==
    /\ deployCall[c] = DeployIdle
    /\ Cardinality({ e \in planHistory : e.plan.status = "approved" }) < MaxApprovals
    /\ \E plan \in GetPlan(id) :
            DeployGoes(c, [DeployIdle EXCEPT !.op = "store", !.plan = [plan EXCEPT !.status = "approved"]])
    /\ UNCHANGED << planHistory, currentPlan, plans >>

(* approve_deployment finds the plan, which must be PENDING. *)
ApproveDeployment(c, id) ==
    /\ deployCall[c] = DeployIdle
    /\ Cardinality({ e \in planHistory : e.plan.status = "approved" }) < MaxApprovals
    /\ \E plan \in GetPlan(id) :
        /\ plan.status = "pending"
        /\ DeployGoes(c, [DeployIdle EXCEPT !.op = "store", !.plan = [plan EXCEPT !.status = "approved"]])
    /\ UNCHANGED << planHistory, currentPlan, plans >>

(* The current plan lives for a day. *)
CurrentExpires ==
    /\ currentPlan # NoPlan
    /\ currentPlan' = NoPlan
    /\ UNCHANGED << planHistory, deployCall, plans >>

DeploymentsNext ==
    \/ \E c \in Deployers :
        \/ CreatePlan(c) \/ StorePlan(c) \/ SetCurrent(c)
        \/ \E found \in { "failed", "warning", "passed" } : RunCheck(c, found)
        \/ \E id \in PlanIds : ApproveDeployment(c, id)
    \/ CurrentExpires

PlanDocs == [id : 0 .. MaxPlans, status : { "none", "pending", "rejected", "approved" }, clean : BOOLEAN]

DeploymentsTypeOK ==
    /\ \A e \in planHistory : e.plan \in PlanDocs /\ e.nth \in Nat
    /\ currentPlan \in PlanDocs /\ plans \in 0 .. MaxPlans
    /\ deployCall \in [Deployers -> [op : { "idle", "checking", "store", "set_current" },
                                     check : DOMAIN CheckOrder, plan : PlanDocs]]

(* Whichever calls overlap and overwrite each other's current plan: a plan  *)
(* that is approved, in the history or as the current one, has passed every *)
(* check, and the history tells how: a member from before says that it was  *)
(* pending, and an approved current plan is a member as well. *)
ApprovedPlansPassed ==
    \A p \in { e.plan : e \in planHistory } \cup { currentPlan } : p.status = "approved" =>
        /\ p.clean
        /\ \E e, f \in planHistory :
              /\ e.plan = [p EXCEPT !.status = "pending"] /\ f.plan = p
              /\ e.nth < f.nth

DeploymentsSpec == DeploymentsInit /\ [][DeploymentsNext]_deploymentsVars
=============================================================================
