------------------------------ MODULE ChaosDrills ------------------------------
(***************************************************************************)
(* Chaos drills (app/services/chaos_drills.py): start_drill looks for the  *)
(* marker of a running drill, sets it, sets the injection flag of its type *)
(* for some seconds, deletes both and only then stores the execution.      *)
(* stop_drill wants the marker and a stored execution.                     *)
(***************************************************************************)
EXTENDS Integers, Sequences, FiniteSets

CONSTANTS
    Drillers,       \* API calls that may overlap
    DrillTypes,
    MaxDrills,      \* bound: drills started
    MaxDrillCrashes \* bound: processes lost during a call

ASSUME DrillsAssumption == MaxDrills \in Nat \ {0} /\ MaxDrillCrashes \in Nat

DrillIds == 1 .. MaxDrills
DrillIdle == [op |-> "idle", id |-> 0, stop |-> FALSE]

VARIABLES
    activeDrill,    \* chaos:active, 0 for no key
    injections,     \* the keys chaos:inject:{type} that are set
    executions,     \* the stored executions
    kinds,          \* the type of each drill started so far
    drillCall,      \* the calls in flight
    drillCrashes    \* bound

drillsVars == << activeDrill, injections, executions, kinds, drillCall, drillCrashes >>

DrillsInit ==
    /\ activeDrill = 0 /\ injections = {} /\ executions = {} /\ kinds = << >>
    /\ drillCall = [c \in Drillers |-> DrillIdle]
    /\ drillCrashes = 0

DrillGoes(c, w) == drillCall' = [drillCall EXCEPT ![c] = w]
DrillRunning(c) == drillCall[c].op # "idle" /\ ~drillCall[c].stop
-----------------------------------------------------------------------------
(* start_drill finds no marker, *)
StartDrill(c, type) ==
    /\ drillCall[c] = DrillIdle /\ activeDrill = 0 /\ Len(kinds) < MaxDrills
    /\ kinds' = Append(kinds, type)
    /\ DrillGoes(c, [op |-> "mark", id |-> Len(kinds) + 1, stop |-> FALSE])
    /\ UNCHANGED << activeDrill, injections, executions, drillCrashes >>

(* sets its own, whoever else did so meanwhile, *)
MarkActive(c) ==
    /\ drillCall[c].op = "mark"
    /\ activeDrill' = drillCall[c].id
    /\ DrillGoes(c, [drillCall[c] EXCEPT !.op = "inject"])
    /\ UNCHANGED << injections, executions, kinds, drillCrashes >>

(* injects and sleeps, *)
Inject(c) ==
    /\ drillCall[c].op = "inject"
    /\ injections' = injections \cup { kinds[drillCall[c].id] }
    /\ DrillGoes(c, [drillCall[c] EXCEPT !.op = "remove"])
    /\ UNCHANGED << activeDrill, executions, kinds, drillCrashes >>

(* stop_drill reads the marker, then looks the execution up among the last  *)
(* hundred; without one it answers None. *)
StopDrill(c, id) ==
    /\ drillCall[c] = DrillIdle /\ activeDrill = id
    /\ DrillGoes(c, [op |-> "find", id |-> id, stop |-> TRUE])
    /\ UNCHANGED << activeDrill, injections, executions, kinds, drillCrashes >>

GetExecution(c) ==
    LET id == drillCall[c].id
    IN  /\ drillCall[c].op = "find"
        /\ DrillGoes(c, IF \E e \in executions : e.id = id
                        THEN [drillCall[c] EXCEPT !.op = "remove"] ELSE DrillIdle)
        /\ UNCHANGED << activeDrill, injections, executions, kinds, drillCrashes >>

\* Mutant: the flag is deleted by the drill that has the marker only.
RemoveInjection_IfActive(c) ==
    /\ drillCall[c].op = "remove"
    /\ injections' = IF activeDrill = drillCall[c].id
                     THEN injections \ { kinds[drillCall[c].id] } ELSE injections
    /\ DrillGoes(c, [drillCall[c] EXCEPT !.op = "clear"])
    /\ UNCHANGED << activeDrill, executions, kinds, drillCrashes >>

(* Both end alike: the flag of the type is deleted, then the marker, *)
(* whosever they are, then the execution is stored. *)
RemoveInjection(c) ==
    /\ drillCall[c].op = "remove"
    /\ injections' = injections \ { kinds[drillCall[c].id] }
    /\ DrillGoes(c, [drillCall[c] EXCEPT !.op = "clear"])
    /\ UNCHANGED << activeDrill, executions, kinds, drillCrashes >>

ClearActive(c) ==
    /\ drillCall[c].op = "clear"
    /\ activeDrill' = 0
    /\ DrillGoes(c, [drillCall[c] EXCEPT !.op = "store"])
    /\ UNCHANGED << injections, executions, kinds, drillCrashes >>

StoreExecution(c) ==
    LET w == drillCall[c]
    IN  /\ w.op = "store"
        /\ executions' = executions \cup
                { [id |-> w.id, status |-> IF w.stop THEN "cancelled" ELSE "completed"] }
        /\ DrillGoes(c, DrillIdle)
        /\ UNCHANGED << activeDrill, injections, kinds, drillCrashes >>

DrillCrash(c) ==
    /\ drillCall[c] # DrillIdle /\ drillCrashes < MaxDrillCrashes
    /\ DrillGoes(c, DrillIdle) /\ drillCrashes' = drillCrashes + 1
    /\ UNCHANGED << activeDrill, injections, executions, kinds >>

(* The keys outlive the call that set them (duration_seconds and more, for  *)
(* a sleep of at most 5 s), but not its loss. *)
ActiveExpires ==
    /\ activeDrill # 0 /\ \A c \in Drillers : DrillRunning(c) => drillCall[c].id # activeDrill
    /\ activeDrill' = 0
    /\ UNCHANGED << injections, executions, kinds, drillCall, drillCrashes >>

InjectionExpires(type) ==
    /\ type \in injections
    /\ \A c \in Drillers : DrillRunning(c) => kinds[drillCall[c].id] # type
    /\ injections' = injections \ { type }
    /\ UNCHANGED << activeDrill, executions, kinds, drillCall, drillCrashes >>

DrillsNext ==
    \/ \E c \in Drillers :
        \/ \E type \in DrillTypes : StartDrill(c, type)
        \/ \E id \in DrillIds : StopDrill(c, id)
        \/ MarkActive(c) \/ Inject(c) \/ GetExecution(c) \/ RemoveInjection(c)
        \/ ClearActive(c) \/ StoreExecution(c) \/ DrillCrash(c)
    \/ ActiveExpires
    \/ \E type \in DrillTypes : InjectionExpires(type)

DrillsTypeOK ==
    /\ kinds \in Seq(DrillTypes) /\ activeDrill \in 0 .. Len(kinds)
    /\ injections \subseteq DrillTypes
    /\ executions \subseteq [id : 1 .. Len(kinds), status : { "completed", "cancelled" }]
    /\ \A c \in Drillers : drillCall[c].id \in 0 .. Len(kinds)

(* The flags whose drill is past its injection and yet to remove it. *)
Injecting == { kinds[drillCall[c].id] : c \in { d \in Drillers : DrillRunning(d) /\ drillCall[d].op = "remove" } }

(* A drill leaves nothing behind it unless its process is lost or raises:   *)
(* though two drills may both find no marker, overwrite each other's and    *)
(* delete each other's marker and flag, every flag that is set belongs to a *)
(* drill that will still remove it, but for one per lost process, and the   *)
(* marker names a drill that will still delete it.                          *)
NothingLeftBehind ==
    /\ Cardinality(injections \ Injecting) <= drillCrashes
    /\ activeDrill # 0 /\ drillCrashes = 0 =>
            \E c \in Drillers : /\ DrillRunning(c) /\ drillCall[c].id = activeDrill
                               /\ drillCall[c].op \in { "inject", "remove", "clear" }

DrillsSpec == DrillsInit /\ [][DrillsNext]_drillsVars
=============================================================================
