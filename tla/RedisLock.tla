------------------------------ MODULE RedisLock ------------------------------
(***************************************************************************)
(* distributed_lock of app/storage/redis.py, for one lock key: SET NX EX   *)
(* with a limited number of attempts, and a release that is a GET, a       *)
(* comparison and a DEL.  Each Redis command is one step.                  *)
(*                                                                         *)
(* The value a process writes is "<task name>:<id of the task object>",    *)
(* which two worker processes may share: LockValue need not be injective.  *)
(***************************************************************************)
EXTENDS Naturals, FiniteSets

CONSTANTS Procs,      \* worker processes, each in one task at a time
          LockValue,  \* what each of them writes
          Absent,     \* the value of a key that is not set
          Nobody,     \* not a process
          Ttl,        \* timeout=300
          MaxHold,    \* how long a task may run before it is killed
          MaxTries    \* max_retries=50

ASSUME LockAssumption ==
    /\ Nobody \notin Procs /\ IsFiniteSet(Procs)
    /\ \A p \in Procs : LockValue[p] # Absent
    /\ Ttl \in Nat \ {0} /\ MaxHold \in Nat /\ MaxTries \in Nat \ {0}

VARIABLES value,   \* of the key
          ttl,     \* what the key has left to live; 0 is for ever
          stage,   \* per process: where it is in distributed_lock
          age,     \* per process: how long its task has been running
          tries,   \* per process: failed attempts
          setter,  \* history: who set the key
          lapses   \* history: keys that expired while their setter was inside

vars == << value, ttl, stage, age, tries, setter, lapses >>

Stages == { "idle", "trying", "inside", "compare", "delete" }

\* A process is in the critical section until its release is over.
Critical(p) == stage[p] \in { "inside", "compare", "delete" }
Section == { p \in Procs : Critical(p) }

TypeOK ==
    /\ value \in { LockValue[p] : p \in Procs } \cup {Absent}
    /\ ttl \in 0 .. Ttl
    /\ stage \in [ Procs -> Stages ]
    /\ age \in [ Procs -> 0 .. MaxHold ]
    /\ tries \in [ Procs -> 0 .. MaxTries ]
    /\ setter \in Procs \cup {Nobody}
    /\ lapses \in 0 .. Cardinality(Procs)

Unset == value' = Absent /\ ttl' = 0 /\ setter' = Nobody

\* The time and the attempts of a task count from its start.
Goto(p, s) ==
    /\ stage' = [ stage EXCEPT ![p] = s ]
    /\ age' = [ age EXCEPT ![p] = IF s = "idle" THEN 0 ELSE @ ]
Tried(p, n) == tries' = [ tries EXCEPT ![p] = n ]

-----------------------------------------------------------------------------

Start(p) ==
    /\ stage[p] = "idle"
    /\ Goto(p, "trying")
    /\ UNCHANGED << value, ttl, tries, setter, lapses >>

\* Mutant: the key is set whether it is there or not.
TrySet_NoNx(p) ==
    /\ stage[p] = "trying"
    /\ value' = LockValue[p] /\ ttl' = Ttl /\ setter' = p
    /\ Goto(p, "inside") /\ Tried(p, 0)
    /\ UNCHANGED lapses

\* Mutant: the key is set without a time to live.
TrySet_NoEx(p) ==
    /\ stage[p] = "trying" /\ value = Absent
    /\ value' = LockValue[p] /\ ttl' = 0 /\ setter' = p
    /\ Goto(p, "inside") /\ Tried(p, 0)
    /\ UNCHANGED lapses

\* SET NX EX succeeds.
TrySet(p) ==
    /\ stage[p] = "trying" /\ value = Absent
    /\ value' = LockValue[p] /\ ttl' = Ttl /\ setter' = p
    /\ Goto(p, "inside") /\ Tried(p, 0)
    /\ UNCHANGED lapses

\* Mutant: the attempts are not counted.
Retry_Uncounted(p) ==
    /\ stage[p] = "trying" /\ value # Absent
    /\ UNCHANGED vars

\* Mutant: the release does not ask whether the lock was acquired.
Retry_ReleasesAnyway(p) ==
    LET last == tries[p] + 1 = MaxTries
    IN  /\ stage[p] = "trying" /\ value # Absent
        /\ Tried(p, IF last THEN 0 ELSE tries[p] + 1)
        /\ Goto(p, IF last THEN "compare" ELSE "trying")
        /\ UNCHANGED << value, ttl, setter, lapses >>

\* Mutant: the task goes on with False as with True.
Retry_EntersAnyway(p) ==
    LET last == tries[p] + 1 = MaxTries
    IN  /\ stage[p] = "trying" /\ value # Absent
        /\ Tried(p, IF last THEN 0 ELSE tries[p] + 1)
        /\ Goto(p, IF last THEN "inside" ELSE "trying")
        /\ UNCHANGED << value, ttl, setter, lapses >>

\* SET NX EX fails; the last failure yields False and the task returns.
Retry(p) ==
    LET last == tries[p] + 1 = MaxTries
    IN  /\ stage[p] = "trying" /\ value # Absent
        /\ Tried(p, IF last THEN 0 ELSE tries[p] + 1)
        /\ Goto(p, IF last THEN "idle" ELSE "trying")
        /\ UNCHANGED << value, ttl, setter, lapses >>

\* The body is over, by its end or by an exception.
Exit(p) ==
    /\ stage[p] = "inside"
    /\ Goto(p, "compare")
    /\ UNCHANGED << value, ttl, tries, setter, lapses >>

\* GET, and the comparison of what it returns.
Compare(p) ==
    /\ stage[p] = "compare"
    /\ Goto(p, IF value = LockValue[p] THEN "delete" ELSE "idle")
    /\ UNCHANGED << value, ttl, tries, setter, lapses >>

Delete(p) ==
    /\ stage[p] = "delete"
    /\ Unset
    /\ Goto(p, "idle")
    /\ UNCHANGED << tries, lapses >>

\* The worker is lost or killed; Redis keeps the key.
Kill(p) ==
    /\ stage[p] # "idle"
    /\ Goto(p, "idle") /\ Tried(p, 0)
    /\ UNCHANGED << value, ttl, setter, lapses >>

\* The lapses are counted up to the number of processes.
Lapsed == IF Critical(setter) /\ lapses < Cardinality(Procs) THEN lapses + 1 ELSE lapses

\* Time passes for the tasks that run and for the key.  No task gets older than
\* MaxHold: it ends or is killed before.
Tick ==
    /\ value # Absent \/ \E p \in Procs : stage[p] # "idle"
    /\ \A p \in Procs : stage[p] # "idle" => age[p] < MaxHold
    /\ age' = [ p \in Procs |-> IF stage[p] = "idle" THEN age[p] ELSE age[p] + 1 ]
    /\ \/ ttl = 0 /\ UNCHANGED << value, ttl, setter, lapses >>
       \/ ttl > 1 /\ ttl' = ttl - 1 /\ UNCHANGED << value, setter, lapses >>
       \/ ttl = 1 /\ Unset /\ lapses' = Lapsed
    /\ UNCHANGED << stage, tries >>

-----------------------------------------------------------------------------
Init ==
    /\ value = Absent /\ ttl = 0 /\ setter = Nobody /\ lapses = 0
    /\ stage = [ p \in Procs |-> "idle" ]
    /\ age = [ p \in Procs |-> 0 ]
    /\ tries = [ p \in Procs |-> 0 ]

\* What a process does by itself once it has started.
Step(p) == TrySet(p) \/ Retry(p) \/ Exit(p) \/ Compare(p) \/ Delete(p)

Next == Tick \/ \E p \in Procs : Start(p) \/ Step(p) \/ Kill(p)

\* Time passes, and a process that is not killed goes on.
Spec == Init /\ [][Next]_vars
FairSpec == Spec /\ WF_vars(Tick) /\ \A p \in Procs : WF_vars(Step(p))

-----------------------------------------------------------------------------
(* Properties *)

\* Between acquisition and release there are as many tasks beyond the first as
\* keys have expired under a task, and no more: a release that deletes the key
\* of another lets one in as it goes itself.
SectionBounded == Cardinality(Section) <= 1 + lapses

\* "Only release if we still own the lock": a process about to DEL the key does
\* not find one that another process has set after its own expired.  The code
\* breaks it.
OnlyOwnKeyDeleted ==
    \A p \in Procs : stage[p] = "delete" => setter \in { p, Nobody }

\* It breaks it no earlier than a key expires under its holder, also if the
\* processes write the same value and though GET and DEL are two commands.
OwnKeyDeletedUntilLapse == lapses = 0 => OnlyOwnKeyDeleted

\* A key is not there for ever, also if its setter died.
KeyGoes == value # Absent ~> value = Absent

\* Whoever asks for the lock is answered, with True or with False.
Answered == \A p \in Procs : stage[p] = "trying" ~> stage[p] # "trying"

\* The lock is a lease.
L == INSTANCE Lease WITH holder <- setter, inside <- Section, outstayed <- lapses > 0
IsLease == L!LeaseSpec
=============================================================================
