--------------------------- MODULE RedisLock_proof ---------------------------
(***************************************************************************)
(* Proofs about RedisLock, for any finite number of processes, any values  *)
(* they write, the same or not, and any times: a task may hold the lock    *)
(* for longer than the key lives.                                          *)
(***************************************************************************)
EXTENDS RedisLock, FiniteSetTheorems, TLAPS

-----------------------------------------------------------------------------
(* Types *)

\* TypeOK is not inductive by itself: a process has an attempt left.
AttemptLeft == \A p \in Procs : tries[p] < MaxTries

TypeInv == TypeOK /\ AttemptLeft

\* No step of a client, of the clock or of Redis leaves the types.
LEMMA TypeInvInductive == TypeInv /\ [Next]_vars => TypeInv'
  <1> SUFFICES ASSUME TypeInv, [Next]_vars PROVE TypeInv'
    OBVIOUS
  <1>0. Cardinality(Procs) \in Nat
    BY LockAssumption, FS_CardinalityType
  <1> USE LockAssumption DEF TypeInv, TypeOK, AttemptLeft, Stages, Goto, Tried, Unset
  <1>1. ASSUME NEW p \in Procs, Start(p) PROVE TypeInv'
    BY <1>1 DEF Start
  <1>2. ASSUME NEW p \in Procs, TrySet(p) PROVE TypeInv'
    BY <1>2 DEF TrySet
  <1>3. ASSUME NEW p \in Procs, Retry(p) PROVE TypeInv'
    BY <1>3 DEF Retry
  <1>4. ASSUME NEW p \in Procs, Exit(p) \/ Compare(p) \/ Delete(p) \/ Kill(p)
        PROVE  TypeInv'
    BY <1>4 DEF Exit, Compare, Delete, Kill
  <1>5. CASE Tick
    BY <1>0, <1>5 DEF Tick, Lapsed
  <1>6. CASE UNCHANGED vars
    BY <1>6 DEF vars
  <1> QED BY <1>1, <1>2, <1>3, <1>4, <1>5, <1>6 DEF Next, Step

\* The variables keep their types, whatever the times are: no more attempts
\* than max_retries, no negative time to live.
THEOREM LockTypeCorrect == Spec => []TypeOK
  <1>1. Init => TypeInv
    BY LockAssumption, FS_CardinalityType DEF Init, TypeInv, TypeOK, AttemptLeft, Stages
  <1>2. TypeInv => TypeOK
    BY DEF TypeInv
  <1> QED BY <1>1, <1>2, TypeInvInductive, PTL DEF Spec

-----------------------------------------------------------------------------
(* The section.  Whoever is in it without being the setter of the key has   *)
(* been left behind: by a lapse, or by the release of one who was.          *)

Strays == Section \ {setter}

SetterKnown ==
    /\ value = Absent <=> setter = Nobody
    /\ setter = Nobody => ttl = 0

LockInv ==
    /\ TypeInv
    /\ SetterKnown
    /\ Cardinality(Strays) <= lapses

\* The section is a finite set, and Nobody is not in it.
LEMMA SectionFinite ==
    /\ IsFiniteSet(Section) /\ Cardinality(Section) \in Nat
    /\ Cardinality(Section) <= Cardinality(Procs)
    /\ Nobody \notin Section
  BY LockAssumption, FS_Subset, FS_CardinalityType DEF Section

\* A subset of the section is not larger than a set it is part of.
LEMMA SmallerSection ==
    ASSUME NEW S \in SUBSET Procs, NEW T \in SUBSET S
    PROVE  /\ IsFiniteSet(S) /\ IsFiniteSet(T)
           /\ Cardinality(S) \in Nat /\ Cardinality(T) \in Nat
           /\ Cardinality(T) <= Cardinality(S)
  BY LockAssumption, FS_Subset, FS_CardinalityType

\* Who starts, tries in vain or ends its body is in the section as before.
LEMMA SectionSame ==
    ASSUME TypeInv, NEW p \in Procs, Start(p) \/ Retry(p) \/ Exit(p)
    PROVE  Section' = Section /\ UNCHANGED << setter, lapses >>
  BY DEF TypeInv, TypeOK, Start, Retry, Exit, Goto, Section, Critical

\* Who releases or dies leaves the section, nobody else does.
LEMMA SectionLeft ==
    ASSUME TypeInv, NEW p \in Procs,
           Delete(p) \/ Kill(p) \/ (Compare(p) /\ value # LockValue[p])
    PROVE  Section' = Section \ {p}
  BY DEF TypeInv, TypeOK, Delete, Kill, Compare, Goto, Section, Critical

\* Who sets the key enters the section, and the key was nobody's.
LEMMA SectionEntered ==
    ASSUME LockInv, NEW p \in Procs, TrySet(p)
    PROVE  Section' = Section \cup {p} /\ setter = Nobody /\ setter' = p /\ p \notin Section
  BY DEF LockInv, TypeInv, TypeOK, SetterKnown, TrySet, Goto, Section, Critical

\* The section is part of the setter until a lapse.
LEMMA NoStrays ==
    ASSUME LockInv, lapses = 0
    PROVE  Section \subseteq {setter}
  <1>1. Strays \in SUBSET Procs
    BY DEF Strays, Section
  <1>2. IsFiniteSet(Strays) /\ Cardinality(Strays) = 0
    BY <1>1, SmallerSection DEF LockInv
  <1>3. Strays = {}
    BY <1>2, FS_EmptySet
  <1> QED BY <1>3 DEF Strays

\* The release of a key, one's own or that of another, leaves no more strays
\* than there were.
LEMMA DeleteStrays ==
    ASSUME LockInv, NEW p \in Procs, Delete(p)
    PROVE  Cardinality(Strays') <= lapses
  <1>1. p \in Section /\ Section' = Section \ {p} /\ setter' = Nobody
    BY SectionLeft DEF LockInv, Delete, Unset, Section, Critical
  <1>2. Strays' = Section \ {p}
    BY <1>1, LockAssumption DEF Strays, Section
  <1>3. /\ IsFiniteSet(Section)
        /\ Cardinality(Section) \in Nat
        /\ Cardinality(Section \ {p}) = Cardinality(Section) - 1
    BY <1>1, SectionFinite, FS_RemoveElement
  <1>4. CASE setter \in Section
    <2>1. Cardinality(Section \ {setter}) = Cardinality(Section) - 1
      BY <1>3, <1>4, FS_RemoveElement
    <2> QED BY <1>2, <1>3, <2>1 DEF LockInv, Strays
  <1>5. CASE setter \notin Section
    <2>1. Strays = Section
      BY <1>5 DEF Strays
    <2> QED BY <1>2, <1>3, <2>1 DEF LockInv, TypeInv, TypeOK
  <1> QED BY <1>4, <1>5

\* The expiry of a key makes a stray of its setter, if that is still inside, and
\* a lapse.
LEMMA ExpiryStrays ==
    ASSUME LockInv, Tick, setter' # setter
    PROVE  /\ Section' = Section /\ setter' = Nobody /\ setter \in Procs
           /\ lapses' = Lapsed
           /\ Cardinality(Strays') <= lapses'
  <1>1. Section' = Section
    BY DEF Tick, Section, Critical
  <1>2. setter' = Nobody /\ lapses' = Lapsed
    BY DEF Tick, Unset
  <1>3. setter \in Procs
    BY <1>2 DEF LockInv, TypeInv, TypeOK
  <1>4. Strays' = Section
    BY <1>1, <1>2, SectionFinite DEF Strays
  <1>5. /\ Cardinality(Procs) \in Nat /\ lapses \in Nat
        /\ Cardinality(Section) \in Nat /\ Cardinality(Section) <= Cardinality(Procs)
        /\ Cardinality(Section \ {setter}) <= lapses
    BY LockAssumption, FS_CardinalityType, SectionFinite DEF LockInv, TypeInv, TypeOK, Strays
  <1>6. ASSUME setter \in Section PROVE Cardinality(Strays') <= lapses'
    <2>1. Cardinality(Section \ {setter}) = Cardinality(Section) - 1
      BY <1>6, SectionFinite, FS_RemoveElement
    <2>2. Critical(setter)
      BY <1>6 DEF Section
    <2>3. CASE lapses < Cardinality(Procs)
      <3>1. lapses' = lapses + 1
        BY <1>2, <2>2, <2>3 DEF Lapsed
      <3> QED BY <1>4, <1>5, <2>1, <3>1
    <2>4. CASE ~ (lapses < Cardinality(Procs))
      <3>1. lapses' = lapses
        BY <1>2, <2>4 DEF Lapsed
      <3> QED BY <1>4, <1>5, <2>4, <3>1
    <2> QED BY <2>3, <2>4
  <1>7. ASSUME setter \notin Section PROVE Cardinality(Strays') <= lapses'
    <2>1. Strays = Section /\ ~ Critical(setter)
      BY <1>3, <1>7 DEF Strays, Section
    <2>2. lapses' = lapses
      BY <1>2, <2>1 DEF Lapsed
    <2> QED BY <1>4, <2>1, <2>2 DEF LockInv
  <1> QED BY <1>1, <1>2, <1>3, <1>6, <1>7

\* The invariant of the lock holds at the start.
LEMMA LockInvInit == Init => LockInv
  <1> SUFFICES ASSUME Init PROVE LockInv
    OBVIOUS
  <1>1. TypeInv
    BY LockAssumption, FS_CardinalityType DEF Init, TypeInv, TypeOK, AttemptLeft, Stages
  <1>2. Strays = {}
    BY DEF Init, Strays, Section, Critical
  <1> QED BY <1>1, <1>2, FS_EmptySet DEF Init, LockInv, SetterKnown

\* No step makes strays without a lapse.
LEMMA LockInvInductive == LockInv /\ [Next]_vars => LockInv'
  <1> SUFFICES ASSUME LockInv, [Next]_vars PROVE LockInv'
    OBVIOUS
  <1>0. TypeInv'
    BY TypeInvInductive DEF LockInv
  <1>1. Strays \in SUBSET Procs /\ lapses \in Nat /\ Cardinality(Strays) \in Nat
    <2>1. Strays \in SUBSET Procs
      BY DEF Strays, Section
    <2>2. lapses \in Nat
      BY LockAssumption, FS_CardinalityType DEF LockInv, TypeInv, TypeOK
    <2> QED BY <2>1, <2>2, SmallerSection
  <1>2. ASSUME Strays' \in SUBSET Strays, lapses' = lapses
        PROVE  Cardinality(Strays') <= lapses'
    BY <1>1, <1>2, SmallerSection DEF LockInv
  <1>3. ASSUME NEW p \in Procs, Start(p) \/ Retry(p) \/ Exit(p) PROVE LockInv'
    <2>1. Strays' \in SUBSET Strays /\ lapses' = lapses
      BY <1>3, SectionSame DEF LockInv, Strays
    <2>2. SetterKnown'
      BY <1>3 DEF LockInv, SetterKnown, Start, Retry, Exit
    <2> QED BY <1>0, <1>2, <2>1, <2>2 DEF LockInv
  <1>4. ASSUME NEW p \in Procs, TrySet(p) PROVE LockInv'
    <2>1. Strays' \in SUBSET Strays /\ lapses' = lapses
      BY <1>4, SectionEntered, SectionFinite DEF Strays, TrySet
    <2>2. SetterKnown'
      BY <1>4, LockAssumption DEF SetterKnown, TrySet
    <2> QED BY <1>0, <1>2, <2>1, <2>2 DEF LockInv
  <1>5. ASSUME NEW p \in Procs, Compare(p) \/ Kill(p) PROVE LockInv'
    <2>1. Section' \subseteq Section /\ UNCHANGED << setter, lapses >>
      BY <1>5 DEF LockInv, TypeInv, TypeOK, Compare, Kill, Goto, Section, Critical
    <2>2. SetterKnown'
      BY <1>5 DEF LockInv, SetterKnown, Compare, Kill
    <2> QED BY <1>0, <1>2, <2>1, <2>2 DEF LockInv, Strays
  <1>6. ASSUME NEW p \in Procs, Delete(p) PROVE LockInv'
    <2>1. SetterKnown'
      BY <1>6 DEF SetterKnown, Delete, Unset
    <2>2. lapses' = lapses
      BY <1>6 DEF Delete
    <2> QED BY <1>0, <1>6, <2>1, <2>2, DeleteStrays DEF LockInv
  <1>7. CASE Tick
    <2>1. SetterKnown'
      BY <1>7 DEF LockInv, TypeInv, TypeOK, SetterKnown, Tick, Unset
    <2>2. CASE setter' = setter
      <3>1. Section' = Section
        BY <1>7 DEF Tick, Section, Critical
      <3>2. lapses' = lapses
        BY <1>7, <2>2, LockAssumption DEF LockInv, SetterKnown, Tick, Unset
      <3> QED BY <1>0, <1>2, <2>1, <2>2, <3>1, <3>2 DEF LockInv, Strays
    <2>3. CASE setter' # setter
      BY <1>0, <1>7, <2>1, <2>3, ExpiryStrays DEF LockInv
    <2> QED BY <2>2, <2>3
  <1>8. CASE UNCHANGED vars
    BY <1>0, <1>8 DEF LockInv, SetterKnown, Strays, Section, Critical, vars
  <1> QED BY <1>3, <1>4, <1>5, <1>6, <1>7, <1>8 DEF Next, Step

\* Beyond one, there are never more tasks in the critical section than keys have
\* expired under a task: as many processes, as long work and as short a time to
\* live as may be.
THEOREM SectionIsBounded == Spec => []SectionBounded
  <1>1. LockInv => SectionBounded
    <2> SUFFICES ASSUME LockInv PROVE Cardinality(Section) <= 1 + lapses
      BY DEF SectionBounded
    <2>1. lapses \in Nat
      BY LockAssumption, FS_CardinalityType DEF LockInv, TypeInv, TypeOK
    <2>2. CASE setter \in Section
      <3>1. Cardinality(Section \ {setter}) = Cardinality(Section) - 1
        BY <2>2, SectionFinite, FS_RemoveElement
      <3> QED BY <2>1, <3>1, SectionFinite DEF LockInv, Strays
    <2>3. CASE setter \notin Section
      <3>1. Strays = Section
        BY <2>3 DEF Strays
      <3> QED BY <2>1, <3>1, SectionFinite DEF LockInv
    <2> QED BY <2>2, <2>3
  <1> QED BY <1>1, LockInvInit, LockInvInductive, PTL DEF Spec

\* Until a key expires under its holder, a release deletes no other's key: GET
\* and DEL need not be atomic, and the values need not differ.
THEOREM OwnKeysDeletedUntilLapse == Spec => []OwnKeyDeletedUntilLapse
  <1>1. LockInv => OwnKeyDeletedUntilLapse
    BY NoStrays DEF OwnKeyDeletedUntilLapse, OnlyOwnKeyDeleted, Section, Critical
  <1> QED BY <1>1, LockInvInit, LockInvInductive, PTL DEF Spec

-----------------------------------------------------------------------------
(* Refinement *)

\* distributed_lock implements the lease its users count on: one holder,
\* released by itself or lapsing after its death, until one outstays its lease.
THEOREM LockIsLease == Spec => IsLease
  <1>1. Init => L!LeaseInit
    BY DEF Init, L!LeaseInit, Section, Critical
  <1>2. LockInv /\ [Next]_vars => [L!LeaseNext]_(L!leaseVars)
    <2> SUFFICES ASSUME LockInv, [Next]_vars
                 PROVE  L!LeaseNext \/ UNCHANGED << setter, Section, lapses > 0 >>
      BY DEF L!leaseVars
    <2>0. lapses \in Nat
      BY LockAssumption, FS_CardinalityType DEF LockInv, TypeInv, TypeOK
    <2>1. ASSUME NEW p \in Procs, Start(p) \/ Retry(p) \/ Exit(p)
          PROVE  UNCHANGED << setter, Section, lapses > 0 >>
      BY <2>1, SectionSame DEF LockInv
    <2>2. ASSUME NEW p \in Procs, TrySet(p) PROVE L!Acquire(p)
      <3>1. setter = Nobody /\ setter' = p /\ Section' = Section \cup {p} /\ lapses' = lapses
        BY <2>2, SectionEntered DEF TrySet
      <3>2. Section = {} \/ lapses > 0
        BY <2>0, <3>1, NoStrays, SectionFinite
      <3> QED BY <3>1, <3>2 DEF L!Acquire
    <2>3. ASSUME NEW p \in Procs, Compare(p)
          PROVE  L!Die(p) \/ UNCHANGED << setter, Section, lapses > 0 >>
      <3>1. p \in Section /\ UNCHANGED << setter, lapses >>
        BY <2>3 DEF Compare, Section, Critical
      <3>2. CASE value = LockValue[p]
        <4>1. Section' = Section
          BY <2>3, <3>2 DEF LockInv, TypeInv, TypeOK, Compare, Goto, Section, Critical
        <4> QED BY <3>1, <4>1
      <3>3. CASE value # LockValue[p]
        BY <2>3, <3>1, <3>3, SectionLeft DEF LockInv, L!Die
      <3> QED BY <3>2, <3>3
    <2>4. ASSUME NEW p \in Procs, Delete(p) PROVE L!Release(p)
      <3>1. p \in Section /\ setter' = Nobody /\ Section' = Section \ {p} /\ lapses' = lapses
        BY <2>4, SectionLeft DEF LockInv, Delete, Unset, Section, Critical
      <3>2. setter = p \/ lapses > 0
        BY <2>0, <3>1, NoStrays
      <3> QED BY <3>1, <3>2 DEF L!Release
    <2>5. ASSUME NEW p \in Procs, Kill(p)
          PROVE  L!Die(p) \/ UNCHANGED << setter, Section, lapses > 0 >>
      <3>1. Section' = Section \ {p} /\ UNCHANGED << setter, lapses >>
        BY <2>5, SectionLeft DEF LockInv, Kill
      <3> QED BY <3>1 DEF L!Die
    <2>6. CASE Tick
      <3>1. CASE setter' = setter
        <4>1. Section' = Section
          BY <2>6 DEF Tick, Section, Critical
        <4>2. lapses' = lapses
          BY <2>6, <3>1, LockAssumption DEF LockInv, SetterKnown, Tick, Unset
        <4> QED BY <3>1, <4>1, <4>2
      <3>2. CASE setter' # setter
        <4>1. Section' = Section /\ setter' = Nobody /\ setter \in Procs /\ lapses' = Lapsed
          BY <2>6, <3>2, ExpiryStrays
        <4>2. setter # Nobody
          BY <3>2, <4>1
        <4>3. Cardinality(Procs) \in Nat /\ Cardinality(Procs) > 0
          BY <4>1, LockAssumption, FS_CardinalityType, FS_EmptySet
        <4>4. (lapses' > 0) = (lapses > 0 \/ setter \in Section)
          BY <2>0, <4>1, <4>3 DEF Lapsed, Section
        <4> QED BY <4>1, <4>2, <4>4 DEF L!LeaseNext, L!Lapse
      <3> QED BY <3>1, <3>2
    <2>7. CASE UNCHANGED vars
      BY <2>7 DEF vars, Section, Critical
    <2> QED
      BY <2>1, <2>2, <2>3, <2>4, <2>5, <2>6, <2>7 DEF Next, Step, L!LeaseNext
  <1> QED
    BY <1>1, <1>2, LockInvInit, LockInvInductive, PTL DEF Spec, IsLease, L!LeaseSpec

-----------------------------------------------------------------------------
(* What would mend it *)

\* A process in the section has set the key that is there, and the key will
\* outlive the process's task.
Owned(p) == Critical(p) => setter = p /\ ttl + age[p] > MaxHold

\* If no task may run for as long as the key lives - a configuration the
\* repository does not have - no lease is ever outstayed, so by SectionIsBounded
\* the lock excludes.
THEOREM ShortTasksNeverLapse ==
    ASSUME MaxHold < Ttl
    PROVE  Spec => [](lapses = 0)
  <1> DEFINE Inv == lapses = 0 /\ \A p \in Procs : Owned(p)
  <1>1. Init => Inv
    BY DEF Init, Owned, Critical
  <1>2. LockInv /\ Inv /\ [Next]_vars => Inv'
    <2> SUFFICES ASSUME LockInv, Inv, [Next]_vars PROVE Inv'
      OBVIOUS
    <2> USE LockAssumption
    <2>1. ASSUME NEW p \in Procs, Start(p) \/ Retry(p) PROVE Inv'
      BY <2>1 DEF LockInv, TypeInv, TypeOK, Owned, Critical, Start, Retry, Goto
    <2>2. ASSUME NEW p \in Procs, TrySet(p) PROVE Inv'
      <3>1. \A q \in Procs : ~ Critical(q)
        BY <2>2 DEF LockInv, SetterKnown, Owned, TrySet
      <3> QED BY <2>2, <3>1 DEF LockInv, TypeInv, TypeOK, Owned, Critical, TrySet, Goto
    <2>3. ASSUME NEW p \in Procs, Exit(p) \/ Compare(p) \/ Kill(p) PROVE Inv'
      BY <2>3 DEF LockInv, TypeInv, TypeOK, Owned, Critical, Exit, Compare, Kill, Goto
    <2>4. ASSUME NEW p \in Procs, Delete(p) PROVE Inv'
      <3>1. setter = p
        BY <2>4 DEF Owned, Critical, Delete
      <3>2. ASSUME NEW q \in Procs PROVE ~ Critical(q)'
        BY <2>4, <3>1 DEF LockInv, TypeInv, TypeOK, Owned, Critical, Delete, Goto
      <3> QED BY <2>4, <3>2 DEF Owned, Delete
    <2>5. CASE Tick
      <3>1. ASSUME NEW q \in Procs, Critical(q)
            PROVE  /\ ttl > 1 /\ ttl' = ttl - 1 /\ UNCHANGED << setter, lapses >>
                   /\ Owned(q)'
        <4>1. age[q] < MaxHold /\ age'[q] = age[q] + 1
          BY <2>5, <3>1 DEF Tick, Critical
        <4>2. setter = q /\ ttl + age[q] > MaxHold
          BY <3>1 DEF Owned
        <4>3. ttl \in Nat /\ age[q] \in Nat /\ MaxHold \in Nat
          BY DEF LockInv, TypeInv, TypeOK
        <4>4. ttl > 1
          BY <4>1, <4>2, <4>3
        <4>5. ttl' = ttl - 1 /\ UNCHANGED << setter, lapses >>
          BY <2>5, <4>3, <4>4 DEF Tick
        <4> QED BY <4>1, <4>2, <4>3, <4>4, <4>5 DEF Owned
      <3>2. CASE \E q \in Procs : Critical(q)
        BY <2>5, <3>1, <3>2 DEF Tick, Owned, Critical
      <3>3. CASE ~ \E q \in Procs : Critical(q)
        <4>1. lapses' = lapses
          <5>1. CASE setter \in Procs
            BY <2>5, <3>3, <5>1 DEF Tick, Lapsed
          <5>2. CASE setter \notin Procs
            <6>1. setter = Nobody /\ ttl = 0
              BY <5>2 DEF LockInv, TypeInv, TypeOK, SetterKnown
            <6> QED BY <2>5, <6>1 DEF Tick
          <5> QED BY <5>1, <5>2
        <4>2. \A q \in Procs : ~ Critical(q)'
          BY <2>5, <3>3 DEF Tick, Critical
        <4> QED BY <4>1, <4>2 DEF Owned
      <3> QED BY <3>2, <3>3
    <2>6. CASE UNCHANGED vars
      BY <2>6 DEF Owned, Critical, vars
    <2> QED BY <2>1, <2>2, <2>3, <2>4, <2>5, <2>6 DEF Next, Step
  <1>3. Inv => lapses = 0
    OBVIOUS
  <1> QED BY <1>1, <1>2, <1>3, LockInvInit, LockInvInductive, PTL DEF Spec
=============================================================================
