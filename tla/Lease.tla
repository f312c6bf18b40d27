-------------------------------- MODULE Lease --------------------------------
(***************************************************************************)
(* What distributed_lock promises its users: a critical section with room  *)
(* for one process, given back by the process that took it or, if that one *)
(* died inside, after a while by itself.  The promise ends with the first  *)
(* holder that outstays its lease: from then on the next one may come in   *)
(* beside it, and be thrown out by it.                                     *)
(***************************************************************************)
CONSTANTS Procs, Nobody

VARIABLES holder,   \* who took the lock
          inside,   \* the processes in the critical section
          outstayed \* has a lease ever lapsed with its holder inside?

leaseVars == << holder, inside, outstayed >>

LeaseInit == holder = Nobody /\ inside = {} /\ outstayed = FALSE

Acquire(p) ==
    /\ holder = Nobody /\ (inside = {} \/ outstayed)
    /\ holder' = p /\ inside' = inside \cup {p}
    /\ UNCHANGED outstayed

Release(p) ==
    /\ p \in inside /\ (holder = p \/ outstayed)
    /\ holder' = Nobody /\ inside' = inside \ {p}
    /\ UNCHANGED outstayed

\* Its end, or that of a process which finds its lock gone.
Die(p) ==
    /\ p \in inside
    /\ inside' = inside \ {p} /\ UNCHANGED << holder, outstayed >>

Lapse ==
    /\ holder # Nobody
    /\ holder' = Nobody /\ outstayed' = (outstayed \/ holder \in inside)
    /\ UNCHANGED inside

LeaseNext == Lapse \/ \E p \in Procs : Acquire(p) \/ Release(p) \/ Die(p)

LeaseSpec == LeaseInit /\ [][LeaseNext]_leaseVars
=============================================================================
