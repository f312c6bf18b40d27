---------------------------- MODULE MC_RedisLock ----------------------------
(* The values of the processes: all the same, the least helpful case, or all *)
(* different, the most helpful one.                                          *)
EXTENDS RedisLock

MC_OwnValue == [ p \in Procs |-> p ]
MC_LockValue == [ p \in Procs |-> "Task-1" ]
=============================================================================
