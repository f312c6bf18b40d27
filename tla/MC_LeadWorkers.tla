---------------------------- MODULE MC_LeadWorkers ----------------------------
(* Two workers, one positive and one negative intent.                        *)
EXTENDS LeadWorkers, TLC

MC_Intents == { "ready_to_call", "unsubscribe" }
Symmetry == Permutations(Workers)
=============================================================================
