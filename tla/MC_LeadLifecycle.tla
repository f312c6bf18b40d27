-------------------------- MODULE MC_LeadLifecycle --------------------------
(* LeadLifecycle with the scores on both sides of the threshold, a cooldown  *)
(* that ends within the clock and the default one.                           *)
EXTENDS LeadLifecycle

MC_Scores == {49, 50}
MC_CooldownDays == {0, 1}
=============================================================================
