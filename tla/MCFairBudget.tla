----------------------------- MODULE MCFairBudget -----------------------------
(* Small instances of FairBudget for TLC. *)
EXTENDS FairBudget

CallSymmetry == Permutations(Calls)
=============================================================================
