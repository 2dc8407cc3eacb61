----------------------------- MODULE MCRetryBudget -----------------------------
(* The runs of RetryBudget need only the symmetry of the callers. *)
EXTENDS RetryBudget, TLC

CallerSymmetry == Permutations(Callers)
================================================================================
