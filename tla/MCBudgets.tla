----------------------------- MODULE MCBudgets ------------------------------
(* Two categories and four months; templates that start on the first of   *)
(* the first or third month or in the middle of the second, and end with   *)
(* the second or third month or never.                                     *)
EXTENDS Budgets, TLC

Symmetry == Permutations(Scope) \cup Permutations(Amount)
=============================================================================
