----------------------------- MODULE MCSpendGuard -----------------------------
(* TLC instances of SpendGuard: agents and their keys are interchangeable. *)
EXTENDS SpendGuard, TLC

CONSTANTS a1, a2, k1, k2

Symmetry == Permutations(Agents) \cup Permutations(Keys)
===============================================================================
