-------------------------- MODULE MCOmnichainCredit --------------------------
(* TLC instances of OmnichainCredit: requests are interchangeable. *)
EXTENDS OmnichainCredit, TLC

CONSTANTS a1, a2, evm, n1, r1, r2

Symmetry == Permutations(Requests)
===============================================================================
