---------------------------- MODULE MCCreditLines ----------------------------
(* TLC instances of CreditLines. *)
EXTENDS CreditLines

CONSTANTS a1, a2, d1, d2, o1, w1, w2
===============================================================================
