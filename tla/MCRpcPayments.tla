---------------------------- MODULE MCRpcPayments ----------------------------
(* TLC instances of RpcPayments: two NEAR proofs that encode one transfer, or   *)
(* one, and a QIE payment beside them.                                          *)
EXTENDS RpcPayments, TLC

CONSTANTS n1, n2, q1, t1, t2

TxOfProofs == (n1 :> t1) @@ (n2 :> t1) @@ (q1 :> t2)
TxOfSingle == (n1 :> t1) @@ (q1 :> t2)
===============================================================================
