-------------------------- MODULE MCAlgorandPayments --------------------------
(* TLC instances of AlgorandPayments: one payment with everything that can      *)
(* happen to it, and two payments that settle with the same transaction.        *)
EXTENDS AlgorandPayments, TLC

CONSTANTS p1, p2, t1, u1, u2, h1, h2

\* Handlers are interchangeable, and so are payments of the same transaction.
HandlerSymmetry == Permutations(Handlers)
PaymentSymmetry == Permutations(Payments)

TxOne    == (p1 :> t1)
TxShared == (p1 :> t1) @@ (p2 :> t1)
===============================================================================
