----------------------------- MODULE LendingPool -----------------------------
(***************************************************************************)
(* What a lending pool promises its depositors: it pays out and lends only *)
(* cash it holds, every repayment becomes cash, and what a borrower owes   *)
(* falls by no more than it paid.                                          *)
(***************************************************************************)
EXTENDS Integers

CONSTANT Agents

VARIABLES
  cash,    \* held and not lent
  owed     \* principal each borrower owes

vars == <<cash, owed>>

Init ==
  /\ cash = 0
  /\ owed = [a \in Agents |-> 0]

Deposit ==
  /\ cash' > cash
  /\ UNCHANGED owed

Withdraw ==
  /\ cash' \in 0..cash
  /\ UNCHANGED owed

Lend(a) ==
  /\ cash' \in 0..cash
  /\ owed' = [owed EXCEPT ![a] = @ + (cash - cash')]

Collect(a) ==
  /\ cash' > cash
  /\ owed' = [owed EXCEPT ![a] = owed'[a]]
  /\ owed'[a] \in 0..owed[a]
  /\ owed[a] - owed'[a] <= cash' - cash

Next == Deposit \/ Withdraw \/ \E a \in Agents : Lend(a) \/ Collect(a)

Spec == Init /\ [][Next]_vars
===============================================================================
