----------------------------- MODULE CreditBudget -----------------------------
(***************************************************************************)
(* What a credit line promises the lender: an agent never owes more than   *)
(* its limit, the limit only grows, and an agent that was stopped draws    *)
(* nothing more, for good.                                                 *)
(***************************************************************************)
EXTENDS Naturals

CONSTANT Agents

VARIABLES
  owed,      \* drawn and not repaid
  limit,     \* the most an agent may owe
  stopped    \* agents cut off

vars == <<owed, limit, stopped>>

Init ==
  /\ owed  = [a \in Agents |-> 0]
  /\ limit = [a \in Agents |-> 0]
  /\ stopped = {}

Raise(a) ==
  /\ limit' = [limit EXCEPT ![a] = limit'[a]]
  /\ limit'[a] > limit[a]
  /\ UNCHANGED <<owed, stopped>>

\* The limit may be raised with the draw.
Draw(a) ==
  /\ a \notin stopped
  /\ limit' = [limit EXCEPT ![a] = limit'[a]]
  /\ limit'[a] >= limit[a]
  /\ owed' = [owed EXCEPT ![a] = owed'[a]]
  /\ owed'[a] \in owed[a]..limit'[a]
  /\ UNCHANGED stopped

Repay(a) ==
  /\ owed' = [owed EXCEPT ![a] = owed'[a]]
  /\ owed'[a] \in 0..owed[a]
  /\ UNCHANGED <<limit, stopped>>

Stop(a) ==
  /\ stopped' = stopped \cup {a}
  /\ UNCHANGED <<owed, limit>>

Next == \E a \in Agents : Raise(a) \/ Draw(a) \/ Repay(a) \/ Stop(a)

Spec == Init /\ [][Next]_vars
===============================================================================
