----------------------------- MODULE PaymentOnce -----------------------------
(***************************************************************************)
(* What the paid endpoints promise the payer of one report: a payment      *)
(* proof is charged at most once, for one resource request; its outcome,   *)
(* once known, does not change; and the report goes out only against a     *)
(* settled payment and only to the request that was paid for.              *)
(***************************************************************************)
CONSTANTS Payments, Urls, None

VARIABLES
  outcome,     \* what is known of each payment
  boundTo,     \* the request a charged payment pays for
  delivered    \* <<payment, url>> pairs the report was sent for

vars == <<outcome, boundTo, delivered>>

Outcome == {"open", "charged", "paid", "refused", "unknown"}

Init ==
  /\ outcome = [p \in Payments |-> "open"]
  /\ boundTo = [p \in Payments |-> None]
  /\ delivered = {}

\* The one step that moves money.
Charge(p, u) ==
  /\ outcome[p] = "open"
  /\ outcome' = [outcome EXCEPT ![p] = "charged"]
  /\ boundTo' = [boundTo EXCEPT ![p] = u]
  /\ UNCHANGED delivered

Resolve(p) ==
  /\ outcome[p] = "charged"
  /\ \E o \in {"paid", "refused", "unknown"} : outcome' = [outcome EXCEPT ![p] = o]
  /\ UNCHANGED <<boundTo, delivered>>

Deliver(p) ==
  /\ outcome[p] = "paid"
  /\ delivered' = delivered \cup {<<p, boundTo[p]>>}
  /\ UNCHANGED <<outcome, boundTo>>

Next ==
  \E p \in Payments :
    (\E u \in Urls : Charge(p, u)) \/ Resolve(p) \/ Deliver(p)

Spec == Init /\ [][Next]_vars
===============================================================================
