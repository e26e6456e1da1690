----------------------------- MODULE ExposureBook -----------------------------
(***************************************************************************)
(* One agent's entry of the exposure book                                  *)
(* (contracts-near/spend_guard/src/exposure.rs, a port of                  *)
(* lib/ledger/contracts/global_exposure_manager.ts): how much of its       *)
(* credit line is drawn, how much is set aside for draws to come, the cap  *)
(* on both together, and the circuit breaker. Amounts are u128 with        *)
(* overflow checks on: the code panics before it wraps.                    *)
(***************************************************************************)
EXTENDS Naturals

Exposure == [outstanding: Nat, reserved: Nat, max_allowed: Nat, frozen: BOOLEAN]

NoExposure ==
  [outstanding |-> 0, reserved |-> 0, max_allowed |-> 0, frozen |-> FALSE]

Lesser(m, n) == IF m < n THEN m ELSE n

\* The cap is raised when the policy allows more and never lowered.
EnsureAgent(e, cap) ==
  [e EXCEPT !.max_allowed = IF cap > @ THEN cap ELSE @]

\* Broken variants: a reservation forgets the draws, the earlier reservations,
\* or the circuit breaker.
CanReserveUndrawn(e, n)    == ~e.frozen /\ e.reserved + n <= e.max_allowed
CanReserveUnreserved(e, n) == ~e.frozen /\ e.outstanding + n <= e.max_allowed
CanReserveFrozen(e, n)     == e.outstanding + e.reserved + n <= e.max_allowed

\* The two assertions of reserve_exposure; a panic undoes the whole call.
CanReserve(e, n) ==
  /\ ~e.frozen
  /\ e.outstanding + e.reserved + n <= e.max_allowed

ReserveExposure(e, n) == [e EXCEPT !.reserved = @ + n]

\* A draw moves at most what is reserved.
ActivateExposure(e, n) ==
  LET moved == Lesser(n, e.reserved) IN
  [e EXCEPT !.reserved = @ - moved, !.outstanding = @ + moved]

\* Both are saturating subtractions.
ReleaseReservation(e, n) == [e EXCEPT !.reserved = @ - Lesser(n, @)]

DecreaseExposureBelowZero(e, n) == [e EXCEPT !.outstanding = @ - n]  \* broken variant
DecreaseExposure(e, n) == [e EXCEPT !.outstanding = @ - Lesser(n, @)]

FreezeAgentExposure(e) == [e EXCEPT !.frozen = TRUE]
===============================================================================
