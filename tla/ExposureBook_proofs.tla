-------------------------- MODULE ExposureBook_proofs --------------------------
(***************************************************************************)
(* What the operations on one entry of the exposure book keep and change,  *)
(* for the machines that hold such a book.                                 *)
(***************************************************************************)
EXTENDS ExposureBook, TLAPS

\* One entry, within its cap.
Sound(e) == e \in Exposure /\ e.outstanding + e.reserved <= e.max_allowed

\* Raising the cap changes nothing else.
LEMMA EnsureFacts ==
  ASSUME NEW e, Sound(e), NEW cap \in Nat
  PROVE  LET f == EnsureAgent(e, cap) IN
         /\ Sound(f)
         /\ f.outstanding = e.outstanding /\ f.reserved = e.reserved
         /\ f.frozen = e.frozen /\ f.max_allowed >= e.max_allowed
BY DEF Sound, Exposure, EnsureAgent

\* A reservation that was allowed stays within the cap.
LEMMA ReserveFacts ==
  ASSUME NEW e, Sound(e), NEW n \in Nat, CanReserve(e, n)
  PROVE  LET f == ReserveExposure(e, n) IN
         /\ Sound(f)
         /\ f.outstanding = e.outstanding /\ f.max_allowed = e.max_allowed
         /\ f.frozen = e.frozen /\ ~f.frozen
BY DEF Sound, Exposure, ReserveExposure, CanReserve

\* A draw within the reservation is booked in full.
LEMMA ActivateFacts ==
  ASSUME NEW e, Sound(e), NEW n \in Nat, n <= e.reserved
  PROVE  LET f == ActivateExposure(e, n) IN
         /\ Sound(f)
         /\ f.outstanding = e.outstanding + n /\ f.max_allowed = e.max_allowed
         /\ f.frozen = e.frozen
<1> DEFINE f == ActivateExposure(e, n)
<1>1. Lesser(n, e.reserved) = n
  BY DEF Lesser, Sound, Exposure
<1>2. f = [e EXCEPT !.reserved = @ - n, !.outstanding = @ + n]
  BY <1>1 DEF ActivateExposure
<1>3. /\ e \in Exposure
      /\ e.outstanding \in Nat /\ e.reserved \in Nat /\ e.max_allowed \in Nat
  BY DEF Sound, Exposure
<1>4. /\ f.reserved = e.reserved - n /\ f.outstanding = e.outstanding + n
      /\ f.max_allowed = e.max_allowed /\ f.frozen = e.frozen
  BY <1>2, <1>3 DEF Exposure
<1>5. f = [outstanding |-> e.outstanding + n, reserved |-> e.reserved - n,
           max_allowed |-> e.max_allowed, frozen |-> e.frozen]
  BY <1>2, <1>3 DEF Exposure
<1>6. e.reserved - n \in Nat /\ e.outstanding + n \in Nat /\ e.frozen \in BOOLEAN
  BY <1>3 DEF Exposure
<1>7. f \in Exposure
  BY <1>3, <1>5, <1>6 DEF Exposure
<1>8. QED
  BY <1>3, <1>4, <1>7 DEF Sound

\* A repayment takes off at most what is owed.
LEMMA DecreaseFacts ==
  ASSUME NEW e, Sound(e), NEW n \in Nat
  PROVE  LET f == DecreaseExposure(e, n) IN
         /\ Sound(f)
         /\ f.outstanding \in 0..e.outstanding
         /\ e.outstanding <= f.outstanding + n
         /\ f.max_allowed = e.max_allowed /\ f.reserved = e.reserved
         /\ f.frozen = e.frozen
BY DEF Sound, Exposure, DecreaseExposure, Lesser

\* Lesser(m, n) is a number up to both.
LEMMA LesserFacts ==
  ASSUME NEW m \in Nat, NEW n \in Nat
  PROVE  Lesser(m, n) \in 0..n
BY DEF Lesser

\* A draw moves what it can of the reservation; both together stay what they were.
LEMMA MovesFacts ==
  ASSUME NEW e, Sound(e), NEW n \in Nat
  PROVE  LET f == ActivateExposure(e, n) IN
         /\ Sound(f)
         /\ f.outstanding + f.reserved = e.outstanding + e.reserved
         /\ f.max_allowed = e.max_allowed /\ f.frozen = e.frozen
<1> DEFINE f == ActivateExposure(e, n)
           m == Lesser(n, e.reserved)
<1>1. /\ e \in Exposure
      /\ e.outstanding \in Nat /\ e.reserved \in Nat /\ e.max_allowed \in Nat
      /\ e.frozen \in BOOLEAN
  BY DEF Sound, Exposure
<1>2. m \in 0..e.reserved
  BY <1>1, LesserFacts
<1>3. f = [e EXCEPT !.reserved = @ - m, !.outstanding = @ + m]
  BY DEF ActivateExposure
<1> HIDE DEF m
<1>4. f = [outstanding |-> e.outstanding + m, reserved |-> e.reserved - m,
           max_allowed |-> e.max_allowed, frozen |-> e.frozen]
  BY <1>1, <1>3 DEF Exposure
<1>5. e.reserved - m \in Nat /\ e.outstanding + m \in Nat
  BY <1>1, <1>2
<1>6. f \in Exposure
  BY <1>1, <1>4, <1>5 DEF Exposure
<1>7. QED
  BY <1>1, <1>2, <1>4, <1>6 DEF Sound

\* A release frees at most what is reserved.
LEMMA ReleaseFacts ==
  ASSUME NEW e, Sound(e), NEW n \in Nat
  PROVE  LET f == ReleaseReservation(e, n) IN
         /\ Sound(f)
         /\ f.outstanding = e.outstanding /\ f.reserved \in 0..e.reserved
         /\ f.max_allowed = e.max_allowed /\ f.frozen = e.frozen
BY DEF Sound, Exposure, ReleaseReservation, Lesser

\* The circuit breaker touches no amount.
LEMMA FreezeFacts ==
  ASSUME NEW e, Sound(e)
  PROVE  LET f == FreezeAgentExposure(e) IN
         /\ Sound(f)
         /\ f.outstanding = e.outstanding /\ f.reserved = e.reserved
         /\ f.max_allowed = e.max_allowed /\ f.frozen
<1> DEFINE f == FreezeAgentExposure(e)
<1>1. f = [e EXCEPT !.frozen = TRUE] /\ e \in Exposure
  BY DEF Sound, FreezeAgentExposure
<1>2. /\ f \in Exposure /\ f.frozen
      /\ f.outstanding = e.outstanding /\ f.reserved = e.reserved
      /\ f.max_allowed = e.max_allowed
  BY <1>1 DEF Exposure
<1>3. QED
  BY <1>2 DEF Sound
===============================================================================
