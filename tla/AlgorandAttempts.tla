--------------------------- MODULE AlgorandAttempts ---------------------------
(***************************************************************************)
(* The record the attempt store keeps per payment proof and the mutations  *)
(* it offers (lib/x402/algorand_payment_attempt_store.ts), as operators on *)
(* one record. Where the record lives - memory, disk, or the copy another  *)
(* process loaded - is the business of AlgorandPayments.                   *)
(***************************************************************************)
EXTENDS ExternalReceipts

CONSTANTS
  Urls,            \* paid resource requests (the request hash)
  None,            \* no url, no receipt, no worker
  MissThreshold    \* misses in a row before a transaction counts as missing

ASSUME ThresholdType == MissThreshold \in Nat \ {0, 1}
ASSUME NoneFresh == None \notin Payments \cup Urls

\* "absent": no file. "torn": the exclusive create happened, the content did not.
Status     == {"absent", "torn", "settling", "settled", "indeterminate", "failed"}

\* What the facilitator said of a settlement: everything, no transaction or payer,
\* or an amount that is not a number.
Settlement == {"none", "full", "partial", "badAmount"}
\* What a finality check answers, and what is kept of it: the outcomes that leave
\* the payment open are told apart by the misses alone.
Check      == {"pending", "confirmed", "not_found", "mismatch", "unavailable"}
Finality   == {"open", "confirmed", "mismatch"}
Refund     == {"not_required", "pending_reconciliation", "review_required", "completed"}

Attempt ==
  [status: Status, url: Urls \cup {None}, settlement: Settlement,
   receipt: Payments \cup {None}, finality: Finality,
   misses: 0..MissThreshold, refund: Refund]

NoAttempt ==
  [status |-> "absent", url |-> None, settlement |-> "none", receipt |-> None,
   finality |-> "open", misses |-> 0, refund |-> "not_required"]

TornAttempt == [NoAttempt EXCEPT !.status = "torn"]

NewAttempt(u) == [NoAttempt EXCEPT !.status = "settling", !.url = u]

\* readFile / valid: a half-written file and a settled one without a numeric
\* amount are treated as if they did not exist.
Readable(a) ==
  /\ a.status \notin {"absent", "torn"}
  /\ ~(a.status = "settled" /\ a.settlement = "badAmount")

Loaded(a) == IF Readable(a) THEN a ELSE NoAttempt

\* Broken variant: a later settle() forgets the state of the refund.
SettleForgetsRefund(a, s, r) ==
  [a EXCEPT !.status = "settled", !.settlement = s, !.receipt = r,
            !.refund = "not_required"]

Settle(a, s, r) ==
  [a EXCEPT !.status = "settled", !.settlement = s, !.receipt = r,
            !.refund = IF @ \in {"review_required", "completed"}
                         THEN @ ELSE "not_required"]

\* Broken variant: a timed-out settlement is not recorded.
MarkIndeterminateSkipped(a) == a

MarkIndeterminate(a) ==
  [a EXCEPT !.status = "indeterminate", !.refund = "pending_reconciliation"]

\* Broken variant: a rejected payment gives its claim back.
MarkFailedReleases(a) == NoAttempt

MarkFailed(a) == [a EXCEPT !.status = "failed", !.refund = "not_required"]

RequireRefundReview(a) == [a EXCEPT !.refund = "review_required"]

CanCompleteRefund(a) == a.refund = "review_required"
CompleteRefund(a)    == [a EXCEPT !.refund = "completed"]

\* Broken variant: the counter runs one past its bound.
RecordFinalityRunsOver(a, c) ==
  [a EXCEPT !.finality = IF c \in Finality THEN c ELSE "open",
            !.misses = IF c = "not_found"
                         THEN IF @ <= MissThreshold THEN @ + 1 ELSE @
                         ELSE 0]

\* Misses beyond the threshold are not told apart: the counter saturates there.
RecordFinality(a, c) ==
  [a EXCEPT !.finality = IF c \in Finality THEN c ELSE "open",
            !.misses = IF c = "not_found"
                         THEN IF @ < MissThreshold THEN @ + 1 ELSE @
                         ELSE 0]

\* Broken variant: an attempt in refund review is no longer looked at.
TerminalInReview(a) == a.finality # "open" \/ a.refund = "review_required"

\* reconcileAlgorandPayment returns early once the outcome is final.
Terminal(a) == a.finality # "open"

\* The tail of reconcileAlgorandPayment: which outcomes are held against the
\* payment. "graceOver" is the age test against missingTransactionGraceMs.
Disputed(a, c, graceOver) ==
  \/ c = "mismatch"
  \/ c = "not_found" /\ a.misses >= MissThreshold /\ graceOver
===============================================================================
