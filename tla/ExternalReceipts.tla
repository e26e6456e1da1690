--------------------------- MODULE ExternalReceipts ---------------------------
(***************************************************************************)
(* The registry of non-Casper x402 receipts, its durable copies and the    *)
(* revenue a finalized receipt earns the seller, as operators on the three *)
(* functions the payment modules keep:                                     *)
(*                                                                         *)
(*   registry[p]   live state of the receipt anchored for payment p        *)
(*   proofFile[p]  state in its durable copy (ExternalReceiptProofStore)   *)
(*   credits[p]    times the live ledger credited the seller for it        *)
(*                                                                         *)
(* A receipt id is a content hash of the envelope, which names the report  *)
(* and the anchoring time, so a receipt is named by the payment that       *)
(* anchored it; TxOf[p] is the settlement transaction in the envelope. The *)
(* transaction is also the envelope's nonce: two receipts of the same      *)
(* transaction are a nonce replay.                                         *)
(***************************************************************************)
EXTENDS Naturals

CONSTANTS
  Payments,   \* payment proofs (the SHA-256 of a PAYMENT-SIGNATURE header)
  Txs,        \* settlement transactions on the paying chain
  TxOf        \* the transaction a payment proof settles with

ASSUME TxOfType == TxOf \in [Payments -> Txs]

ReceiptStatus == {"none", "anchored", "finalized", "challenged"}

NoReceipts == [p \in Payments |-> "none"]
NoCredits  == [p \in Payments |-> 0]

\* The receipts of this registry that stand for the transaction of p.
SameTx(reg, p) == {q \in Payments : reg[q] # "none" /\ TxOf[q] = TxOf[p]}

\* Broken variant: anchoring finalizes at once, the default of anchorExternalReceipt.
AnchoredFinal(reg, p) == [reg EXCEPT ![p] = "finalized"]

\* A new receipt starts provisional (finalize: false).
Anchored(reg, p) == [reg EXCEPT ![p] = "anchored"]

\* Finalization is idempotent and refuses a challenged or an unknown receipt.
CanFinalize(reg, p) == reg[p] \in {"anchored", "finalized"}
Finalized(reg, p)   == [reg EXCEPT ![p] = "finalized"]

\* Broken variant: every finalization pays.
CreditedAgain(cr, reg, p) == [cr EXCEPT ![p] = @ + 1]

\* Only the step from anchored to finalized pays the seller.
CreditedBy(cr, reg, p) ==
  IF reg[p] = "anchored" THEN [cr EXCEPT ![p] = @ + 1] ELSE cr

\* A challenge is lost on a finalized receipt and refused for an unknown one.
CanChallenge(reg, p) == reg[p] # "none"
ChallengedAlways(reg, p) == [reg EXCEPT ![p] = "challenged"]   \* broken variant
Challenged(reg, p) ==
  [reg EXCEPT ![p] = IF @ = "finalized" THEN @ ELSE "challenged"]

\* Broken variant: every copy is restored, nonces are not compared.
RestorableAll(files, S) == S = {p \in Payments : files[p] # "none"}

\* Restoring at start-up reads the copies in directory order; a copy whose nonce
\* is taken is refused, so the restored receipts are a maximal set of copies no
\* two of which share a transaction.
Restorable(files, S) ==
  /\ S \subseteq {p \in Payments : files[p] # "none"}
  /\ \A p, q \in S : TxOf[p] = TxOf[q] => p = q
  /\ \A p \in Payments : files[p] # "none" => \E q \in S : TxOf[q] = TxOf[p]

Restored(files, S) ==
  [p \in Payments |-> IF p \in S THEN files[p] ELSE "none"]

RestoredCredits(files, S) ==
  [p \in Payments |-> IF p \in S /\ files[p] = "finalized" THEN 1 ELSE 0]
===============================================================================
