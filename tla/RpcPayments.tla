----------------------------- MODULE RpcPayments -----------------------------
(***************************************************************************)
(* The NEAR and the QIE x402 paid credit score, in one API process         *)
(* (api/near_x402_routes.ts, api/qie_x402_routes.ts). Their handlers are   *)
(* the same but for the settlement:                                        *)
(*                                                                         *)
(*   NEAR   the payer sends the transfer first and names it in the proof;  *)
(*          the server looks it up over RPC. Many proofs encode the same   *)
(*          transfer, so an index of exclusively created files says which  *)
(*          proof owns a transaction.                                      *)
(*   QIE    a facilitator submits the signed transfer and reports on it.   *)
(*                                                                         *)
(* Both keep an attempt file per proof, anchor a provisional receipt in    *)
(* the shared registry and confirm it over RPC - in the request and when   *)
(* the payer polls its attempt; no loop does it later.                     *)
(*                                                                         *)
(* The stores write a file and then remember it in one synchronous run, so *)
(* their memory is a copy of the readable files and is left out. As in     *)
(* AlgorandPayments a worker whose pc is in Held owns the thread, and a    *)
(* crash may come between any two steps.                                   *)
(***************************************************************************)
EXTENDS ExternalReceipts

CONSTANTS
  Facilitated,  \* the QIE proofs; the others are NEAR proofs
  Urls,         \* paid resource requests (the request hash)
  None,         \* no url, no receipt, no payment, no owner
  Torn,         \* an owner file that was created and not written
  Handlers,     \* HTTP requests in progress, for the score or for its status
  Replies,      \* the successes the QIE facilitator may report
  Deployments,  \* sets of routes a deployment may have enabled
  MaxFaults     \* bound on crashes, failed writes and demo resets together

ASSUME RpcConstants ==
  /\ Facilitated \subseteq Payments
  /\ \A p \in Facilitated, q \in Payments : TxOf[p] = TxOf[q] => p = q
  /\ None \notin Payments \cup Urls
  /\ Torn \notin Payments \cup {None}
  /\ Replies \subseteq {"full", "noPayer", "noTx"}
  /\ Deployments \subseteq SUBSET {"near", "qie"}
  /\ MaxFaults \in Nat

VARIABLES
  routes,      \* the routes that are configured, fixed when the process starts
  attempts,    \* attempt files, one per proof
  txOwner,     \* the files that say which proof owns a NEAR transaction
  registry,    \* live receipts
  proofFile,   \* durable receipt copies
  credits,     \* revenue the live ledger gave the seller, per receipt
  chain,       \* what RPC knows of each transaction
  job,         \* what each handler is doing
  \* history
  served,      \* <<transaction, url>> pairs answered with the paid report
  lost,        \* proofs whose handler a crash or a failed write ended
  faults       \* crashes, failed writes and resets so far

receipts == <<registry, proofFile, credits>>
outside  == <<routes, chain>>
vars     == <<routes, attempts, txOwner, registry, proofFile, credits, chain, job,
              served, lost, faults>>

Route(p) == IF p \in Facilitated THEN "qie" ELSE "near"

-------------------------------------------------------------------------------
(* Attempts: near_payment_attempt_store.ts, qie_payment_attempt_store.ts *)

\* "absent": no file. "torn": the exclusive create happened, the content did not.
Status   == {"absent", "torn", "settling", "settled", "indeterminate", "failed"}
\* What was settled; "full" has a payer and a transaction.
Reply    == {"none", "full", "noPayer", "noTx"}
Check    == {"pending", "confirmed", "not_found", "mismatch", "unavailable"}
\* What is kept of a check: only the final outcomes change what happens next.
Finality == {"open", "confirmed", "mismatch"}

Attempt ==
  [status: Status, url: Urls \cup {None}, reply: Reply,
   receipt: Payments \cup {None}, finality: Finality]

NoAttempt == [status |-> "absent", url |-> None, reply |-> "none",
              receipt |-> None, finality |-> "open"]
TornAttempt   == [NoAttempt EXCEPT !.status = "torn"]
NewAttempt(u) == [NoAttempt EXCEPT !.status = "settling", !.url = u]

\* getByProofHash finds the attempt: in memory, or in a readable file.
Found(p) == attempts[p].status \notin {"absent", "torn"}

\* update / persist: a temporary file is written, synced and renamed over the file.
Update(p, a) == attempts' = [attempts EXCEPT ![p] = a]

Settle(a, reply, r) ==
  [a EXCEPT !.status = "settled", !.reply = reply, !.receipt = r]
MarkIndeterminate(a) == [a EXCEPT !.status = "indeterminate"]
MarkFailed(a)        == [a EXCEPT !.status = "failed"]
RecordFinality(a, c) ==
  [a EXCEPT !.finality = IF c \in Finality THEN c ELSE "open"]

Terminal(a) == a.finality # "open"

-------------------------------------------------------------------------------
(* Handlers *)

Held  == {"claiming", "owning", "naming", "anchoring", "binding",
          "unidentified", "finalizing", "challenging", "responding"}
Await == {"authorizing", "settling", "judged", "verifying", "answered"}

Job == [pc: {"idle"} \cup Await \cup Held, asked: BOOLEAN,
        payment: Payments \cup {None}, url: Urls \cup {None},
        reply: Reply, receipt: Payments \cup {None}, answer: Check \cup {"none"}]

\* "asked": the handler owes the payer a report, so reconciliation returns to it.
Idle == [pc |-> "idle", asked |-> FALSE, payment |-> None, url |-> None,
         reply |-> "none", receipt |-> None, answer |-> "none"]

ThreadFree == \A h \in Handlers : job[h].pc \notin Held

Goto(h, pc) == job' = [job EXCEPT ![h].pc = pc, ![h].answer = "none"]
Done(h)     == job' = [job EXCEPT ![h] = Idle]

\* reconcileNearPayment / reconcileQiePayment return to whoever called them.
AfterReconcile(h) == IF job[h].asked THEN Goto(h, "responding") ELSE Done(h)

Init ==
  /\ routes \in Deployments
  /\ attempts = [p \in Payments |-> NoAttempt]
  /\ txOwner = [t \in Txs |-> None]
  /\ registry = NoReceipts /\ proofFile = NoReceipts /\ credits = NoCredits
  /\ chain = [t \in Txs |-> "unseen"]
  /\ job = [h \in Handlers |-> Idle]
  /\ served = {} /\ lost = {}
  /\ faults = 0

\* persistExternalReceiptProof: a failed write is swallowed.
PersistProof(p, status) ==
  \/ proofFile' = [proofFile EXCEPT ![p] = status] /\ UNCHANGED faults
  \/ /\ faults < MaxFaults
     /\ faults' = faults + 1
     /\ UNCHANGED proofFile

\* The report goes out for the transaction proof q paid with, if q is settled and
\* bound to this request.
ServeFor(q, u) ==
  served' = IF attempts[q].status = "settled" /\ attempts[q].url = u
              THEN served \cup {<<TxOf[q], u>>} ELSE served

-------------------------------------------------------------------------------
(* The paid request: respondCreditScore *)

\* A proof that is known gets the stored report, a refusal, or word that it is in
\* progress.
Request(h, p, u) ==
  /\ ThreadFree
  /\ Route(p) \in routes
  /\ job[h].pc = "idle"
  /\ IF Found(p)
       THEN ServeFor(p, u) /\ UNCHANGED job
       ELSE /\ job' = [job EXCEPT ![h] = [Idle EXCEPT !.pc = "authorizing",
                         !.asked = TRUE, !.payment = p, !.url = u]]
            /\ UNCHANGED served
  /\ UNCHANGED <<attempts, txOwner, receipts, outside, lost, faults>>

\* The proof does not meet the requirements, or the facilitator is unreachable.
AuthorizeFails(h) ==
  /\ job[h].pc = "authorizing"
  /\ Done(h)
  /\ UNCHANGED <<attempts, txOwner, receipts, outside, served, lost, faults>>

\* claim: the lookup again, then an exclusive create. An unreadable file in the way
\* makes it throw.
Claim(h) ==
  LET p == job[h].payment IN
  /\ ThreadFree
  /\ job[h].pc = "authorizing"
  /\ \/ /\ Found(p)
        /\ ServeFor(p, job[h].url)
        /\ Done(h)
        /\ UNCHANGED attempts
     \/ /\ attempts[p].status = "torn"
        /\ Done(h)
        /\ UNCHANGED <<attempts, served>>
     \/ /\ attempts[p].status = "absent"
        /\ Update(p, TornAttempt)
        /\ Goto(h, "claiming")
        /\ UNCHANGED served
  /\ UNCHANGED <<txOwner, receipts, outside, lost, faults>>

\* The content is synced. A QIE payment then goes to the facilitator.
ClaimSynced(h) ==
  LET p == job[h].payment IN
  /\ job[h].pc = "claiming"
  /\ Update(p, NewAttempt(job[h].url))
  /\ Goto(h, IF p \in Facilitated THEN "settling" ELSE "owning")
  /\ UNCHANGED <<txOwner, receipts, outside, served, lost, faults>>

-------------------------------------------------------------------------------
(* The owner of a NEAR transaction: claimTransaction *)

\* Broken variant: the owner is not asked for, the proof's own claim will do.
CreateOwnerAnyway(h) ==
  LET t == TxOf[job[h].payment] IN
  /\ job[h].pc = "owning"
  /\ txOwner' = [txOwner EXCEPT ![t] = Torn]
  /\ Goto(h, "naming")
  /\ UNCHANGED <<attempts, receipts, outside, served, lost, faults>>

\* An exclusive create succeeds.
CreateOwner(h) ==
  LET t == TxOf[job[h].payment] IN
  /\ job[h].pc = "owning"
  /\ txOwner[t] = None
  /\ txOwner' = [txOwner EXCEPT ![t] = Torn]
  /\ Goto(h, "naming")
  /\ UNCHANGED <<attempts, receipts, outside, served, lost, faults>>

\* The content is synced; the RPC lookup of settle() starts.
NameOwner(h) ==
  LET p == job[h].payment IN
  /\ job[h].pc = "naming"
  /\ txOwner' = [txOwner EXCEPT ![TxOf[p]] = p]
  /\ Goto(h, "settling")
  /\ UNCHANGED <<attempts, receipts, outside, served, lost, faults>>

\* Broken variant: a proof that lost the race for its transaction is left as it is.
LeaveUsed(h) ==
  LET p == job[h].payment
      q == txOwner[TxOf[p]]
  IN
  /\ job[h].pc = "owning"
  /\ q \in Payments
  /\ ServeFor(q, job[h].url)
  /\ Done(h)
  /\ UNCHANGED <<attempts, txOwner, receipts, outside, lost, faults>>

\* Another proof owns the transaction: this one has failed for good, and the payer
\* gets the owner's report only if that is settled for the same request.
RefuseUsed(h) ==
  LET p == job[h].payment
      q == txOwner[TxOf[p]]
  IN
  /\ job[h].pc = "owning"
  /\ q \in Payments
  /\ Update(p, MarkFailed(attempts[p]))
  /\ ServeFor(q, job[h].url)
  /\ Done(h)
  /\ UNCHANGED <<txOwner, receipts, outside, lost, faults>>

\* The owner's file exists and does not say whose it is: claimTransaction throws,
\* before anything is said of the attempt.
OwnerUnreadable(h) ==
  /\ job[h].pc = "owning"
  /\ txOwner[TxOf[job[h].payment]] = Torn
  /\ Done(h)
  /\ UNCHANGED <<attempts, txOwner, receipts, outside, served, lost, faults>>

-------------------------------------------------------------------------------
(* RPC, the facilitator and the chain *)

\* A transfer is unknown to RPC, then included and in time deep enough - or included
\* and failed, or with another receiver or amount.
ChainState == {"unseen", "seen", "final", "wrong"}

\* A NEAR transfer is the payer's and may come at any time; a QIE transfer is
\* submitted once its proof is claimed. Nobody looks at those of a route that is off.
ChainAdvances(t) ==
  /\ \E p \in Payments : TxOf[p] = t /\ Route(p) \in routes
  /\ \A p \in Facilitated : TxOf[p] = t => Found(p)
  /\ \/ /\ chain[t] = "unseen"
        /\ \E s \in {"seen", "wrong"} : chain' = [chain EXCEPT ![t] = s]
     \/ /\ chain[t] = "seen"
        /\ chain' = [chain EXCEPT ![t] = "final"]
  /\ UNCHANGED <<routes, attempts, txOwner, receipts, job, served, lost, faults>>

\* verifyNearAssetTransfer / verifyQieAssetTransfer: the transfer, then its depth.
Verdict(t) ==
  CASE chain[t] = "unseen" -> "not_found"
    [] chain[t] = "wrong"  -> "mismatch"
    [] chain[t] = "seen"   -> "pending"
    [] chain[t] = "final"  -> "confirmed"

\* The answer is taken now and acted on when the handler next runs.
Answered(h, answer, reply) ==
  job' = [job EXCEPT ![h].pc = IF @ = "settling" THEN "judged" ELSE "answered",
                     ![h].answer = answer, ![h].reply = reply]

AsksRpc(h) ==
  \/ job[h].pc = "verifying"
  \/ job[h].pc = "settling" /\ job[h].payment \notin Facilitated

RpcAnswers(h) ==
  /\ AsksRpc(h)
  /\ \E a \in {Verdict(TxOf[job[h].payment]), "unavailable"} :
       Answered(h, a, IF job[h].pc = "settling" THEN "full" ELSE job[h].reply)
  /\ UNCHANGED <<attempts, txOwner, receipts, outside, served, lost, faults>>

\* The facilitator settles, refuses, or cannot be heard.
FacilitatorAnswers(h) ==
  /\ job[h].pc = "settling" /\ job[h].payment \in Facilitated
  /\ \/ \E r \in Replies : Answered(h, "confirmed", r)
     \/ \E a \in {"mismatch", "unavailable"} : Answered(h, a, "none")
  /\ UNCHANGED <<attempts, txOwner, receipts, outside, served, lost, faults>>

-------------------------------------------------------------------------------
(* The settlement's outcome *)

\* Broken variant: a transfer nobody has seen yet is taken on trust.
SettleSucceedsUnseen(h) ==
  LET p == job[h].payment IN
  /\ ThreadFree
  /\ job[h].pc = "judged" /\ job[h].answer \in {"confirmed", "pending", "not_found"}
  /\ Update(p, Settle(attempts[p], job[h].reply, None))
  /\ Goto(h, "anchoring")
  /\ UNCHANGED <<txOwner, receipts, outside, served, lost, faults>>

\* The first of three settle() calls: the outcome, without a receipt.
SettleSucceeds(h) ==
  LET p == job[h].payment IN
  /\ ThreadFree
  /\ job[h].pc = "judged" /\ job[h].answer \in {"confirmed", "pending"}
  /\ Update(p, Settle(attempts[p], job[h].reply, None))
  /\ Goto(h, "anchoring")
  /\ UNCHANGED <<txOwner, receipts, outside, served, lost, faults>>

SettleRejected(h) ==
  LET p == job[h].payment IN
  /\ ThreadFree
  /\ job[h].pc = "judged" /\ job[h].answer \in {"not_found", "mismatch"}
  /\ Update(p, MarkFailed(attempts[p]))
  /\ Done(h)
  /\ UNCHANGED <<txOwner, receipts, outside, served, lost, faults>>

SettleUnknown(h) ==
  LET p == job[h].payment IN
  /\ ThreadFree
  /\ job[h].pc = "judged" /\ job[h].answer = "unavailable"
  /\ Update(p, MarkIndeterminate(attempts[p]))
  /\ Done(h)
  /\ UNCHANGED <<txOwner, receipts, outside, served, lost, faults>>

\* anchorNearCreditScoreSettlement: nothing to anchor without a payer and a
\* transaction; a live receipt of the same transaction is used again.
Anchor(h) ==
  LET p == job[h].payment
      r == IF SameTx(registry, p) = {} THEN p ELSE CHOOSE q \in SameTx(registry, p) : TRUE
  IN
  /\ job[h].pc = "anchoring"
  /\ \/ /\ job[h].reply # "full"
        /\ Goto(h, "binding")
        /\ UNCHANGED <<registry, proofFile, faults>>
     \/ /\ job[h].reply = "full"
        /\ registry' = IF r = p /\ registry[p] = "none" THEN Anchored(registry, p)
                                                        ELSE registry
        /\ PersistProof(r, registry'[r])
        /\ job' = [job EXCEPT ![h].pc = "binding", ![h].receipt = r]
  /\ UNCHANGED <<attempts, txOwner, credits, outside, served, lost>>

\* The second settle() binds the receipt; reconciliation starts at once and yields to
\* the RPC call. Without a transaction QIE has nothing to look up yet.
Bind(h) ==
  LET p == job[h].payment IN
  /\ job[h].pc = "binding"
  /\ Update(p, Settle(attempts[p], job[h].reply, job[h].receipt))
  /\ Goto(h, IF job[h].reply = "noTx" THEN "responding" ELSE "verifying")
  /\ UNCHANGED <<txOwner, receipts, outside, served, lost, faults>>

\* Broken variant: the last settle() leaves the receipt's id out.
RespondForgetsReceipt(h) ==
  LET p == job[h].payment IN
  /\ job[h].pc = "responding"
  /\ Update(p, Settle(attempts[p], job[h].reply, None))
  /\ served' = served \cup {<<TxOf[p], job[h].url>>}
  /\ Done(h)
  /\ UNCHANGED <<txOwner, receipts, outside, lost, faults>>

\* The third settle() stores the final report, which is then sent.
Respond(h) ==
  LET p == job[h].payment IN
  /\ job[h].pc = "responding"
  /\ Update(p, Settle(attempts[p], job[h].reply, job[h].receipt))
  /\ served' = served \cup {<<TxOf[p], job[h].url>>}
  /\ Done(h)
  /\ UNCHANGED <<txOwner, receipts, outside, lost, faults>>

-------------------------------------------------------------------------------
(* Reconciliation: reconcileNearPayment, reconcileQiePayment *)

\* The payer polls its attempt (respondPaymentAttempt). The receipt is read here and
\* used after the await; what was settled without a transaction is a mismatch.
Poll(h, p) ==
  LET a == attempts[p] IN
  /\ ThreadFree
  /\ Route(p) \in routes
  /\ job[h].pc = "idle"
  /\ a.status = "settled" /\ ~Terminal(a)
  /\ job' = [job EXCEPT ![h] = [Idle EXCEPT
       !.pc = IF a.reply = "noTx" THEN "unidentified" ELSE "verifying",
       !.payment = p, !.reply = a.reply, !.receipt = a.receipt]]
  /\ UNCHANGED <<attempts, txOwner, receipts, outside, served, lost, faults>>

\* Such a settlement has no receipt to challenge.
RecordUnidentified(h) ==
  LET p == job[h].payment IN
  /\ job[h].pc = "unidentified"
  /\ Update(p, RecordFinality(attempts[p], "mismatch"))
  /\ AfterReconcile(h)
  /\ UNCHANGED <<txOwner, receipts, outside, served, lost, faults>>

\* recordFinality overwrites whatever was recorded during the await.
ApplyFinality(h) ==
  LET p == job[h].payment
      c == job[h].answer
  IN
  /\ ThreadFree
  /\ job[h].pc = "answered"
  /\ Update(p, RecordFinality(attempts[p], c))
  /\ CASE c = "confirmed" /\ job[h].receipt # None -> Goto(h, "finalizing")
       [] c = "mismatch" /\ job[h].receipt # None  -> Goto(h, "challenging")
       [] OTHER -> AfterReconcile(h)
  /\ UNCHANGED <<txOwner, receipts, outside, served, lost, faults>>

\* finalizeExternalReceipt: it throws for a receipt the ledger does not know (any
\* more), which ends the handler.
Finalize(h) ==
  LET r == job[h].receipt IN
  /\ job[h].pc = "finalizing"
  /\ \/ /\ CanFinalize(registry, r)
        /\ registry' = Finalized(registry, r)
        /\ credits' = CreditedBy(credits, registry, r)
        /\ PersistProof(r, "finalized")
        /\ AfterReconcile(h)
     \/ /\ ~CanFinalize(registry, r)
        /\ Done(h)
        /\ UNCHANGED <<receipts, faults>>
  /\ UNCHANGED <<attempts, txOwner, outside, served, lost>>

Challenge(h) ==
  LET r == job[h].receipt IN
  /\ job[h].pc = "challenging"
  /\ \/ /\ CanChallenge(registry, r)
        /\ registry' = Challenged(registry, r)
        /\ PersistProof(r, Challenged(registry, r)[r])
        /\ AfterReconcile(h)
     \/ /\ ~CanChallenge(registry, r)
        /\ Done(h)
        /\ UNCHANGED <<registry, proofFile, faults>>
  /\ UNCHANGED <<attempts, txOwner, credits, outside, served, lost>>

-------------------------------------------------------------------------------
(* Faults *)

\* A store write throws (full disk): the handler ends there, and a file that was
\* created stays behind.
WriteFails(h) ==
  /\ faults < MaxFaults
  /\ \/ job[h].pc \in {"claiming", "naming", "binding", "unidentified", "responding"}
     \/ job[h].pc \in {"judged", "answered"} /\ ThreadFree
     \/ job[h].pc = "owning" /\ txOwner[TxOf[job[h].payment]] # Torn
  /\ lost' = lost \cup {job[h].payment}
  /\ Done(h)
  /\ faults' = faults + 1
  /\ UNCHANGED <<attempts, txOwner, receipts, outside, served>>

\* The process dies and starts again: receipts come back from their copies, nothing
\* in flight survives.
Crash ==
  /\ faults < MaxFaults
  /\ faults' = faults + 1
  /\ \E S \in SUBSET Payments :
       /\ Restorable(proofFile, S)
       /\ registry' = Restored(proofFile, S)
       /\ credits'  = RestoredCredits(proofFile, S)
  /\ lost' = lost \cup ({job[h].payment : h \in Handlers} \ {None})
  /\ job' = [h \in Handlers |-> Idle]
  /\ UNCHANGED <<attempts, txOwner, proofFile, outside, served>>

\* The demo endpoints replace the ledger; files and handlers in flight stay.
Reset ==
  /\ ThreadFree
  /\ faults < MaxFaults
  /\ faults' = faults + 1
  /\ registry' = NoReceipts /\ credits' = NoCredits
  /\ UNCHANGED <<attempts, txOwner, proofFile, outside, job, served, lost>>

-------------------------------------------------------------------------------
\* The rest of a run of a handler, and the points where it waits for the thread.
Run(h) ==
  \/ ClaimSynced(h)
  \/ CreateOwner(h) \/ NameOwner(h) \/ RefuseUsed(h) \/ OwnerUnreadable(h)
  \/ Anchor(h) \/ Bind(h) \/ Respond(h)
  \/ RecordUnidentified(h) \/ Finalize(h) \/ Challenge(h)

Resume(h) ==
  \/ SettleSucceeds(h) \/ SettleRejected(h) \/ SettleUnknown(h)
  \/ ApplyFinality(h)

Call(h) == RpcAnswers(h) \/ FacilitatorAnswers(h)

Handler(h) ==
  \/ \E p \in Payments, u \in Urls : Request(h, p, u)
  \/ \E p \in Payments : Poll(h, p)
  \/ AuthorizeFails(h) \/ Claim(h)
  \/ Run(h) \/ Resume(h) \/ Call(h)
  \/ WriteFails(h)

Next ==
  \/ \E h \in Handlers : Handler(h)
  \/ \E t \in Txs : ChainAdvances(t)
  \/ Crash
  \/ Reset

Spec == Init /\ [][Next]_vars

-------------------------------------------------------------------------------
(* Properties *)

TypeOK ==
  /\ routes \in Deployments
  /\ attempts \in [Payments -> Attempt]
  /\ txOwner \in [Txs -> Payments \cup {None, Torn}]
  /\ registry \in [Payments -> ReceiptStatus]
  /\ proofFile \in [Payments -> ReceiptStatus]
  /\ credits \in [Payments -> 0..1]
  /\ chain \in [Txs -> ChainState]
  /\ job \in [Handlers -> Job]
  /\ served \subseteq Txs \X Urls
  /\ lost \subseteq Payments
  /\ faults \in Nat

\* The proof a transaction pays for, if it is known.
IsPayer(p, t) ==
  TxOf[p] = t /\ (p \in Facilitated \/ txOwner[t] = p)
Payer(t) == CHOOSE p \in Payments : IsPayer(p, t)
HasPayer(t) ==
  \E p \in Payments : IsPayer(p, t) /\ Found(p)

\* A NEAR report goes out only for a transfer RPC has seen, paid to the configured
\* account, whatever proof it came with; one the server never asked about, or asked
\* too early, buys nothing (settle, and the order of its answer and the claim).
ServedIsPaid ==
  \A x \in served :
    (\E p \in Payments \ Facilitated : TxOf[p] = x[1]) => chain[x[1]] \in {"seen", "final"}

\* Revenue is counted once per transaction, only while its receipt is finalized, and
\* only for a transfer that is deep enough - through polls racing the request,
\* restarts, failed copies and a replaced ledger.
CountedOnceWhenFinal ==
  /\ \A p \in Payments :
       /\ credits[p] = IF registry[p] = "finalized" THEN 1 ELSE 0
       /\ "finalized" \in {registry[p], proofFile[p]} => chain[TxOf[p]] = "final"
  /\ \A p, q \in Payments :
       registry[p] # "none" /\ registry[q] # "none" /\ TxOf[p] = TxOf[q] => p = q

\* Without faults every settled payment with a payer and a transaction has a receipt
\* of its own, and a recorded confirmation or mismatch has reached it (the three
\* settle() calls, recordFinality, finalize and challenge).
ReceiptsFollowAttempts ==
  faults = 0 /\ ThreadFree =>
    \A p \in Payments :
      LET a == attempts[p] IN
      a.status = "settled" /\ a.reply = "full" =>
        /\ a.receipt = p
        /\ a.finality = "confirmed" => registry[p] = "finalized"
        /\ a.finality = "mismatch"  => registry[p] = "challenged"

OutcomeOf(status) ==
  CASE status = "settling"      -> "charged"
    [] status = "settled"       -> "paid"
    [] status = "failed"        -> "refused"
    [] status = "indeterminate" -> "unknown"

outcome == [t \in Txs |-> IF HasPayer(t) THEN OutcomeOf(attempts[Payer(t)].status)
                                         ELSE "open"]
boundTo == [t \in Txs |-> IF HasPayer(t) THEN attempts[Payer(t)].url ELSE None]

\* One transfer, one report: however many proofs encode a transaction and however
\* requests race, crash and retry, it pays for at most one resource request, its known
\* outcome never changes and the report goes to that request only, once it is settled
\* (claim, claimTransaction, replay, and the refusal of a used transaction).
Promise == INSTANCE PaymentOnce WITH Payments <- Txs, delivered <- served

TransferOncePromise == Promise!Spec

-------------------------------------------------------------------------------
(* Liveness *)

\* A run between awaits goes on, a handler whose answer is in gets its turn on the
\* thread, and calls to RPC and the facilitator return or time out.
Fairness ==
  \A h \in Handlers : WF_vars(Run(h)) /\ SF_vars(Resume(h)) /\ WF_vars(Call(h))

FairSpec == Spec /\ Fairness

\* A claimed payment does not stay in progress, unless its own handler was cut off or
\* the file of its transaction's owner was left unreadable - then every later proof of
\* that transaction stays behind (claimTransaction throws before markFailed). This says
\* that the request answers, not that the outcome is known: a claim may leave `settling`
\* for `indeterminate`, which is OutcomeBecomesKnown's matter.
ClaimsEnd ==
  \A p \in Payments :
    attempts[p].status = "settling"
      ~> \/ attempts[p].status # "settling"
         \/ p \in lost
         \/ txOwner[TxOf[p]] = Torn

-------------------------------------------------------------------------------
\* Surroundings that do all they can: authorize returns, RPC is heard about a payment
\* now and then, transfers get deep enough or turn out wrong, and payers poll whatever
\* polling can change.
RpcHeard(h, p) ==
  job[h].payment = p /\ RpcAnswers(h) /\ job'[h].answer # "unavailable"

GoodSurroundings ==
  /\ \A h \in Handlers : WF_vars(AuthorizeFails(h) \/ Claim(h))
  /\ \A t \in Txs : WF_vars(ChainAdvances(t))
  /\ \A p \in Payments :
       /\ SF_vars(\E h \in Handlers : RpcHeard(h, p))
       /\ SF_vars(\E h \in Handlers : Poll(h, p))

PolledSpec == FairSpec /\ GoodSurroundings

\* Every claimed payment's outcome becomes known: what the answers to a settlement that
\* could not be heard tell the payer, whose polls are to have it reconciled. Both routes
\* reconcile settled attempts only.
OutcomeBecomesKnown ==
  \A p \in Payments :
    attempts[p].status \in {"settling", "indeterminate"}
      ~> attempts[p].status \in {"settled", "failed"}
===============================================================================
