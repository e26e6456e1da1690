--------------------------- MODULE AlgorandPayments ---------------------------
(***************************************************************************)
(* The Algorand x402 paid credit score: request handlers, status polls and *)
(* the background reconciliation loop of one API process                   *)
(* (api/algorand_x402_routes.ts), the durable attempt store, the external  *)
(* receipt registry of the in-memory ledger with its durable copies, and   *)
(* the operator's refund command, which is a process of its own.           *)
(*                                                                         *)
(* JavaScript runs one handler at a time between awaits, but every write   *)
(* of the attempt store is a durable step a crash can fall behind. A       *)
(* worker whose pc is in Held owns the thread in the middle of such a run; *)
(* no other worker starts one, while a crash or the refund command may     *)
(* come between any two steps.                                             *)
(***************************************************************************)
EXTENDS AlgorandAttempts

CONSTANTS
  Handlers,     \* HTTP requests in progress, for the score or for its status
  Loop,         \* the background reconciliation loop
  Replies,      \* the successes the facilitator may report
  MaxFaults,    \* bound on crashes, failed writes and demo resets together
  MaxRefunds    \* bound on the refunds the operator executes per payment

ASSUME ConstantsType ==
  /\ Loop \notin Handlers
  /\ None \notin Handlers \cup {Loop}
  /\ Replies \subseteq Settlement \ {"none"}
  /\ MaxFaults \in Nat /\ MaxRefunds \in Nat

Workers == Handlers \cup {Loop}

VARIABLES
  mem,         \* attempts the API process remembers
  disk,        \* attempt files
  registry,    \* live receipts
  proofFile,   \* durable receipt copies
  credits,     \* revenue the live ledger gave the seller, per receipt
  indexer,     \* what the Indexer knows of each transaction
  job,         \* what each worker is doing
  cli,         \* the refund command
  \* history
  submitted,   \* times a payment was handed to the facilitator for settlement
  served,      \* <<payment, url>> pairs answered with the paid report
  refunded,    \* refunds executed per payment
  faults       \* crashes, failed writes and resets so far

store    == <<mem, disk>>
receipts == <<registry, proofFile, credits>>
history  == <<submitted, served, refunded>>
vars     == <<mem, disk, registry, proofFile, credits, indexer, job, cli,
              submitted, served, refunded, faults>>

-------------------------------------------------------------------------------
(* Workers *)

Held  == {"claiming", "anchoring", "binding", "unidentified",
          "finalizing", "challenging", "reviewing", "responding"}
Await == {"authorizing", "settling", "verifying", "answered"}

Job == [pc: {"idle"} \cup Await \cup Held, asked: BOOLEAN,
        payment: Payments \cup {None}, url: Urls \cup {None},
        settlement: Settlement, receipt: Payments \cup {None}, answer: Check \cup {"none"}]

\* "asked": the worker owes the payer a report, so reconciliation returns to it.
Idle == [pc |-> "idle", asked |-> FALSE, payment |-> None, url |-> None,
         settlement |-> "none", receipt |-> None, answer |-> "none"]

ThreadFree == \A w \in Workers : job[w].pc \notin Held

Goto(w, pc) == job' = [job EXCEPT ![w].pc = pc, ![w].answer = "none"]
Done(w)     == job' = [job EXCEPT ![w] = Idle]

\* reconcileAlgorandPayment returns to whoever called it.
AfterReconcile(w) == IF job[w].asked THEN Goto(w, "responding") ELSE Done(w)

Init ==
  /\ mem  = [p \in Payments |-> NoAttempt]
  /\ disk = [p \in Payments |-> NoAttempt]
  /\ registry = NoReceipts /\ proofFile = NoReceipts /\ credits = NoCredits
  /\ indexer = [t \in Txs |-> "unseen"]
  /\ job = [w \in Workers |-> Idle]
  /\ cli = [pc |-> "idle", payment |-> None, copy |-> NoAttempt]
  /\ submitted = [p \in Payments |-> 0]
  /\ served = {}
  /\ refunded = [p \in Payments |-> 0]
  /\ faults = 0

\* Memory first, then a readable file.
GetByProofHash(p) ==
  IF mem[p].status # "absent" THEN mem[p] ELSE Loaded(disk[p])

\* update / persist: the change is computed from memory, written to a temporary
\* file, synced, renamed over the attempt's file and then remembered.
Update(p, a) ==
  /\ disk' = [disk EXCEPT ![p] = a]
  /\ mem'  = [mem EXCEPT ![p] = a]

\* persistExternalReceiptProof: a failed write is swallowed.
PersistProof(p, status) ==
  \/ proofFile' = [proofFile EXCEPT ![p] = status] /\ UNCHANGED faults
  \/ /\ faults < MaxFaults
     /\ faults' = faults + 1
     /\ UNCHANGED proofFile

-------------------------------------------------------------------------------
(* The paid request: respondCreditScore *)

\* Broken variant: the stored report is sent whatever request the proof is bound to.
ReplayToAnyone(p, u) ==
  served' = IF GetByProofHash(p).status = "settled"
              THEN served \cup {<<p, u>>} ELSE served

\* A proof that is already known never reaches the facilitator again: it gets the
\* stored report, a refusal, or word that the attempt is in progress.
Replay(p, u) ==
  LET a == GetByProofHash(p) IN
  served' = IF a.status = "settled" /\ a.url = u
              THEN served \cup {<<p, u>>} ELSE served

Request(h, p, u) ==
  /\ ThreadFree
  /\ job[h].pc = "idle"
  /\ IF GetByProofHash(p).status # "absent"
       THEN Replay(p, u) /\ UNCHANGED job
       ELSE /\ job' = [job EXCEPT ![h] = [Idle EXCEPT !.pc = "authorizing",
                         !.asked = TRUE, !.payment = p, !.url = u]]
            /\ UNCHANGED served
  /\ UNCHANGED <<store, receipts, indexer, cli, submitted, refunded, faults>>

\* The facilitator is unreachable or refuses the signature.
AuthorizeFails(h) ==
  /\ job[h].pc = "authorizing"
  /\ Done(h)
  /\ UNCHANGED <<store, receipts, indexer, cli, history, faults>>

\* Broken variant: the lookup before the await is trusted.
ClaimUnchecked(h) ==
  /\ ThreadFree
  /\ job[h].pc = "authorizing"
  /\ disk' = [disk EXCEPT ![job[h].payment] = TornAttempt]
  /\ Goto(h, "claiming")
  /\ UNCHANGED <<mem, receipts, indexer, cli, history, faults>>

\* claim: the lookup again, then an exclusive create. An unreadable file in the
\* way makes claim throw.
Claim(h) ==
  LET p == job[h].payment IN
  /\ ThreadFree
  /\ job[h].pc = "authorizing"
  /\ \/ /\ GetByProofHash(p).status # "absent"
        /\ Replay(p, job[h].url)
        /\ Done(h)
        /\ UNCHANGED disk
     \/ /\ GetByProofHash(p).status = "absent"
        /\ disk[p].status # "absent"
        /\ Done(h)
        /\ UNCHANGED <<disk, served>>
     \/ /\ GetByProofHash(p).status = "absent"
        /\ disk[p].status = "absent"
        /\ disk' = [disk EXCEPT ![p] = TornAttempt]
        /\ Goto(h, "claiming")
        /\ UNCHANGED served
  /\ UNCHANGED <<mem, receipts, indexer, cli, submitted, refunded, faults>>

\* The content is synced; only then is the settlement submitted.
ClaimSynced(h) ==
  LET p == job[h].payment IN
  /\ job[h].pc = "claiming"
  /\ Update(p, NewAttempt(job[h].url))
  /\ submitted' = [submitted EXCEPT ![p] = @ + 1]
  /\ Goto(h, "settling")
  /\ UNCHANGED <<receipts, indexer, cli, served, refunded, faults>>

\* A facilitator timeout: the transfer may or may not have happened.
SettleThrows(h) ==
  LET p == job[h].payment IN
  /\ ThreadFree
  /\ job[h].pc = "settling"
  /\ Update(p, MarkIndeterminate(mem[p]))
  /\ Done(h)
  /\ UNCHANGED <<receipts, indexer, cli, history, faults>>

SettleRejected(h) ==
  LET p == job[h].payment IN
  /\ ThreadFree
  /\ job[h].pc = "settling"
  /\ Update(p, MarkFailed(mem[p]))
  /\ Done(h)
  /\ UNCHANGED <<receipts, indexer, cli, history, faults>>

\* The first of three settle() calls: the outcome, without a receipt.
SettleSucceeds(h, s) ==
  LET p == job[h].payment IN
  /\ ThreadFree
  /\ job[h].pc = "settling"
  /\ Update(p, Settle(mem[p], s, None))
  /\ job' = [job EXCEPT ![h].pc = "anchoring", ![h].settlement = s]
  /\ UNCHANGED <<receipts, indexer, cli, history, faults>>

\* anchorAlgorandCreditScoreSettlement: nothing to anchor without an identity and
\* an amount, nor when a live receipt says the transaction paid something else; one
\* that says the same is reused.
Anchor(h) ==
  LET p == job[h].payment IN
  /\ job[h].pc = "anchoring"
  /\ \/ /\ job[h].settlement # "full" \/ SameTx(registry, p) # {}
        /\ Goto(h, "binding")
        /\ UNCHANGED <<registry, proofFile, faults>>
     \/ /\ job[h].settlement = "full"
        /\ \E q \in SameTx(registry, p) :
             /\ PersistProof(q, registry[q])
             /\ job' = [job EXCEPT ![h].pc = "binding", ![h].receipt = q]
        /\ UNCHANGED registry
     \/ /\ job[h].settlement = "full"
        /\ SameTx(registry, p) = {}
        /\ registry' = Anchored(registry, p)
        /\ PersistProof(p, "anchored")
        /\ job' = [job EXCEPT ![h].pc = "binding", ![h].receipt = p]
  /\ UNCHANGED <<store, credits, indexer, cli, history>>

\* The second settle() binds the receipt; reconciliation starts at once and, when
\* the transaction can be looked up, yields to the Indexer call.
Bind(h) ==
  LET p == job[h].payment IN
  /\ job[h].pc = "binding"
  /\ Update(p, Settle(mem[p], job[h].settlement, job[h].receipt))
  /\ Goto(h, IF job[h].settlement = "partial" THEN "unidentified" ELSE "verifying")
  /\ UNCHANGED <<receipts, indexer, cli, history, faults>>

\* The third settle() stores the final report, which is then sent.
Respond(h) ==
  LET p == job[h].payment IN
  /\ job[h].pc = "responding"
  /\ Update(p, Settle(mem[p], job[h].settlement, job[h].receipt))
  /\ served' = served \cup {<<p, job[h].url>>}
  /\ Done(h)
  /\ UNCHANGED <<receipts, indexer, cli, submitted, refunded, faults>>

-------------------------------------------------------------------------------
(* Reconciliation: reconcileAlgorandPayment *)

\* A status poll or the loop. The receipt is read here and used after the await.
\* An attempt checked within the interval is left alone, as is a terminal one;
\* neither changes anything.
StartReconcile(w, p) ==
  LET a == mem[p] IN
  /\ ThreadFree
  /\ job[w].pc = "idle"
  /\ a.status = "settled"
  /\ ~Terminal(a)
  /\ job' = [job EXCEPT ![w] = [Idle EXCEPT
       !.pc = IF a.settlement = "partial" THEN "unidentified" ELSE "verifying",
       !.payment = p, !.settlement = a.settlement, !.receipt = a.receipt]]
  /\ UNCHANGED <<store, receipts, indexer, cli, history, faults>>

\* No transaction or payer to look up: a mismatch without asking the Indexer.
RecordUnidentified(w) ==
  LET p == job[w].payment IN
  /\ job[w].pc = "unidentified"
  /\ Update(p, RecordFinality(mem[p], "mismatch"))
  /\ Goto(w, IF job[w].receipt # None THEN "challenging" ELSE "reviewing")
  /\ UNCHANGED <<receipts, indexer, cli, history, faults>>

\* The Indexer's view of a submitted transfer: unknown, then included and in time deep
\* enough - or included with another sender, receiver, asset or amount.
IndexerState == {"unseen", "seen", "final", "wrong"}

IndexerAdvances(t) ==
  /\ \E p \in Payments : TxOf[p] = t /\ submitted[p] > 0
  /\ \/ /\ indexer[t] = "unseen"
        /\ \E s \in {"seen", "wrong"} : indexer' = [indexer EXCEPT ![t] = s]
     \/ /\ indexer[t] = "seen"
        /\ indexer' = [indexer EXCEPT ![t] = "final"]
  /\ UNCHANGED <<store, receipts, job, cli, history, faults>>

\* verifyAlgorandAssetTransfer: identity and amount are compared before depth.
Verdict(t, s) ==
  CASE indexer[t] = "unseen"                          -> "not_found"
    [] indexer[t] = "wrong"                           -> "mismatch"
    [] indexer[t] \in {"seen", "final"} /\ s = "badAmount" -> "mismatch"
    [] indexer[t] = "seen"  /\ s # "badAmount"        -> "pending"
    [] indexer[t] = "final" /\ s # "badAmount"        -> "confirmed"

\* The answer is taken now and acted on when the handler next runs.
IndexerAnswers(w) ==
  /\ job[w].pc = "verifying"
  /\ job' = [job EXCEPT ![w].pc = "answered",
               ![w].answer = Verdict(TxOf[job[w].payment], job[w].settlement)]
  /\ UNCHANGED <<store, receipts, indexer, cli, history, faults>>

IndexerUnavailable(w) ==
  /\ job[w].pc = "verifying"
  /\ job' = [job EXCEPT ![w].pc = "answered", ![w].answer = "unavailable"]
  /\ UNCHANGED <<store, receipts, indexer, cli, history, faults>>

\* recordFinality overwrites whatever was recorded during the await.
ApplyFinality(w) ==
  LET p == job[w].payment
      c == job[w].answer
      a == RecordFinality(mem[p], c)
  IN
  /\ ThreadFree
  /\ job[w].pc = "answered"
  /\ Update(p, a)
  /\ \E graceOver \in BOOLEAN :
       CASE c = "confirmed" /\ job[w].receipt # None -> Goto(w, "finalizing")
         [] Disputed(a, c, graceOver) /\ job[w].receipt # None -> Goto(w, "challenging")
         [] Disputed(a, c, graceOver) /\ job[w].receipt = None -> Goto(w, "reviewing")
         [] OTHER -> AfterReconcile(w)
  /\ UNCHANGED <<receipts, indexer, cli, history, faults>>

\* finalizeExternalReceipt: unknown and challenged receipts make it throw, which
\* ends the worker's reconciliation (and the request, if it was one).
Finalize(w) ==
  LET r == job[w].receipt IN
  /\ job[w].pc = "finalizing"
  /\ \/ /\ CanFinalize(registry, r)
        /\ registry' = Finalized(registry, r)
        /\ credits' = CreditedBy(credits, registry, r)
        /\ PersistProof(r, "finalized")
        /\ AfterReconcile(w)
     \/ /\ ~CanFinalize(registry, r)
        /\ Done(w)
        /\ UNCHANGED <<receipts, faults>>
  /\ UNCHANGED <<store, indexer, cli, history>>

\* challengeExternalReceipt: an unknown receipt makes it throw.
Challenge(w) ==
  LET r == job[w].receipt IN
  /\ job[w].pc = "challenging"
  /\ \/ /\ CanChallenge(registry, r)
        /\ registry' = Challenged(registry, r)
        /\ PersistProof(r, Challenged(registry, r)[r])
        /\ Goto(w, "reviewing")
     \/ /\ ~CanChallenge(registry, r)
        /\ Done(w)
        /\ UNCHANGED <<registry, proofFile, faults>>
  /\ UNCHANGED <<store, credits, indexer, cli, history>>

\* requireRefundReview, whatever the refund's state is.
Review(w) ==
  LET p == job[w].payment IN
  /\ job[w].pc = "reviewing"
  /\ Update(p, RequireRefundReview(mem[p]))
  /\ AfterReconcile(w)
  /\ UNCHANGED <<receipts, indexer, cli, history, faults>>

-------------------------------------------------------------------------------
(* The refund command: scripts/algorand_x402_refunds.ts *)

\* The operator reads the queue from the files and pays the refund by hand, which
\* takes longer than the run of a handler that put the attempt there.
ExecuteRefund(p) ==
  /\ ThreadFree
  /\ cli.pc = "idle"
  /\ Readable(disk[p]) /\ disk[p].refund = "review_required"
  /\ refunded[p] < MaxRefunds
  /\ refunded' = [refunded EXCEPT ![p] = @ + 1]
  /\ cli' = [cli EXCEPT !.pc = "paid", !.payment = p]
  /\ UNCHANGED <<store, receipts, indexer, job, submitted, served, faults>>

\* The command starts: the store's constructor reads every file.
LoadForRefund ==
  /\ cli.pc = "paid"
  /\ cli' = [cli EXCEPT !.pc = "loaded", !.copy = Loaded(disk[cli.payment])]
  /\ UNCHANGED <<store, receipts, indexer, job, history, faults>>

\* completeRefund on the copy just loaded; it throws unless review is pending.
RecordRefund ==
  /\ cli.pc = "loaded"
  /\ disk' = IF CanCompleteRefund(cli.copy)
               THEN [disk EXCEPT ![cli.payment] = CompleteRefund(cli.copy)]
               ELSE disk
  /\ cli' = [pc |-> "idle", payment |-> None, copy |-> NoAttempt]
  /\ UNCHANGED <<mem, receipts, indexer, job, history, faults>>

-------------------------------------------------------------------------------
(* Faults *)

\* A store write throws (full disk): the worker's handler ends there.
WriteFails(w) ==
  /\ faults < MaxFaults
  /\ \/ job[w].pc \in {"claiming", "binding", "unidentified", "reviewing", "responding"}
     \/ job[w].pc \in {"settling", "answered"} /\ ThreadFree
  /\ Done(w)
  /\ faults' = faults + 1
  /\ UNCHANGED <<store, receipts, indexer, cli, history>>

\* The process dies and starts again: attempts and receipts come back from disk,
\* nothing in flight survives.
Crash ==
  /\ faults < MaxFaults
  /\ faults' = faults + 1
  /\ mem' = [p \in Payments |-> Loaded(disk[p])]
  /\ \E S \in SUBSET Payments :
       /\ Restorable(proofFile, S)
       /\ registry' = Restored(proofFile, S)
       /\ credits'  = RestoredCredits(proofFile, S)
  /\ job' = [w \in Workers |-> Idle]
  /\ UNCHANGED <<disk, proofFile, indexer, cli, history>>

\* The demo endpoints replace the ledger; files and handlers in flight stay.
Reset ==
  /\ ThreadFree
  /\ faults < MaxFaults
  /\ faults' = faults + 1
  /\ registry' = NoReceipts /\ credits' = NoCredits
  /\ UNCHANGED <<store, proofFile, indexer, job, cli, history>>

-------------------------------------------------------------------------------
SettleReply(h) ==
  \/ SettleThrows(h) \/ SettleRejected(h)
  \/ \E s \in Replies : SettleSucceeds(h, s)

Reconcile(w) ==
  \/ RecordUnidentified(w) \/ ApplyFinality(w)
  \/ Finalize(w) \/ Challenge(w) \/ Review(w)

Handler(h) ==
  \/ \E p \in Payments, u \in Urls : Request(h, p, u)
  \/ AuthorizeFails(h) \/ Claim(h) \/ ClaimSynced(h)
  \/ SettleReply(h) \/ Anchor(h) \/ Bind(h) \/ Respond(h)

Worker(w) ==
  \/ \E p \in Payments : StartReconcile(w, p)
  \/ IndexerAnswers(w) \/ IndexerUnavailable(w)
  \/ Reconcile(w) \/ WriteFails(w)

Operator ==
  \/ \E p \in Payments : ExecuteRefund(p)
  \/ LoadForRefund \/ RecordRefund

Next ==
  \/ \E h \in Handlers : Handler(h)
  \/ \E w \in Workers : Worker(w)
  \/ \E t \in Txs : IndexerAdvances(t)
  \/ Operator
  \/ Crash
  \/ Reset

Spec == Init /\ [][Next]_vars

-------------------------------------------------------------------------------
(* Properties *)

TypeOK ==
  /\ mem \in [Payments -> Attempt]
  /\ disk \in [Payments -> Attempt]
  /\ registry \in [Payments -> ReceiptStatus]
  /\ proofFile \in [Payments -> ReceiptStatus]
  /\ credits \in [Payments -> Nat]
  /\ indexer \in [Txs -> IndexerState]
  /\ job \in [Workers -> Job]
  /\ cli \in [pc: {"idle", "paid", "loaded"}, payment: Payments \cup {None},
              copy: Attempt]
  /\ submitted \in [Payments -> Nat]
  /\ served \subseteq Payments \X Urls
  /\ refunded \in [Payments -> Nat]
  /\ faults \in Nat

\* A payment proof is handed to the facilitator for settlement at most once, however
\* many requests carry it and whatever crashes or write failures come in between
\* (the exclusive create in claim, before settle).
SubmittedOnce == \A p \in Payments : submitted[p] <= 1

\* The paid report of one payment goes to one resource request only, and only once
\* the settlement is durable (replay, and the order of settle() and the answer).
ReportForOneRequest ==
  \A x \in served :
    /\ disk[x[1]].status = "settled"
    /\ \A y \in served : x[1] = y[1] => x[2] = y[2]

\* The seller is paid once per finalized receipt, and one transaction has at most one
\* live receipt - also when several payment proofs settle with it and the registry
\* was rebuilt from files in between (anchor's lookup, finalize, restore).
RevenueOncePerTransaction ==
  /\ \A p \in Payments : credits[p] = IF registry[p] = "finalized" THEN 1 ELSE 0
  /\ \A p, q \in Payments :
       registry[p] # "none" /\ registry[q] # "none" /\ TxOf[p] = TxOf[q] => p = q

\* Only a transfer the Indexer holds deep enough, paying what the attempt says, is
\* ever counted or published as finalized - whatever facilitator, restarts and late
\* Indexer answers do.
OnlyConfirmedCounts ==
  \A p \in Payments :
    "finalized" \in {registry[p], proofFile[p]} =>
      indexer[TxOf[p]] = "final"

\* A published finalized receipt never goes back to a weaker state, through resets,
\* re-anchoring of its transaction and restarts.
PublishedFinalityStays ==
  [][\A p \in Payments : proofFile[p] = "finalized" => proofFile'[p] = "finalized"]_vars

\* What a terminal check recorded has been acted on once no handler is in the middle
\* of doing so: a confirmed payment with a receipt was counted (or its receipt had
\* already been challenged), a mismatch went to refund review.
FinalityApplied ==
  ThreadFree =>
    \A p \in Payments :
      /\ mem[p].finality = "confirmed" /\ mem[p].receipt # None
           => registry[mem[p].receipt] \in {"finalized", "challenged"}
      /\ mem[p].finality = "mismatch"
           => mem[p].refund \in {"review_required", "completed"}

\* The same, as long as the process did not crash, fail to write or lose its ledger.
UndisturbedFinalityApplied == faults = 0 => FinalityApplied

\* A payment that was counted as revenue is not up for refund.
CountedNotRefunded ==
  \A p \in Payments :
    mem[p].refund = "review_required" /\ mem[p].receipt # None
      => registry[mem[p].receipt] # "finalized"

\* A refund the operator recorded stays recorded.
RefundStaysRecorded ==
  [][\A p \in Payments : disk[p].refund = "completed" => disk'[p].refund = "completed"]_disk

\* What an attempt file says of its payment.
OutcomeOf(status) ==
  CASE status \in {"absent", "torn"} -> "open"
    [] status = "settling"           -> "charged"
    [] status = "settled"            -> "paid"
    [] status = "failed"             -> "refused"
    [] status = "indeterminate"      -> "unknown"

outcome == [p \in Payments |-> OutcomeOf(disk[p].status)]
boundTo == [p \in Payments |-> disk[p].url]

\* The attempt files implement the promise made to the payer: whatever the handlers,
\* the loop, the refund command and the faults do, a payment is charged once, for one
\* request, and its known outcome never changes (claim, settle, markFailed,
\* markIndeterminate, replay).
Promise == INSTANCE PaymentOnce WITH delivered <- served

ChargedOncePromise == Promise!Spec

-------------------------------------------------------------------------------
(* Liveness *)

\* The run of a handler between awaits goes on; calls to the facilitator and the
\* Indexer return or time out; a callback that is ready gets its turn on the thread;
\* the loop comes round to every pending attempt; the Indexer is not unavailable for
\* ever and its chain makes progress.
Fairness ==
  /\ \A h \in Handlers :
       /\ WF_vars(ClaimSynced(h) \/ Anchor(h) \/ Bind(h) \/ Respond(h))
       /\ SF_vars(SettleReply(h))
  /\ \A w \in Workers :
       /\ WF_vars(RecordUnidentified(w) \/ Finalize(w) \/ Challenge(w) \/ Review(w))
       /\ SF_vars(ApplyFinality(w))
       /\ SF_vars(IndexerAnswers(w))
       /\ WF_vars(IndexerAnswers(w) \/ IndexerUnavailable(w))
  /\ \A p \in Payments : SF_vars(StartReconcile(Loop, p))
  /\ \A t \in Txs : WF_vars(IndexerAdvances(t))

FairSpec == Spec /\ Fairness

\* A settled payment whose transfer is good ends up confirmed, whatever faults came in
\* between: the loop works from the stored attempts, not from the request that made
\* them.
GoodPaymentsConfirmed ==
  \A p \in Payments :
    disk[p].status = "settled" /\ disk[p].settlement = "full"
      ~> disk[p].finality = "confirmed" \/ indexer[TxOf[p]] = "wrong"

\* Without faults a claimed payment does not stay in progress.
ClaimsDoNotLinger ==
  \A p \in Payments :
    disk[p].status = "settling" ~> disk[p].status # "settling" \/ faults > 0
===============================================================================
