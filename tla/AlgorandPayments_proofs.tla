----------------------- MODULE AlgorandPayments_proofs -----------------------
(***************************************************************************)
(* The inductive invariant of AlgorandPayments, for any number of          *)
(* payments, requests, handlers, transactions, faults and refunds; its     *)
(* safety; and that it implements PaymentOnce. Every step but a crash      *)
(* moves one worker at most: WorkerStep carries over what the other        *)
(* workers rely on, and each action is left with its own worker, its own   *)
(* attempt and its own receipt.                                            *)
(***************************************************************************)
EXTENDS AlgorandPayments, TLAPS

-------------------------------------------------------------------------------
(* The inductive invariant *)

\* One synchronous run at a time.
OneThread ==
  \A v, w \in Workers : job[v].pc \in Held /\ job[w].pc \in Held => v = w

\* Only one handler is between the claim of a payment and its outcome.
OneSettler ==
  \A v, w \in Workers :
    job[v].pc = "settling" /\ job[w].pc = "settling" /\ job[v].payment = job[w].payment
      => v = w

\* A worker past the outcome of a payment.
AfterOutcome == {"anchoring", "binding", "unidentified", "verifying", "answered",
                 "finalizing", "challenging", "reviewing", "responding"}

\* What a worker in the middle of its work may rely on.
WorkerInv(w) ==
  LET j == job[w] p == job[w].payment IN
  /\ j.pc # "idle" => p \in Payments
  /\ j.asked => j.pc # "idle" /\ j.url \in Urls
  /\ j.pc \in {"authorizing", "claiming", "settling", "anchoring", "binding", "responding"}
       => j.asked
  /\ j.pc = "claiming" => disk[p].status = "torn"
  /\ j.pc = "settling" => mem[p].status = "settling" /\ mem[p].url = j.url
  /\ j.pc \in AfterOutcome =>
       mem[p].status = "settled" /\ (j.asked => mem[p].url = j.url)
  /\ j.receipt # None => p \in Payments /\ TxOf[j.receipt] = TxOf[p]
  /\ j.pc = "challenging" => j.receipt # None
  /\ j.pc = "finalizing" => j.receipt # None /\ indexer[TxOf[p]] = "final"
  /\ j.pc = "answered" => j.answer # "none"
  /\ j.pc = "answered" /\ j.answer = "confirmed" => indexer[TxOf[p]] = "final"

\* What an attempt record says about itself.
AttemptInv(p, a) ==
  /\ a.refund \in {"review_required", "completed"} => a.status = "settled"
  /\ a.receipt # None => TxOf[a.receipt] = TxOf[p]

\* Memory and file agree on what was promised; memory lacks an attempt only if its
\* file is missing or cannot be read back.
StoreInv(p) ==
  /\ AttemptInv(p, mem[p])
  /\ AttemptInv(p, disk[p])
  /\ mem[p].status # "torn"
  /\ mem[p].status # "absent" =>
       mem[p].status = disk[p].status /\ mem[p].url = disk[p].url
  /\ disk[p].status \in {"absent", "torn"} => submitted[p] = 0
  /\ disk[p].status \notin {"absent", "torn"} => submitted[p] = 1
  /\ disk[p].status \in {"absent", "torn"} => mem[p].status = "absent"

\* The copy the refund command works on is of a settled attempt that is still settled.
CliInv ==
  LET p == cli.payment IN
  /\ cli.pc # "idle" => p \in Payments
  /\ cli.pc # "loaded" => cli.copy.refund # "review_required"
  /\ cli.copy.refund = "review_required" =>
       /\ p \in Payments
       /\ cli.copy.status = "settled"
       /\ disk[p].status = "settled" /\ cli.copy.url = disk[p].url
       /\ AttemptInv(p, cli.copy)

\* A report went out only for a payment that is settled and bound to its request.
ServedInv ==
  \A x \in served : disk[x[1]].status = "settled" /\ disk[x[1]].url = x[2]

IInv ==
  /\ TypeOK
  /\ OneThread
  /\ OneSettler
  /\ \A w \in Workers : WorkerInv(w)
  /\ \A p \in Payments : StoreInv(p)
  /\ CliInv
  /\ ServedInv
  /\ OnlyConfirmedCounts
  /\ RevenueOncePerTransaction

-------------------------------------------------------------------------------
(* Type correctness *)

\* The record operators of the attempt store stay within the type.
LEMMA AttemptTypes ==
  ASSUME NEW a \in Attempt
  PROVE  /\ Loaded(a) \in Attempt
         /\ MarkIndeterminate(a) \in Attempt
         /\ MarkFailed(a) \in Attempt
         /\ RequireRefundReview(a) \in Attempt
         /\ CompleteRefund(a) \in Attempt
         /\ \A c \in Check : RecordFinality(a, c) \in Attempt
         /\ \A s \in Settlement, r \in Payments \cup {None} : Settle(a, s, r) \in Attempt
<1>1. NoAttempt \in Attempt
  BY ThresholdType DEF NoAttempt, Attempt, Status, Settlement, Finality, Refund
<1>2. ASSUME NEW c \in Check
      PROVE  RecordFinality(a, c) \in Attempt
  <2> DEFINE f == IF c \in Finality THEN c ELSE "open"
             m == IF c = "not_found"
                    THEN IF a.misses < MissThreshold THEN a.misses + 1 ELSE a.misses
                    ELSE 0
  <2>1. f \in Finality
    BY DEF Finality
  <2>2. a.misses \in 0..MissThreshold
    BY DEF Attempt
  <2>3. m \in 0..MissThreshold
    BY <2>2, ThresholdType
  <2>4. RecordFinality(a, c) = [a EXCEPT !.finality = f, !.misses = m]
    BY DEF RecordFinality, Attempt
  <2> HIDE DEF f, m
  <2>5. QED
    BY <2>1, <2>3, <2>4 DEF Attempt
<1>3. ASSUME NEW s \in Settlement, NEW r \in Payments \cup {None}
      PROVE  Settle(a, s, r) \in Attempt
  BY DEF Settle, Attempt, Status, Refund
<1>4. Loaded(a) \in Attempt
  BY <1>1 DEF Loaded
<1>5. /\ MarkIndeterminate(a) \in Attempt
      /\ MarkFailed(a) \in Attempt
      /\ RequireRefundReview(a) \in Attempt
      /\ CompleteRefund(a) \in Attempt
  BY DEF MarkIndeterminate, MarkFailed, RequireRefundReview, CompleteRefund,
         Attempt, Status, Refund
<1>6. QED
  BY <1>2, <1>3, <1>4, <1>5

\* So do the records of an absent, a torn and a freshly claimed attempt.
LEMMA NewAttemptTypes ==
  /\ NoAttempt \in Attempt
  /\ TornAttempt \in Attempt
  /\ \A u \in Urls : NewAttempt(u) \in Attempt
<1>1. NoAttempt \in Attempt
  BY ThresholdType DEF NoAttempt, Attempt, Status, Settlement, Finality, Refund
<1>2. TornAttempt \in Attempt
  BY <1>1 DEF TornAttempt, Attempt, Status
<1>3. ASSUME NEW u \in Urls
      PROVE  NewAttempt(u) \in Attempt
  BY <1>1 DEF NewAttempt, Attempt, Status
<1>4. QED
  BY <1>1, <1>2, <1>3

\* So do the registry operators.
LEMMA RegistryTypes ==
  ASSUME NEW reg \in [Payments -> ReceiptStatus], NEW cr \in [Payments -> Nat],
         NEW p \in Payments \cup {None}
  PROVE  /\ Anchored(reg, p) \in [Payments -> ReceiptStatus]
         /\ Finalized(reg, p) \in [Payments -> ReceiptStatus]
         /\ Challenged(reg, p) \in [Payments -> ReceiptStatus]
         /\ CreditedBy(cr, reg, p) \in [Payments -> Nat]
<1>1. CreditedBy(cr, reg, p) \in [Payments -> Nat]
  <2>1. CASE p \in Payments
    BY <2>1 DEF CreditedBy
  <2>2. CASE p \notin Payments
    <3>1. [cr EXCEPT ![p] = @ + 1] = cr
      BY <2>2
    <3>2. QED
      BY <3>1 DEF CreditedBy
  <2>3. QED
    BY <2>1, <2>2
<1>2. QED
  BY <1>1 DEF Anchored, Finalized, Challenged, ReceiptStatus

\* The shapes of update that the actions share.
LEMMA UpdateTypes ==
  ASSUME TypeOK, NEW p \in Payments, NEW a \in Attempt, Update(p, a)
  PROVE  mem' \in [Payments -> Attempt] /\ disk' \in [Payments -> Attempt]
  BY DEF TypeOK, Update

\* A receipt's durable copy gets a receipt status.
LEMMA PersistProofTypes ==
  ASSUME TypeOK, NEW p \in Payments, NEW s \in ReceiptStatus, PersistProof(p, s)
  PROVE  proofFile' \in [Payments -> ReceiptStatus] /\ faults' \in Nat
  BY DEF TypeOK, PersistProof

\* Workers stay within their type wherever they go next.
LEMMA JobTypes ==
  ASSUME TypeOK, NEW w \in Workers
  PROVE  /\ Done(w) => job' \in [Workers -> Job]
         /\ \A pc \in Await \cup Held : Goto(w, pc) => job' \in [Workers -> Job]
         /\ AfterReconcile(w) => job' \in [Workers -> Job]
<1>1. job[w] \in Job
  BY DEF TypeOK
<1>2. Idle \in Job
  BY DEF Idle, Job, Settlement
<1>3. Done(w) => job' \in [Workers -> Job]
  BY <1>2 DEF TypeOK, Done
<1>4. ASSUME NEW pc \in Await \cup Held, Goto(w, pc)
      PROVE  job' \in [Workers -> Job]
  <2>1. [job[w] EXCEPT !.pc = pc, !.answer = "none"] \in Job
    BY <1>1 DEF Job
  <2>2. job' = [job EXCEPT ![w] = [job[w] EXCEPT !.pc = pc, !.answer = "none"]]
    BY <1>4 DEF Goto
  <2>3. QED
    BY <2>1, <2>2 DEF TypeOK
<1>5. AfterReconcile(w) => job' \in [Workers -> Job]
  BY <1>3, <1>4 DEF AfterReconcile, Held
<1>6. QED
  BY <1>3, <1>4, <1>5

\* What a busy worker's record holds.
LEMMA BusyTypes ==
  ASSUME TypeOK, NEW w \in Workers, WorkerInv(w), job[w].pc # "idle"
  PROVE  /\ job[w].payment \in Payments
         /\ job[w].url \in Urls \cup {None}
         /\ job[w].asked => job[w].url \in Urls
         /\ job[w].settlement \in Settlement
         /\ job[w].receipt \in Payments \cup {None}
         /\ job[w].answer \in Check \cup {"none"}
         /\ mem[job[w].payment] \in Attempt
         /\ disk[job[w].payment] \in Attempt
<1>1. job[w] \in Job
  BY DEF TypeOK
<1>2. job[w].payment \in Payments
  BY DEF WorkerInv
<1>3. QED
  BY <1>1, <1>2 DEF TypeOK, WorkerInv, Job

\* The initial state is well typed ...
LEMMA InitTypes == Init => TypeOK
<1>1. NoAttempt \in Attempt
  BY NewAttemptTypes
<1>2. Idle \in Job
  BY DEF Idle, Job, Settlement
<1>3. QED
  BY <1>1, <1>2
  DEF Init, TypeOK, NoReceipts, NoCredits, ReceiptStatus, IndexerState

\* ... and every step keeps it so, given what workers and the refund command rely on.
LEMMA NextTypes ==
  TypeOK /\ (\A w \in Workers : WorkerInv(w)) /\ CliInv /\ [Next]_vars => TypeOK'
<1> SUFFICES ASSUME TypeOK, \A w \in Workers : WorkerInv(w), CliInv, [Next]_vars
             PROVE  TypeOK'
  OBVIOUS
<1> USE DEF store, receipts, history
<1>1. ASSUME NEW h \in Handlers, NEW p \in Payments, NEW u \in Urls, Request(h, p, u)
      PROVE  TypeOK'
  <2>1. [Idle EXCEPT !.pc = "authorizing", !.asked = TRUE,
                     !.payment = p, !.url = u] \in Job
    BY DEF Idle, Job, Await, Settlement
  <2>2. job' \in [Workers -> Job]
    BY <1>1, <2>1 DEF Request, TypeOK
  <2>3. served' \subseteq Payments \X Urls
    BY <1>1 DEF Request, Replay, TypeOK
  <2>4. QED
    BY <1>1, <2>2, <2>3 DEF Request, TypeOK
<1>2. ASSUME NEW h \in Handlers, AuthorizeFails(h)
      PROVE  TypeOK'
  BY <1>2, JobTypes DEF AuthorizeFails, TypeOK, Workers
<1>3. ASSUME NEW h \in Handlers, Claim(h)
      PROVE  TypeOK'
  <2> DEFINE p == job[h].payment
  <2>1. h \in Workers /\ job[h].pc = "authorizing"
    BY <1>3 DEF Workers, Claim
  <2>2. p \in Payments /\ job[h].url \in Urls
    BY <2>1, BusyTypes DEF WorkerInv
  <2>3. job' \in [Workers -> Job]
    <3>1. Done(h) \/ Goto(h, "claiming")
      BY <1>3 DEF Claim
    <3>2. QED
      BY <2>1, <3>1, JobTypes DEF Held
  <2>4. disk' \in [Payments -> Attempt]
    <3>1. disk' = disk \/ disk' = [disk EXCEPT ![p] = TornAttempt]
      BY <1>3 DEF Claim
    <3>2. QED
      BY <3>1, NewAttemptTypes DEF TypeOK
  <2>5. served' \subseteq Payments \X Urls
    <3>1. served' = served \/ served' = served \cup {<<p, job[h].url>>}
      BY <1>3 DEF Claim, Replay
    <3>2. QED
      BY <2>2, <3>1 DEF TypeOK
  <2>6. QED
    BY <1>3, <2>3, <2>4, <2>5 DEF Claim, TypeOK
<1>4. ASSUME NEW h \in Handlers, ClaimSynced(h)
      PROVE  TypeOK'
  <2> DEFINE p == job[h].payment
  <2>1. h \in Workers /\ p \in Payments /\ job[h].url \in Urls
    BY <1>4, BusyTypes DEF Workers, ClaimSynced, WorkerInv
  <2>2. mem' \in [Payments -> Attempt] /\ disk' \in [Payments -> Attempt]
    BY <1>4, <2>1, UpdateTypes, NewAttemptTypes DEF ClaimSynced
  <2>3. job' \in [Workers -> Job]
    BY <1>4, <2>1, JobTypes DEF ClaimSynced, Await
  <2>4. submitted' \in [Payments -> Nat]
    BY <1>4, <2>1 DEF ClaimSynced, TypeOK
  <2>5. UNCHANGED <<receipts, indexer, cli, served, refunded, faults>>
    BY <1>4 DEF ClaimSynced
  <2>6. QED
    BY <2>2, <2>3, <2>4, <2>5 DEF TypeOK
<1>5. ASSUME NEW h \in Handlers, SettleThrows(h)
      PROVE  TypeOK'
  <2> DEFINE p == job[h].payment
  <2>1. h \in Workers /\ p \in Payments /\ mem[p] \in Attempt
    BY <1>5, BusyTypes DEF Workers, SettleThrows
  <2>2. mem' \in [Payments -> Attempt] /\ disk' \in [Payments -> Attempt]
    BY <1>5, <2>1, UpdateTypes, AttemptTypes DEF SettleThrows
  <2>3. QED
    BY <1>5, <2>1, <2>2, JobTypes DEF SettleThrows, TypeOK
<1>6. ASSUME NEW h \in Handlers, SettleRejected(h)
      PROVE  TypeOK'
  <2> DEFINE p == job[h].payment
  <2>1. h \in Workers /\ p \in Payments /\ mem[p] \in Attempt
    BY <1>6, BusyTypes DEF Workers, SettleRejected
  <2>2. mem' \in [Payments -> Attempt] /\ disk' \in [Payments -> Attempt]
    BY <1>6, <2>1, UpdateTypes, AttemptTypes DEF SettleRejected
  <2>3. QED
    BY <1>6, <2>1, <2>2, JobTypes DEF SettleRejected, TypeOK
<1>7. ASSUME NEW h \in Handlers, NEW s \in Replies, SettleSucceeds(h, s)
      PROVE  TypeOK'
  <2> DEFINE p == job[h].payment
  <2>1. h \in Workers /\ p \in Payments /\ mem[p] \in Attempt /\ s \in Settlement
    BY <1>7, BusyTypes, ConstantsType DEF Workers, SettleSucceeds
  <2>2. mem' \in [Payments -> Attempt] /\ disk' \in [Payments -> Attempt]
    <3>1. Settle(mem[p], s, None) \in Attempt
      BY <2>1, AttemptTypes
    <3>2. QED
      BY <1>7, <2>1, <3>1, UpdateTypes DEF SettleSucceeds
  <2>3. job' \in [Workers -> Job]
    <3>0. job[h] \in Job
      BY <2>1 DEF TypeOK
    <3>1. [job[h] EXCEPT !.pc = "anchoring", !.settlement = s] \in Job
      BY <2>1, <3>0 DEF Job, Held
    <3>2. job' = [job EXCEPT ![h] = [job[h] EXCEPT !.pc = "anchoring", !.settlement = s]]
      BY <1>7 DEF SettleSucceeds
    <3>3. QED
      BY <3>1, <3>2 DEF TypeOK
  <2>4. QED
    BY <1>7, <2>2, <2>3 DEF SettleSucceeds, TypeOK
<1>8. ASSUME NEW h \in Handlers, Anchor(h)
      PROVE  TypeOK'
  <2> DEFINE p == job[h].payment
  <2>1. h \in Workers /\ p \in Payments /\ job[h] \in Job
    BY <1>8, BusyTypes DEF Workers, Anchor, TypeOK
  <2>2. ASSUME NEW q \in Payments
        PROVE  [job[h] EXCEPT !.pc = "binding", !.receipt = q] \in Job
    BY <2>1 DEF Job, Held
  <2>3. CASE /\ Goto(h, "binding")
             /\ UNCHANGED <<registry, proofFile, faults>>
    BY <1>8, <2>1, <2>3, JobTypes DEF Anchor, TypeOK, Held
  <2>4. ASSUME NEW q \in SameTx(registry, p), PersistProof(q, registry[q]),
               job' = [job EXCEPT ![h].pc = "binding", ![h].receipt = q],
               UNCHANGED registry
        PROVE  TypeOK'
    <3>1. q \in Payments /\ registry[q] \in ReceiptStatus
      BY DEF SameTx, TypeOK
    <3>2. job' \in [Workers -> Job]
      BY <2>2, <2>4, <3>1 DEF TypeOK
    <3>3. QED
      BY <1>8, <2>4, <3>1, <3>2, PersistProofTypes DEF Anchor, TypeOK
  <2>5. CASE /\ registry' = Anchored(registry, p)
             /\ PersistProof(p, "anchored")
             /\ job' = [job EXCEPT ![h].pc = "binding", ![h].receipt = p]
    <3>1. job' \in [Workers -> Job]
      BY <2>1, <2>2, <2>5 DEF TypeOK
    <3>2. registry' \in [Payments -> ReceiptStatus]
      BY <2>1, <2>5, RegistryTypes DEF TypeOK
    <3>3. QED
      BY <1>8, <2>1, <2>5, <3>1, <3>2, PersistProofTypes DEF Anchor, TypeOK, ReceiptStatus
  <2>6. QED
    BY <1>8, <2>3, <2>4, <2>5 DEF Anchor
<1>9. ASSUME NEW h \in Handlers, Bind(h)
      PROVE  TypeOK'
  <2> DEFINE p == job[h].payment
  <2>1. h \in Workers /\ p \in Payments /\ mem[p] \in Attempt
    BY <1>9, BusyTypes DEF Workers, Bind
  <2>2. Settle(mem[p], job[h].settlement, job[h].receipt) \in Attempt
    BY <1>9, <2>1, BusyTypes, AttemptTypes DEF Bind
  <2>3. mem' \in [Payments -> Attempt] /\ disk' \in [Payments -> Attempt]
    BY <1>9, <2>1, <2>2, UpdateTypes DEF Bind
  <2>4. job' \in [Workers -> Job]
    BY <1>9, <2>1, JobTypes DEF Bind, Held, Await
  <2>5. QED
    BY <1>9, <2>3, <2>4 DEF Bind, TypeOK
<1>10. ASSUME NEW h \in Handlers, Respond(h)
      PROVE  TypeOK'
  <2> DEFINE p == job[h].payment
  <2>1. h \in Workers /\ p \in Payments /\ mem[p] \in Attempt /\ job[h].url \in Urls
    BY <1>10, BusyTypes DEF Workers, Respond, WorkerInv
  <2>2. Settle(mem[p], job[h].settlement, job[h].receipt) \in Attempt
    BY <1>10, <2>1, BusyTypes, AttemptTypes DEF Respond
  <2>3. mem' \in [Payments -> Attempt] /\ disk' \in [Payments -> Attempt]
    BY <1>10, <2>1, <2>2, UpdateTypes DEF Respond
  <2>4. served' \subseteq Payments \X Urls
    BY <1>10, <2>1 DEF Respond, TypeOK
  <2>5. QED
    BY <1>10, <2>1, <2>3, <2>4, JobTypes DEF Respond, TypeOK
<1>11. ASSUME NEW w \in Workers, NEW p \in Payments, StartReconcile(w, p)
       PROVE  TypeOK'
  <2> DEFINE j == [Idle EXCEPT
                    !.pc = IF mem[p].settlement = "partial" THEN "unidentified"
                                                            ELSE "verifying",
                    !.payment = p, !.settlement = mem[p].settlement,
                    !.receipt = mem[p].receipt]
  <2>1. /\ mem[p].settlement \in Settlement
        /\ mem[p].receipt \in Payments \cup {None}
    BY DEF TypeOK, Attempt
  <2>2. j \in Job
    BY <2>1 DEF Job, Idle, Held, Await
  <2>3. job' \in [Workers -> Job]
    BY <1>11, <2>2 DEF StartReconcile, TypeOK
  <2>4. QED
    BY <1>11, <2>3 DEF StartReconcile, TypeOK
<1>12. ASSUME NEW w \in Workers, RecordUnidentified(w)
       PROVE  TypeOK'
  <2> DEFINE p == job[w].payment
  <2>1. p \in Payments /\ mem[p] \in Attempt
    BY <1>12, BusyTypes DEF RecordUnidentified
  <2>2. mem' \in [Payments -> Attempt] /\ disk' \in [Payments -> Attempt]
    BY <1>12, <2>1, UpdateTypes, AttemptTypes DEF RecordUnidentified, Check
  <2>3. job' \in [Workers -> Job]
    BY <1>12, JobTypes DEF RecordUnidentified, Held
  <2>4. QED
    BY <1>12, <2>2, <2>3 DEF RecordUnidentified, TypeOK
<1>13. ASSUME NEW w \in Workers, NEW c \in Check, job[w].pc = "verifying",
              job' = [job EXCEPT ![w].pc = "answered", ![w].answer = c],
              UNCHANGED <<store, receipts, indexer, cli, history, faults>>
       PROVE  TypeOK'
  <2>0. job[w] \in Job
    BY DEF TypeOK
  <2>1. [job[w] EXCEPT !.pc = "answered", !.answer = c] \in Job
    BY <2>0 DEF Job, Await
  <2>2. job' = [job EXCEPT ![w] = [job[w] EXCEPT !.pc = "answered", !.answer = c]]
    BY <1>13
  <2>3. QED
    BY <1>13, <2>1, <2>2 DEF TypeOK
<1>14. ASSUME NEW w \in Workers, IndexerAnswers(w) \/ IndexerUnavailable(w)
       PROVE  TypeOK'
  <2>1. job[w].payment \in Payments
    BY <1>14, BusyTypes DEF IndexerAnswers, IndexerUnavailable
  <2>2. indexer[TxOf[job[w].payment]] \in IndexerState
    BY <2>1, TxOfType DEF TypeOK
  <2>3. Verdict(TxOf[job[w].payment], job[w].settlement) \in Check /\ "unavailable" \in Check
    BY <2>2 DEF Verdict, IndexerState, Check
  <2>4. QED
    BY <1>13, <1>14, <2>3 DEF IndexerAnswers, IndexerUnavailable
<1>15. ASSUME NEW w \in Workers, ApplyFinality(w)
       PROVE  TypeOK'
  <2> DEFINE p == job[w].payment
             a == RecordFinality(mem[p], job[w].answer)
  <2>1. p \in Payments /\ mem[p] \in Attempt /\ job[w].answer \in Check
    BY <1>15, BusyTypes DEF ApplyFinality, WorkerInv
  <2>2. mem' \in [Payments -> Attempt] /\ disk' \in [Payments -> Attempt]
    BY <1>15, <2>1, UpdateTypes, AttemptTypes DEF ApplyFinality
  <2>3. job' \in [Workers -> Job]
    <3>1. \/ Goto(w, "finalizing") \/ Goto(w, "challenging") \/ Goto(w, "reviewing")
          \/ AfterReconcile(w)
      BY <1>15 DEF ApplyFinality
    <3>2. QED
      BY <3>1, JobTypes DEF Held
  <2>4. QED
    BY <1>15, <2>2, <2>3 DEF ApplyFinality, TypeOK
<1>16. ASSUME NEW w \in Workers, Finalize(w)
       PROVE  TypeOK'
  <2> DEFINE r == job[w].receipt
  <2>1. r \in Payments
    BY <1>16, BusyTypes DEF Finalize, WorkerInv
  <2>2. job' \in [Workers -> Job]
    BY <1>16, JobTypes DEF Finalize
  <2>3. CASE CanFinalize(registry, r)
    <3>1. /\ registry' = Finalized(registry, r)
          /\ credits' = CreditedBy(credits, registry, r)
          /\ PersistProof(r, "finalized")
          /\ UNCHANGED <<store, indexer, cli, history>>
      BY <1>16, <2>3 DEF Finalize
    <3>2. registry' \in [Payments -> ReceiptStatus] /\ credits' \in [Payments -> Nat]
      BY <2>1, <3>1, RegistryTypes DEF TypeOK
    <3>3. proofFile' \in [Payments -> ReceiptStatus] /\ faults' \in Nat
      BY <2>1, <3>1, PersistProofTypes DEF ReceiptStatus
    <3>4. QED
      BY <2>2, <3>1, <3>2, <3>3 DEF TypeOK
  <2>4. CASE ~CanFinalize(registry, r)
    BY <1>16, <2>2, <2>4 DEF Finalize, TypeOK
  <2>5. QED
    BY <2>3, <2>4
<1>17. ASSUME NEW w \in Workers, Challenge(w)
       PROVE  TypeOK'
  <2> DEFINE r == job[w].receipt
  <2>1. r \in Payments
    BY <1>17, BusyTypes DEF Challenge, WorkerInv
  <2>2. job' \in [Workers -> Job]
    BY <1>17, JobTypes DEF Challenge, Held
  <2>3. Challenged(registry, r) \in [Payments -> ReceiptStatus]
    BY <2>1, RegistryTypes DEF TypeOK
  <2>4. CASE CanChallenge(registry, r)
    BY <1>17, <2>1, <2>2, <2>3, <2>4, PersistProofTypes DEF Challenge, TypeOK
  <2>5. CASE ~CanChallenge(registry, r)
    BY <1>17, <2>2, <2>5 DEF Challenge, TypeOK
  <2>6. QED
    BY <2>4, <2>5
<1>18. ASSUME NEW w \in Workers, Review(w)
       PROVE  TypeOK'
  <2> DEFINE p == job[w].payment
  <2>1. p \in Payments /\ mem[p] \in Attempt
    BY <1>18, BusyTypes DEF Review
  <2>2. mem' \in [Payments -> Attempt] /\ disk' \in [Payments -> Attempt]
    BY <1>18, <2>1, UpdateTypes, AttemptTypes DEF Review
  <2>3. QED
    BY <1>18, <2>2, JobTypes DEF Review, TypeOK
<1>19. ASSUME NEW w \in Workers, WriteFails(w)
       PROVE  TypeOK'
  BY <1>19, JobTypes DEF WriteFails, TypeOK
<1>20. ASSUME NEW t \in Txs, IndexerAdvances(t)
       PROVE  TypeOK'
  BY <1>20 DEF IndexerAdvances, TypeOK, IndexerState
<1>21. CASE Operator
  <2>1. ASSUME NEW p \in Payments, ExecuteRefund(p)
        PROVE  TypeOK'
    <3>1. refunded' \in [Payments -> Nat]
      BY <2>1 DEF ExecuteRefund, TypeOK
    <3>2. cli' \in [pc: {"idle", "paid", "loaded"}, payment: Payments \cup {None},
                    copy: Attempt]
      BY <2>1 DEF ExecuteRefund, TypeOK
    <3>3. UNCHANGED <<store, receipts, indexer, job, submitted, served, faults>>
      BY <2>1 DEF ExecuteRefund
    <3>4. QED
      BY <3>1, <3>2, <3>3 DEF TypeOK
  <2>2. CASE LoadForRefund
    <3>1. cli.payment \in Payments
      BY <2>2 DEF LoadForRefund, CliInv
    <3>2. Loaded(disk[cli.payment]) \in Attempt
      BY <3>1, AttemptTypes DEF TypeOK
    <3>3. QED
      BY <2>2, <3>2 DEF LoadForRefund, TypeOK
  <2>3. CASE RecordRefund
    <3>1. CompleteRefund(cli.copy) \in Attempt
      BY AttemptTypes DEF TypeOK
    <3>2. disk' \in [Payments -> Attempt]
      BY <2>3, <3>1 DEF RecordRefund, TypeOK
    <3>3. cli' \in [pc: {"idle", "paid", "loaded"}, payment: Payments \cup {None},
                    copy: Attempt]
      BY <2>3, NewAttemptTypes DEF RecordRefund
    <3>4. UNCHANGED <<mem, receipts, indexer, job, history, faults>>
      BY <2>3 DEF RecordRefund
    <3>5. QED
      BY <3>2, <3>3, <3>4 DEF TypeOK
  <2>4. QED
    BY <1>21, <2>1, <2>2, <2>3 DEF Operator
<1>22. CASE Crash
  <2>1. mem' \in [Payments -> Attempt]
    BY <1>22, AttemptTypes DEF Crash, TypeOK
  <2>2. registry' \in [Payments -> ReceiptStatus] /\ credits' \in [Payments -> Nat]
    BY <1>22 DEF Crash, TypeOK, Restored, RestoredCredits, ReceiptStatus
  <2>3. job' \in [Workers -> Job]
    BY <1>22 DEF Crash, Idle, Job, Settlement
  <2>4. QED
    BY <1>22, <2>1, <2>2, <2>3 DEF Crash, TypeOK
<1>23. CASE Reset
  BY <1>23 DEF Reset, TypeOK, NoReceipts, NoCredits, ReceiptStatus
<1>24. CASE UNCHANGED vars
  BY <1>24 DEF vars, TypeOK
<1>25. QED
  BY <1>1, <1>2, <1>3, <1>4, <1>5, <1>6, <1>7, <1>8, <1>9, <1>10, <1>11, <1>12,
     <1>14, <1>15, <1>16, <1>17, <1>18, <1>19, <1>20, <1>21, <1>22, <1>23, <1>24
  DEF Next, Handler, SettleReply, Worker, Reconcile

-------------------------------------------------------------------------------
(* The invariant is inductive *)

\* The attempt side of the invariant.
AInv ==
  /\ OneThread
  /\ OneSettler
  /\ \A w \in Workers : WorkerInv(w)
  /\ \A p \in Payments : StoreInv(p)
  /\ CliInv
  /\ ServedInv

\* What a step of worker w may do to the attempt of p: settled ones keep status and
\* request, a torn file is completed by its claimer only, an attempt in progress is
\* resolved by its settler only.
StepKeeps(w, p) ==
  /\ disk[p].status = "settled" =>
       disk'[p].status = "settled" /\ disk'[p].url = disk[p].url
  /\ disk[p].status = "torn" /\ disk'[p].status # "torn" => job[w].pc = "claiming"
  /\ mem[p].status = "settled" => mem'[p].status = "settled" /\ mem'[p].url = mem[p].url
  /\ mem[p].status = "settling" =>
       \/ mem'[p].status = "settling" /\ mem'[p].url = mem[p].url
       \/ job[w].pc = "settling" /\ job[w].payment = p

\* A step of w to the record j keeps the other workers as they are.
Moves(w, j) == j \in Job /\ job' = [job EXCEPT ![w] = j]

-------------------------------------------------------------------------------
(* What the record operations preserve *)

\* The mutations of the attempt store keep the request; what they do to the status and
\* that they keep the record's own invariant.
LEMMA AttemptEffects ==
  ASSUME NEW p \in Payments, NEW a \in Attempt, AttemptInv(p, a)
  PROVE  /\ \A s \in Settlement, r \in Payments \cup {None} :
              /\ Settle(a, s, r).status = "settled" /\ Settle(a, s, r).url = a.url
              /\ (r # None => TxOf[r] = TxOf[p]) => AttemptInv(p, Settle(a, s, r))
         /\ a.status = "settling" =>
              /\ MarkIndeterminate(a).status = "indeterminate"
              /\ MarkIndeterminate(a).url = a.url
              /\ AttemptInv(p, MarkIndeterminate(a))
              /\ MarkFailed(a).status = "failed" /\ MarkFailed(a).url = a.url
              /\ AttemptInv(p, MarkFailed(a))
         /\ a.status = "settled" =>
              /\ RequireRefundReview(a).status = "settled"
              /\ RequireRefundReview(a).url = a.url
              /\ AttemptInv(p, RequireRefundReview(a))
              /\ CompleteRefund(a).status = "settled"
              /\ CompleteRefund(a).url = a.url
              /\ AttemptInv(p, CompleteRefund(a))
         /\ \A c \in Check :
              /\ RecordFinality(a, c).status = a.status
              /\ RecordFinality(a, c).url = a.url
              /\ AttemptInv(p, RecordFinality(a, c))
<1>1. ASSUME NEW s \in Settlement, NEW r \in Payments \cup {None}
      PROVE  /\ Settle(a, s, r).status = "settled" /\ Settle(a, s, r).url = a.url
             /\ (r # None => TxOf[r] = TxOf[p]) => AttemptInv(p, Settle(a, s, r))
  BY DEF Settle, AttemptInv, Attempt
<1>2. a.status = "settling" =>
        /\ MarkIndeterminate(a).status = "indeterminate"
        /\ MarkIndeterminate(a).url = a.url
        /\ AttemptInv(p, MarkIndeterminate(a))
  BY DEF MarkIndeterminate, AttemptInv, Attempt
<1>3. a.status = "settling" =>
        /\ MarkFailed(a).status = "failed" /\ MarkFailed(a).url = a.url
        /\ AttemptInv(p, MarkFailed(a))
  BY DEF MarkFailed, AttemptInv, Attempt
<1>4. a.status = "settled" =>
        /\ RequireRefundReview(a).status = "settled"
        /\ RequireRefundReview(a).url = a.url
        /\ AttemptInv(p, RequireRefundReview(a))
        /\ CompleteRefund(a).status = "settled"
        /\ CompleteRefund(a).url = a.url
        /\ AttemptInv(p, CompleteRefund(a))
  BY DEF RequireRefundReview, CompleteRefund, AttemptInv, Attempt
<1>5. ASSUME NEW c \in Check
      PROVE  /\ RecordFinality(a, c).status = a.status
             /\ RecordFinality(a, c).url = a.url
             /\ AttemptInv(p, RecordFinality(a, c))
  BY DEF RecordFinality, AttemptInv, Attempt
<1>6. QED
  BY <1>1, <1>2, <1>3, <1>4, <1>5

\* A torn and a freshly claimed record satisfy it trivially.
LEMMA NewAttemptEffects ==
  ASSUME NEW p \in Payments
  PROVE  /\ NoAttempt.status = "absent" /\ AttemptInv(p, NoAttempt)
         /\ NoAttempt.refund = "not_required"
         /\ TornAttempt.status = "torn" /\ AttemptInv(p, TornAttempt)
         /\ \A u \in Urls : /\ NewAttempt(u).status = "settling"
                            /\ NewAttempt(u).url = u
                            /\ AttemptInv(p, NewAttempt(u))
BY DEF NoAttempt, TornAttempt, NewAttempt, AttemptInv

-------------------------------------------------------------------------------
(* Frames *)

\* A worker that does not move keeps what it relies on.
LEMMA WorkerFrame ==
  ASSUME NEW v \in Workers, WorkerInv(v), job'[v] = job[v],
         \A p \in Payments : indexer[TxOf[p]] = "final" => indexer'[TxOf[p]] = "final",
         job[v].pc = "claiming" => disk'[job[v].payment].status = "torn",
         job[v].pc \in {"settling"} \cup AfterOutcome =>
           /\ mem'[job[v].payment].status = mem[job[v].payment].status
           /\ mem'[job[v].payment].url = mem[job[v].payment].url
  PROVE  WorkerInv(v)'
<1> DEFINE p == job[v].payment
<1>1. job[v].pc # "idle" => p \in Payments
  BY DEF WorkerInv
<1>2. (job[v].pc = "settling" => mem[p].status = "settling" /\ mem[p].url = job[v].url)'
  BY DEF WorkerInv
<1>3. (job[v].pc \in AfterOutcome =>
         mem[p].status = "settled" /\ (job[v].asked => mem[p].url = job[v].url))'
  BY DEF WorkerInv, AfterOutcome
<1>4. (job[v].pc = "claiming" => disk[p].status = "torn")'
  OBVIOUS
<1>5. /\ (job[v].pc = "finalizing" => job[v].receipt # None /\ indexer[TxOf[p]] = "final")'
      /\ (job[v].pc = "answered" /\ job[v].answer = "confirmed" => indexer[TxOf[p]] = "final")'
  BY <1>1 DEF WorkerInv
<1>6. QED
  BY <1>2, <1>3, <1>4, <1>5 DEF WorkerInv

\* A step of one worker leaves the other workers and the refund command what they
\* rely on, if it respects StepKeeps and gets the thread when it needs it.
LEMMA WorkerStep ==
  ASSUME TypeOK, AInv, NEW w \in Workers, NEW j, Moves(w, j),
         ThreadFree \/ job[w].pc \in Held \/ j.pc \notin Held,
         j.pc = "settling" => job[w].pc = "claiming" /\ j.payment = job[w].payment,
         WorkerInv(w)',
         UNCHANGED <<indexer, cli>>,
         \A p \in Payments : StepKeeps(w, p)
  PROVE  OneThread' /\ OneSettler' /\ (\A v \in Workers : WorkerInv(v)') /\ CliInv'
<1>1. job'[w] = j /\ \A v \in Workers \ {w} : job'[v] = job[v]
  BY DEF Moves, TypeOK
<1>2. OneThread'
  BY <1>1 DEF AInv, OneThread, ThreadFree
<1>3. ASSUME j.pc = "settling", NEW v \in Workers \ {w}, job[v].pc = "settling",
             job[v].payment = job[w].payment
      PROVE  FALSE
  <2>1. disk[job[w].payment].status = "torn" /\ job[w].payment \in Payments
    BY <1>3 DEF AInv, WorkerInv
  <2>2. mem[job[w].payment].status = "settling"
    BY <1>3 DEF AInv, WorkerInv
  <2>3. QED
    BY <2>1, <2>2 DEF AInv, StoreInv
<1>4. OneSettler'
  BY <1>1, <1>3 DEF AInv, OneSettler
<1>5. ASSUME NEW v \in Workers \ {w}
      PROVE  WorkerInv(v)'
  <2> DEFINE p == job[v].payment
  <2>1. job'[v] = job[v] /\ WorkerInv(v)
    BY <1>1 DEF AInv
  <2>2. ASSUME job[v].pc = "claiming"
        PROVE  disk'[p].status = "torn"
    <3>1. p \in Payments /\ disk[p].status = "torn"
      BY <2>1, <2>2 DEF WorkerInv
    <3>2. job[w].pc # "claiming"
      BY <2>2 DEF AInv, OneThread, Held
    <3>3. QED
      BY <3>1, <3>2 DEF StepKeeps
  <2>3. ASSUME job[v].pc \in {"settling"} \cup AfterOutcome
        PROVE  mem'[p].status = mem[p].status /\ mem'[p].url = mem[p].url
    <3>1. CASE job[v].pc = "settling"
      <4>1. p \in Payments /\ mem[p].status = "settling"
        BY <2>1, <3>1 DEF WorkerInv
      <4>2. ~(job[w].pc = "settling" /\ job[w].payment = p)
        BY <3>1 DEF AInv, OneSettler
      <4>3. QED
        BY <4>1, <4>2 DEF StepKeeps
    <3>2. CASE job[v].pc \in AfterOutcome
      <4>1. p \in Payments /\ mem[p].status = "settled"
        BY <2>1, <3>2 DEF WorkerInv, AfterOutcome
      <4>2. QED
        BY <4>1 DEF StepKeeps
    <3>3. QED
      BY <2>3, <3>1, <3>2
  <2>4. QED
    BY <2>1, <2>2, <2>3, WorkerFrame
<1>6. CliInv'
  BY DEF AInv, CliInv, StepKeeps
<1>7. ASSUME NEW v \in Workers
      PROVE  WorkerInv(v)'
  <2>1. CASE v = w
    BY <2>1
  <2>2. QED
    BY <1>5, <2>1
<1>8. QED
  BY <1>2, <1>4, <1>6, <1>7

\* Workers that write nothing.
LEMMA QuietStore ==
  ASSUME AInv, UNCHANGED <<store, submitted>>
  PROVE  /\ \A w \in Workers, p \in Payments : StepKeeps(w, p)
         /\ \A p \in Payments : StoreInv(p)'
<1>1. mem' = mem /\ disk' = disk /\ submitted' = submitted
  BY DEF store
<1>2. \A p \in Payments : StoreInv(p)'
  BY <1>1 DEF AInv, StoreInv
<1>3. QED
  BY <1>1, <1>2 DEF StepKeeps

\* An update writes the same record to memory and to the file.
LEMMA UpdateStore ==
  ASSUME TypeOK, AInv, NEW p \in Payments, NEW a \in Attempt, Update(p, a),
         AttemptInv(p, a), a.status \notin {"absent", "torn"},
         submitted'[p] = 1, \A q \in Payments \ {p} : submitted'[q] = submitted[q]
  PROVE  \A q \in Payments : StoreInv(q)'
<1>1. mem'[p] = a /\ disk'[p] = a
  BY DEF Update, TypeOK
<1>2. \A q \in Payments \ {p} : mem'[q] = mem[q] /\ disk'[q] = disk[q]
  BY DEF Update, TypeOK
<1>3. StoreInv(p)'
  BY <1>1 DEF StoreInv, AttemptInv
<1>4. ASSUME NEW q \in Payments \ {p}
      PROVE  StoreInv(q)'
  BY <1>2 DEF AInv, StoreInv, AttemptInv
<1>5. QED
  BY <1>3, <1>4

\* Updates of a settled attempt that keep it settled and bound.
LEMMA SettledUpdate ==
  ASSUME TypeOK, AInv, NEW p \in Payments, NEW a \in Attempt, Update(p, a),
         mem[p].status = "settled", a.status = "settled", a.url = mem[p].url,
         AttemptInv(p, a), UNCHANGED submitted
  PROVE  /\ \A w \in Workers, q \in Payments : StepKeeps(w, q)
         /\ \A q \in Payments : StoreInv(q)'
<1>1. mem'[p] = a /\ disk'[p] = a
  BY DEF Update, TypeOK
<1>2. \A q \in Payments \ {p} : mem'[q] = mem[q] /\ disk'[q] = disk[q]
  BY DEF Update, TypeOK
<1>3. disk[p].status = "settled" /\ disk[p].url = mem[p].url /\ submitted[p] = 1
  BY DEF AInv, StoreInv
<1>4. \A w \in Workers, q \in Payments : StepKeeps(w, q)
  BY <1>1, <1>2, <1>3 DEF StepKeeps
<1>5. QED
  BY <1>3, <1>4, UpdateStore

\* Reports sent stay with settled attempts of their request.
LEMMA ServedFrame ==
  ASSUME AInv, TypeOK, NEW w \in Workers, \A p \in Payments : StepKeeps(w, p),
         \A x \in served' \ served :
           x \in Payments \X Urls /\ disk'[x[1]].status = "settled" /\ disk'[x[1]].url = x[2]
  PROVE  ServedInv'
<1> SUFFICES ASSUME NEW x \in served'
             PROVE  disk'[x[1]].status = "settled" /\ disk'[x[1]].url = x[2]
  BY DEF ServedInv
<1>1. CASE x \in served
  <2>1. x[1] \in Payments
    BY <1>1 DEF TypeOK
  <2>2. disk[x[1]].status = "settled" /\ disk[x[1]].url = x[2]
    BY <1>1 DEF AInv, ServedInv
  <2>3. QED
    BY <2>1, <2>2 DEF StepKeeps
<1>2. QED
  BY <1>1

\* A stored report is sent only for a settled attempt bound to the request.
LEMMA ReplayServed ==
  ASSUME TypeOK, AInv, NEW p \in Payments, NEW u \in Urls, Replay(p, u), UNCHANGED disk
  PROVE  \A x \in served' \ served :
           x \in Payments \X Urls /\ disk'[x[1]].status = "settled" /\ disk'[x[1]].url = x[2]
<1> DEFINE a == GetByProofHash(p)
<1>1. ASSUME a.status = "settled" /\ a.url = u
      PROVE  disk[p].status = "settled" /\ disk[p].url = u
  <2>1. CASE mem[p].status # "absent"
    BY <1>1, <2>1 DEF GetByProofHash, AInv, StoreInv
  <2>2. CASE mem[p].status = "absent"
    <3>1. a = Loaded(disk[p])
      BY <2>2 DEF GetByProofHash
    <3>2. a = disk[p] \/ a = NoAttempt
      BY <3>1 DEF Loaded
    <3>3. QED
      BY <1>1, <3>2, NewAttemptEffects
  <2>3. QED
    BY <2>1, <2>2
<1>2. QED
  BY <1>1 DEF Replay

\* Workers that go idle or to their next step.
LEMMA GotoMoves ==
  ASSUME TypeOK, NEW w \in Workers
  PROVE  /\ Done(w) => Moves(w, Idle)
         /\ \A pc \in Await \cup Held :
              Goto(w, pc) => Moves(w, [job[w] EXCEPT !.pc = pc, !.answer = "none"])
<1>1. job[w] \in Job
  BY DEF TypeOK
<1>2. Idle \in Job
  BY DEF Idle, Job, Settlement
<1>3. ASSUME NEW pc \in Await \cup Held
      PROVE  [job[w] EXCEPT !.pc = pc, !.answer = "none"] \in Job
  BY <1>1 DEF Job
<1>4. QED
  BY <1>2, <1>3 DEF Done, Goto, Moves

\* A worker past the outcome ends or goes on with the same payment, with what its next
\* step relies on.
Continues(w, j) ==
  \/ j = Idle
  \/ /\ j.pc \in AfterOutcome \ {"answered"}
     /\ j.payment = job[w].payment /\ j.asked = job[w].asked /\ j.url = job[w].url
     /\ j.receipt # None => TxOf[j.receipt] = TxOf[j.payment]
     /\ j.pc \in {"anchoring", "binding", "responding"} => j.asked
     /\ j.pc \in {"challenging", "finalizing"} => j.receipt # None
     /\ j.pc = "finalizing" => indexer[TxOf[j.payment]] = "final"

\* A worker past the outcome that goes on ...
LEMMA ContinueGoto ==
  ASSUME TypeOK, NEW w \in Workers, WorkerInv(w), job[w].pc \in AfterOutcome,
         NEW pc \in AfterOutcome \ {"answered"}, Goto(w, pc),
         pc \in {"anchoring", "binding", "responding"} => job[w].asked,
         pc \in {"challenging", "finalizing"} => job[w].receipt # None,
         pc = "finalizing" => indexer[TxOf[job[w].payment]] = "final"
  PROVE  \E j : Moves(w, j) /\ Continues(w, j)
<1> DEFINE j == [job[w] EXCEPT !.pc = pc, !.answer = "none"]
<1>1. Moves(w, j)
  BY GotoMoves DEF AfterOutcome, Await, Held
<1>2. job[w] \in Job
  BY DEF TypeOK
<1>3. /\ j.pc = pc /\ j.payment = job[w].payment /\ j.asked = job[w].asked
      /\ j.url = job[w].url /\ j.receipt = job[w].receipt
  BY <1>2 DEF Job
<1>4. job[w].receipt # None => TxOf[job[w].receipt] = TxOf[job[w].payment]
  BY DEF WorkerInv
<1>5. Continues(w, j)
  BY <1>3, <1>4 DEF Continues
<1>6. QED
  BY <1>1, <1>5

\* ... that ends ...
LEMMA ContinueDone ==
  ASSUME TypeOK, NEW w \in Workers, Done(w)
  PROVE  \E j : Moves(w, j) /\ Continues(w, j)
BY GotoMoves DEF Continues

\* ... or that returns from reconciliation continues in the sense above.
LEMMA ContinueAfterReconcile ==
  ASSUME TypeOK, NEW w \in Workers, WorkerInv(w), job[w].pc \in AfterOutcome,
         AfterReconcile(w)
  PROVE  \E j : Moves(w, j) /\ Continues(w, j)
<1>1. CASE job[w].asked
  BY <1>1, ContinueGoto DEF AfterReconcile, AfterOutcome
<1>2. CASE ~job[w].asked
  BY <1>2, ContinueDone DEF AfterReconcile
<1>3. QED
  BY <1>1, <1>2

\* An idle worker relies on nothing.
LEMMA IdleInv ==
  ASSUME TypeOK, NEW w \in Workers, Moves(w, Idle)
  PROVE  WorkerInv(w)'
<1>1. job'[w] = Idle
  BY DEF Moves, TypeOK
<1>2. QED
  BY <1>1 DEF WorkerInv, Idle, AfterOutcome

\* Every step of a worker past the outcome of its payment: the attempt is left alone or
\* rewritten as a settled one bound to the same request, and the worker goes on.
LEMMA PastOutcome ==
  ASSUME TypeOK, AInv, NEW w \in Workers, job[w].pc \in AfterOutcome,
         ThreadFree \/ job[w].pc \in Held,
         NEW j, Moves(w, j), Continues(w, j),
         \/ UNCHANGED store
         \/ \E a \in Attempt : /\ Update(job[w].payment, a)
                               /\ a.status = "settled" /\ a.url = mem[job[w].payment].url
                               /\ AttemptInv(job[w].payment, a),
         UNCHANGED <<indexer, cli, submitted>>,
         \A x \in served' \ served :
           x \in Payments \X Urls /\ disk'[x[1]].status = "settled" /\ disk'[x[1]].url = x[2]
  PROVE  AInv'
<1> DEFINE p == job[w].payment
<1>1. WorkerInv(w)
  BY DEF AInv
<1>2. p \in Payments /\ mem[p].status = "settled" /\ (job[w].asked => mem[p].url = job[w].url)
  BY <1>1 DEF WorkerInv, AfterOutcome
<1>3. job'[w] = j
  BY DEF Moves, TypeOK
<1>4. /\ \A v \in Workers, q \in Payments : StepKeeps(v, q)
      /\ \A q \in Payments : StoreInv(q)'
  <2>1. CASE UNCHANGED store
    BY <2>1, QuietStore
  <2>2. ASSUME NEW a \in Attempt, Update(p, a), a.status = "settled", a.url = mem[p].url,
               AttemptInv(p, a)
        PROVE  /\ \A v \in Workers, q \in Payments : StepKeeps(v, q)
               /\ \A q \in Payments : StoreInv(q)'
    BY <1>2, <2>2, SettledUpdate
  <2>3. QED
    BY <2>1, <2>2
<1>5. mem'[p].status = "settled" /\ mem'[p].url = mem[p].url
  BY <1>2, <1>4 DEF StepKeeps
<1>6. WorkerInv(w)'
  <2>1. CASE j = Idle
    BY <2>1, IdleInv
  <2>2. CASE j # Idle
    <3>1. j.asked => j.url \in Urls
      BY <1>1, <2>2 DEF Continues, WorkerInv
    <3>2. QED
      BY <1>2, <1>3, <1>5, <2>2, <3>1 DEF Continues, WorkerInv, AfterOutcome
  <2>3. QED
    BY <2>1, <2>2
<1>7. j.pc # "settling"
  BY DEF Continues, Idle, AfterOutcome
<1>8. OneThread' /\ OneSettler' /\ (\A v \in Workers : WorkerInv(v)') /\ CliInv'
  BY <1>4, <1>6, <1>7, WorkerStep
<1>9. ServedInv'
  BY <1>4, ServedFrame
<1>10. QED
  BY <1>4, <1>8, <1>9 DEF AInv

-------------------------------------------------------------------------------
(* The paid request *)

\* The later settle() calls write the record of a settled attempt again.
LEMMA SettledAgain ==
  ASSUME TypeOK, AInv, NEW h \in Workers, job[h].pc \in {"binding", "responding"}
  PROVE  LET p == job[h].payment
             a == Settle(mem[p], job[h].settlement, job[h].receipt)
         IN  /\ p \in Payments /\ mem[p].status = "settled"
             /\ a \in Attempt /\ a.status = "settled" /\ a.url = mem[p].url
             /\ AttemptInv(p, a)
<1> DEFINE p == job[h].payment
           a == Settle(mem[p], job[h].settlement, job[h].receipt)
<1>1. job[h] \in Job /\ WorkerInv(h)
  BY DEF TypeOK, AInv
<1>2. /\ p \in Payments /\ mem[p].status = "settled"
      /\ (job[h].receipt # None => TxOf[job[h].receipt] = TxOf[p])
  BY <1>1 DEF WorkerInv, AfterOutcome
<1>3. mem[p] \in Attempt /\ AttemptInv(p, mem[p])
  BY <1>2 DEF AInv, StoreInv, TypeOK
<1>4. job[h].settlement \in Settlement /\ job[h].receipt \in Payments \cup {None}
  BY <1>1 DEF Job
<1>5. a \in Attempt /\ a.status = "settled" /\ a.url = mem[p].url /\ AttemptInv(p, a)
  BY <1>2, <1>3, <1>4, AttemptTypes, AttemptEffects
<1>6. QED
  BY <1>2, <1>5

\* Every step of a paid request keeps the attempt side of the invariant.
LEMMA HandlerKeeps ==
  ASSUME TypeOK, AInv, NEW h \in Handlers, Handler(h)
  PROVE  AInv'
<1> DEFINE p == job[h].payment
<1>0. h \in Workers /\ WorkerInv(h) /\ job[h] \in Job
  BY DEF AInv, Workers, TypeOK
<1>1. ASSUME NEW q \in Payments, NEW u \in Urls, Request(h, q, u)
      PROVE  AInv'
  <2>1. UNCHANGED <<mem, disk, submitted, indexer, cli>>
    BY <1>1 DEF Request, store
  <2>2. /\ \A w \in Workers, r \in Payments : StepKeeps(w, r)
        /\ \A r \in Payments : StoreInv(r)'
    BY <2>1, QuietStore DEF store
  <2>3. CASE Replay(q, u) /\ UNCHANGED job
    <3>1. ServedInv'
      BY <1>0, <2>1, <2>2, <2>3, ReplayServed, ServedFrame
    <3>2. OneThread' /\ OneSettler' /\ CliInv' /\ \A w \in Workers : WorkerInv(w)'
      BY <2>1, <2>3 DEF AInv, OneThread, OneSettler, CliInv, WorkerInv
    <3>3. QED
      BY <2>2, <3>1, <3>2 DEF AInv
  <2>4. CASE /\ job' = [job EXCEPT ![h] = [Idle EXCEPT !.pc = "authorizing",
                          !.asked = TRUE, !.payment = q, !.url = u]]
             /\ UNCHANGED served
    <3> DEFINE j == [Idle EXCEPT !.pc = "authorizing", !.asked = TRUE,
                                 !.payment = q, !.url = u]
    <3>1. Moves(h, j)
      BY <2>4 DEF Moves, Idle, Job, Await, Settlement
    <3>2. WorkerInv(h)'
      <4>1. job'[h] = j
        BY <1>0, <2>4 DEF TypeOK
      <4>2. QED
        BY <4>1 DEF WorkerInv, Idle, AfterOutcome
    <3>3. OneThread' /\ OneSettler' /\ CliInv' /\ \A w \in Workers : WorkerInv(w)'
      BY <1>0, <2>1, <2>2, <3>1, <3>2, WorkerStep DEF Idle, Held
    <3>4. ServedInv'
      BY <1>0, <2>2, <2>4, ServedFrame
    <3>5. QED
      BY <2>2, <3>3, <3>4 DEF AInv
  <2>5. QED
    BY <1>1, <2>3, <2>4 DEF Request
<1>2. ASSUME UNCHANGED <<mem, disk, submitted, indexer, cli>>, Done(h),
             \A x \in served' \ served :
               x \in Payments \X Urls /\ disk'[x[1]].status = "settled" /\ disk'[x[1]].url = x[2]
      PROVE  AInv'
  <2>1. /\ \A w \in Workers, r \in Payments : StepKeeps(w, r)
        /\ \A r \in Payments : StoreInv(r)'
    BY <1>2, QuietStore DEF store
  <2>2. Moves(h, Idle) /\ WorkerInv(h)'
    BY <1>0, <1>2, GotoMoves, IdleInv
  <2>3. OneThread' /\ OneSettler' /\ CliInv' /\ \A w \in Workers : WorkerInv(w)'
    BY <1>0, <1>2, <2>1, <2>2, WorkerStep DEF Idle, Held
  <2>4. ServedInv'
    BY <1>0, <1>2, <2>1, ServedFrame
  <2>5. QED
    BY <2>1, <2>3, <2>4 DEF AInv
<1>3. ASSUME AuthorizeFails(h)
      PROVE  AInv'
  BY <1>2, <1>3 DEF AuthorizeFails, store, history
<1>4. ASSUME Claim(h)
      PROVE  AInv'
  <2>1. p \in Payments /\ job[h].url \in Urls /\ job[h].asked
    BY <1>0, <1>4 DEF Claim, WorkerInv
  <2>2. CASE Replay(p, job[h].url) /\ Done(h) /\ UNCHANGED disk
    BY <1>2, <1>4, <2>1, <2>2, ReplayServed DEF Claim
  <2>3. CASE Done(h) /\ UNCHANGED <<disk, served>>
    BY <1>2, <1>4, <2>3 DEF Claim
  <2>4. CASE /\ disk[p].status = "absent"
             /\ disk' = [disk EXCEPT ![p] = TornAttempt]
             /\ Goto(h, "claiming")
             /\ UNCHANGED served
    <3> DEFINE j == [job[h] EXCEPT !.pc = "claiming", !.answer = "none"]
    <3>1. disk'[p] = TornAttempt /\ \A q \in Payments \ {p} : disk'[q] = disk[q]
      BY <2>1, <2>4 DEF TypeOK
    <3>2. UNCHANGED <<mem, submitted, indexer, cli>> /\ ThreadFree
      BY <1>4 DEF Claim
    <3>3. \A q \in Payments : StepKeeps(h, q)
      BY <2>4, <3>1, <3>2, NewAttemptEffects DEF StepKeeps
    <3>4. ASSUME NEW q \in Payments
          PROVE  StoreInv(q)'
      <4>1. CASE q = p
        <5>1. mem[p].status = "absent" /\ submitted[p] = 0 /\ AttemptInv(p, mem[p])
          BY <2>1, <2>4 DEF AInv, StoreInv
        <5>2. AttemptInv(p, TornAttempt) /\ TornAttempt.status = "torn"
          BY <2>1, NewAttemptEffects
        <5>3. QED
          BY <3>1, <3>2, <4>1, <5>1, <5>2 DEF StoreInv, AttemptInv
      <4>2. CASE q # p
        BY <3>1, <3>2, <4>2 DEF AInv, StoreInv, AttemptInv
      <4>3. QED
        BY <4>1, <4>2
    <3>5. Moves(h, j) /\ job'[h] = j
      <4>1. Moves(h, j)
        BY <1>0, <2>4, GotoMoves DEF Held
      <4>2. QED
        BY <1>0, <4>1 DEF Moves, TypeOK
    <3>6. WorkerInv(h)'
      <4>1. /\ j.pc = "claiming" /\ j.payment = p /\ j.url = job[h].url /\ j.asked
            /\ j.receipt = job[h].receipt
        BY <1>0, <2>1 DEF Job
      <4>2. disk'[p].status = "torn"
        BY <2>1, <3>1, NewAttemptEffects
      <4>3. job[h].receipt # None => TxOf[job[h].receipt] = TxOf[p]
        BY <1>0 DEF WorkerInv
      <4>4. QED
        BY <2>1, <3>5, <4>1, <4>2, <4>3 DEF WorkerInv, AfterOutcome
    <3>7. OneThread' /\ OneSettler' /\ CliInv' /\ \A w \in Workers : WorkerInv(w)'
      <4>1. j.pc = "claiming"
        BY <1>0 DEF Job
      <4>2. QED
        BY <1>0, <3>2, <3>3, <3>5, <3>6, <4>1, WorkerStep
    <3>8. ServedInv'
      BY <1>0, <2>4, <3>3, ServedFrame
    <3>9. QED
      BY <3>4, <3>7, <3>8 DEF AInv
  <2>5. QED
    BY <1>4, <2>2, <2>3, <2>4 DEF Claim
<1>5. ASSUME ClaimSynced(h)
      PROVE  AInv'
  <2> DEFINE a == NewAttempt(job[h].url)
             j == [job[h] EXCEPT !.pc = "settling", !.answer = "none"]
  <2>1. /\ p \in Payments /\ job[h].url \in Urls /\ job[h].asked /\ job[h].pc = "claiming"
        /\ disk[p].status = "torn" /\ (job[h].receipt # None => TxOf[job[h].receipt] = TxOf[p])
    BY <1>0, <1>5 DEF ClaimSynced, WorkerInv
  <2>2. mem[p].status = "absent" /\ submitted[p] = 0
    BY <2>1 DEF AInv, StoreInv
  <2>3. a \in Attempt /\ a.status = "settling" /\ a.url = job[h].url /\ AttemptInv(p, a)
    BY <2>1, NewAttemptTypes, NewAttemptEffects
  <2>4. /\ Update(p, a) /\ submitted' = [submitted EXCEPT ![p] = @ + 1]
        /\ Goto(h, "settling") /\ UNCHANGED <<indexer, cli, served>>
    BY <1>5 DEF ClaimSynced
  <2>5. submitted'[p] = 1 /\ \A q \in Payments \ {p} : submitted'[q] = submitted[q]
    BY <2>1, <2>2, <2>4 DEF TypeOK
  <2>6. \A q \in Payments : StoreInv(q)'
    BY <2>1, <2>3, <2>4, <2>5, UpdateStore
  <2>7. /\ mem'[p] = a /\ disk'[p] = a
        /\ \A q \in Payments \ {p} : mem'[q] = mem[q] /\ disk'[q] = disk[q]
    BY <2>1, <2>4 DEF Update, TypeOK
  <2>8. \A q \in Payments : StepKeeps(h, q)
    BY <2>1, <2>2, <2>7 DEF StepKeeps
  <2>9. Moves(h, j) /\ job'[h] = j
    <3>1. Moves(h, j)
      BY <1>0, <2>4, GotoMoves DEF Await
    <3>2. QED
      BY <1>0, <3>1 DEF Moves, TypeOK
  <2>10. /\ j.pc = "settling" /\ j.payment = p /\ j.url = job[h].url /\ j.asked
         /\ j.receipt = job[h].receipt
    BY <1>0, <2>1 DEF Job
  <2>11. WorkerInv(h)'
    BY <2>1, <2>3, <2>7, <2>9, <2>10 DEF WorkerInv, AfterOutcome
  <2>12. OneThread' /\ OneSettler' /\ CliInv' /\ \A w \in Workers : WorkerInv(w)'
    BY <1>0, <2>1, <2>4, <2>8, <2>9, <2>10, <2>11, WorkerStep DEF Held
  <2>13. ServedInv'
    BY <1>0, <2>4, <2>8, ServedFrame
  <2>14. QED
    BY <2>6, <2>12, <2>13 DEF AInv
<1>6. ASSUME job[h].pc = "settling", ThreadFree, NEW a \in Attempt, Update(p, a),
             a.status \in {"settled", "indeterminate", "failed"}, a.url = mem[p].url,
             AttemptInv(p, a), NEW j, Moves(h, j),
             \/ j = Idle
             \/ /\ a.status = "settled" /\ j.pc = "anchoring"
                /\ j.payment = p /\ j.asked /\ j.url = job[h].url /\ j.receipt = job[h].receipt,
             UNCHANGED <<indexer, cli, submitted, served>>
      PROVE  AInv'
  <2>1. /\ p \in Payments /\ mem[p].status = "settling" /\ mem[p].url = job[h].url
        /\ job[h].url \in Urls /\ (job[h].receipt # None => TxOf[job[h].receipt] = TxOf[p])
    BY <1>0, <1>6 DEF WorkerInv
  <2>2. disk[p].status = "settling" /\ disk[p].url = mem[p].url /\ submitted[p] = 1
    BY <2>1 DEF AInv, StoreInv
  <2>3. \A q \in Payments : StoreInv(q)'
    BY <1>6, <2>1, <2>2, UpdateStore
  <2>4. /\ mem'[p] = a /\ disk'[p] = a
        /\ \A q \in Payments \ {p} : mem'[q] = mem[q] /\ disk'[q] = disk[q]
    BY <1>6, <2>1 DEF Update, TypeOK
  <2>5. \A q \in Payments : StepKeeps(h, q)
    BY <1>6, <2>1, <2>2, <2>4 DEF StepKeeps
  <2>6. job'[h] = j
    BY <1>0, <1>6 DEF Moves, TypeOK
  <2>7. WorkerInv(h)'
    <3>1. CASE j = Idle
      BY <1>0, <1>6, <3>1, IdleInv
    <3>2. CASE j # Idle
      BY <1>6, <2>1, <2>4, <2>6, <3>2 DEF WorkerInv, AfterOutcome
    <3>3. QED
      BY <3>1, <3>2
  <2>8. OneThread' /\ OneSettler' /\ CliInv' /\ \A w \in Workers : WorkerInv(w)'
    BY <1>0, <1>6, <2>5, <2>7, WorkerStep DEF Idle
  <2>9. ServedInv'
    BY <1>0, <1>6, <2>5, ServedFrame
  <2>10. QED
    BY <2>3, <2>8, <2>9 DEF AInv
<1>7. ASSUME SettleReply(h)
      PROVE  AInv'
  <2>1. /\ job[h].pc = "settling" /\ ThreadFree
        /\ UNCHANGED <<indexer, cli, submitted, served>>
    BY <1>7 DEF SettleReply, SettleThrows, SettleRejected, SettleSucceeds, history
  <2>2. p \in Payments /\ mem[p].status = "settling" /\ job[h].asked /\ mem[p] \in Attempt
    BY <1>0, <2>1 DEF WorkerInv, TypeOK
  <2>3. AttemptInv(p, mem[p])
    BY <2>2 DEF AInv, StoreInv
  <2>4. CASE SettleThrows(h)
    <3>1. Update(p, MarkIndeterminate(mem[p])) /\ Moves(h, Idle)
      BY <1>0, <2>4, GotoMoves DEF SettleThrows
    <3>2. /\ MarkIndeterminate(mem[p]) \in Attempt
          /\ MarkIndeterminate(mem[p]).status = "indeterminate"
          /\ MarkIndeterminate(mem[p]).url = mem[p].url
          /\ AttemptInv(p, MarkIndeterminate(mem[p]))
      BY <2>2, <2>3, AttemptTypes, AttemptEffects
    <3>3. QED
      BY <1>6, <2>1, <3>1, <3>2
  <2>5. CASE SettleRejected(h)
    <3>1. Update(p, MarkFailed(mem[p])) /\ Moves(h, Idle)
      BY <1>0, <2>5, GotoMoves DEF SettleRejected
    <3>2. /\ MarkFailed(mem[p]) \in Attempt
          /\ MarkFailed(mem[p]).status = "failed"
          /\ MarkFailed(mem[p]).url = mem[p].url
          /\ AttemptInv(p, MarkFailed(mem[p]))
      BY <2>2, <2>3, AttemptTypes, AttemptEffects
    <3>3. QED
      BY <1>6, <2>1, <3>1, <3>2
  <2>6. ASSUME NEW s \in Replies, SettleSucceeds(h, s)
        PROVE  AInv'
    <3> DEFINE j == [job[h] EXCEPT !.pc = "anchoring", !.settlement = s]
    <3>1. /\ Update(p, Settle(mem[p], s, None))
          /\ job' = [job EXCEPT ![h] = j]
      BY <2>6 DEF SettleSucceeds
    <3>2. s \in Settlement
      BY ConstantsType
    <3>3. /\ Settle(mem[p], s, None) \in Attempt
          /\ Settle(mem[p], s, None).status = "settled"
          /\ Settle(mem[p], s, None).url = mem[p].url
          /\ AttemptInv(p, Settle(mem[p], s, None))
      BY <2>2, <2>3, <3>2, AttemptTypes, AttemptEffects
    <3>4. /\ j \in Job /\ j.pc = "anchoring" /\ j.payment = p /\ j.asked
          /\ j.url = job[h].url /\ j.receipt = job[h].receipt
      BY <1>0, <2>2, <3>2 DEF Job, Held
    <3>5. Moves(h, j)
      BY <3>1, <3>4 DEF Moves
    <3>6. QED
      BY <1>6, <2>1, <3>1, <3>3, <3>4, <3>5
  <2>7. QED
    BY <1>7, <2>4, <2>5, <2>6 DEF SettleReply
<1>8. ASSUME Anchor(h)
      PROVE  AInv'
  <2>1. /\ job[h].pc = "anchoring" /\ p \in Payments /\ job[h].asked
        /\ UNCHANGED <<store, indexer, cli, submitted, served>>
    BY <1>0, <1>8 DEF Anchor, WorkerInv, history
  <2>2. CASE Goto(h, "binding")
    <3>1. \E j : Moves(h, j) /\ Continues(h, j)
      BY <1>0, <2>1, <2>2, ContinueGoto DEF AfterOutcome
    <3>2. QED
      BY <1>0, <2>1, <3>1, PastOutcome DEF AfterOutcome, Held
  <2>3. ASSUME NEW q \in Payments, TxOf[q] = TxOf[p],
               job' = [job EXCEPT ![h].pc = "binding", ![h].receipt = q]
        PROVE  AInv'
    <3> DEFINE j == [job[h] EXCEPT !.pc = "binding", !.receipt = q]
    <3>1. job' = [job EXCEPT ![h] = j]
      BY <2>3
    <3>2. /\ j \in Job /\ j.pc = "binding" /\ j.payment = p /\ j.asked
          /\ j.url = job[h].url /\ j.receipt = q /\ j.asked = job[h].asked
      BY <1>0, <2>1 DEF Job, Held
    <3>3. Moves(h, j) /\ Continues(h, j)
      BY <2>1, <2>3, <3>1, <3>2 DEF Moves, Continues, AfterOutcome
    <3>4. QED
      BY <1>0, <2>1, <3>3, PastOutcome DEF AfterOutcome, Held
  <2>4. QED
    BY <1>8, <2>1, <2>2, <2>3 DEF Anchor, SameTx
<1>9. ASSUME Bind(h) \/ Respond(h)
      PROVE  AInv'
  <2> DEFINE a == Settle(mem[p], job[h].settlement, job[h].receipt)
  <2>1. /\ job[h].pc \in {"binding", "responding"} /\ Update(p, a)
        /\ UNCHANGED <<indexer, cli, submitted>>
    BY <1>9 DEF Bind, Respond, history
  <2>2. /\ p \in Payments /\ job[h].asked /\ job[h].url \in Urls
        /\ mem[p].status = "settled" /\ mem[p].url = job[h].url
        /\ (job[h].receipt # None => TxOf[job[h].receipt] = TxOf[p])
    BY <1>0, <2>1 DEF WorkerInv, AfterOutcome
  <2>5. a \in Attempt /\ a.status = "settled" /\ a.url = mem[p].url /\ AttemptInv(p, a)
    BY <1>0, <2>1, SettledAgain
  <2>6. disk'[p] = a
    BY <2>1, <2>2 DEF Update, TypeOK
  <2>7. CASE Bind(h)
    <3>1. Goto(h, "unidentified") \/ Goto(h, "verifying")
      BY <2>7 DEF Bind
    <3>2. \E j : Moves(h, j) /\ Continues(h, j)
      BY <1>0, <2>1, <3>1, ContinueGoto DEF AfterOutcome
    <3>3. UNCHANGED served
      BY <2>7 DEF Bind, history
    <3>4. QED
      BY <1>0, <2>1, <2>5, <3>2, <3>3, PastOutcome DEF AfterOutcome, Held
  <2>8. CASE Respond(h)
    <3>1. served' = served \cup {<<p, job[h].url>>} /\ Done(h)
      BY <2>8 DEF Respond
    <3>2. \E j : Moves(h, j) /\ Continues(h, j)
      BY <1>0, <3>1, ContinueDone
    <3>3. \A x \in served' \ served :
            x \in Payments \X Urls /\ disk'[x[1]].status = "settled" /\ disk'[x[1]].url = x[2]
      BY <2>2, <2>5, <2>6, <3>1
    <3>4. QED
      BY <1>0, <2>1, <2>5, <3>2, <3>3, PastOutcome DEF AfterOutcome, Held
  <2>9. QED
    BY <1>9, <2>7, <2>8
<1>10. QED
  BY <1>1, <1>3, <1>4, <1>5, <1>7, <1>8, <1>9 DEF Handler

-------------------------------------------------------------------------------
(* Reconciliation *)

\* What reconciliation writes is the record of a settled attempt.
LEMMA ReconcileWrites ==
  ASSUME TypeOK, AInv, NEW w \in Workers, Reconcile(w)
  PROVE  \/ UNCHANGED store
         \/ \E a \in Attempt : /\ Update(job[w].payment, a)
                               /\ a.status = "settled" /\ a.url = mem[job[w].payment].url
                               /\ AttemptInv(job[w].payment, a)
<1> DEFINE p == job[w].payment
<1>0. WorkerInv(w) /\ job[w] \in Job
  BY DEF AInv, TypeOK
<1>1. job[w].pc \in AfterOutcome /\ (ThreadFree \/ job[w].pc \in Held)
  BY DEF Reconcile, RecordUnidentified, ApplyFinality, Finalize, Challenge, Review,
         AfterOutcome, Held
<1>2. /\ p \in Payments /\ mem[p].status = "settled" /\ mem[p] \in Attempt
      /\ AttemptInv(p, mem[p])
  BY <1>0, <1>1 DEF WorkerInv, AfterOutcome, AInv, StoreInv, TypeOK
<1>3. ASSUME NEW c \in Check, Update(p, RecordFinality(mem[p], c))
      PROVE  \E a \in Attempt : /\ Update(p, a)
                                /\ a.status = "settled" /\ a.url = mem[p].url
                                /\ AttemptInv(p, a)
  <2>1. RecordFinality(mem[p], c) \in Attempt
    BY <1>2, AttemptTypes
  <2>2. /\ RecordFinality(mem[p], c).status = "settled"
        /\ RecordFinality(mem[p], c).url = mem[p].url
        /\ AttemptInv(p, RecordFinality(mem[p], c))
    BY <1>2, AttemptEffects
  <2>3. QED
    BY <1>3, <2>1, <2>2
<1>4. CASE RecordUnidentified(w)
  BY <1>3, <1>4 DEF RecordUnidentified, Check
<1>5. CASE ApplyFinality(w)
  <2>1. job[w].answer \in Check
    BY <1>0, <1>5 DEF ApplyFinality, WorkerInv, Job
  <2>2. Update(p, RecordFinality(mem[p], job[w].answer))
    BY <1>5 DEF ApplyFinality
  <2>3. QED
    BY <1>3, <2>1, <2>2
<1>6. CASE Review(w)
  <2>1. RequireRefundReview(mem[p]) \in Attempt
    BY <1>2, AttemptTypes
  <2>2. /\ RequireRefundReview(mem[p]).status = "settled"
        /\ RequireRefundReview(mem[p]).url = mem[p].url
        /\ AttemptInv(p, RequireRefundReview(mem[p]))
    BY <1>2, AttemptEffects
  <2>3. QED
    BY <1>6, <2>1, <2>2 DEF Review
<1>7. CASE Finalize(w) \/ Challenge(w)
  BY <1>7 DEF Finalize, Challenge
<1>8. QED
  BY <1>4, <1>5, <1>6, <1>7 DEF Reconcile

\* Reconciliation keeps the attempt side of the invariant.
LEMMA ReconcileKeeps ==
  ASSUME TypeOK, AInv, NEW w \in Workers, Reconcile(w)
  PROVE  AInv'
<1> DEFINE p == job[w].payment
<1>0. WorkerInv(w) /\ job[w] \in Job
  BY DEF AInv, TypeOK
<1>1. job[w].pc \in AfterOutcome /\ (ThreadFree \/ job[w].pc \in Held)
  BY DEF Reconcile, RecordUnidentified, ApplyFinality, Finalize, Challenge, Review,
         AfterOutcome, Held
<1>2. /\ p \in Payments /\ mem[p].status = "settled" /\ mem[p] \in Attempt
      /\ AttemptInv(p, mem[p])
  BY <1>0, <1>1 DEF WorkerInv, AfterOutcome, AInv, StoreInv, TypeOK
<1>3. UNCHANGED <<indexer, cli, submitted, served>>
  BY DEF Reconcile, RecordUnidentified, ApplyFinality, Finalize, Challenge, Review,
         history
<1>4. \/ UNCHANGED store
      \/ \E a \in Attempt : /\ Update(p, a)
                            /\ a.status = "settled" /\ a.url = mem[p].url
                            /\ AttemptInv(p, a)
  BY ReconcileWrites
<1>5. \E j : Moves(w, j) /\ Continues(w, j)
  <2>1. CASE AfterReconcile(w)
    BY <1>0, <1>1, <2>1, ContinueAfterReconcile
  <2>2. CASE Done(w)
    BY <2>2, ContinueDone
  <2>3. CASE Goto(w, "reviewing")
    BY <1>0, <1>1, <2>3, ContinueGoto DEF AfterOutcome
  <2>4. CASE Goto(w, "challenging") /\ job[w].receipt # None
    BY <1>0, <1>1, <2>4, ContinueGoto DEF AfterOutcome
  <2>5. CASE Goto(w, "finalizing") /\ ApplyFinality(w) /\ job[w].answer = "confirmed"
             /\ job[w].receipt # None
    <3>1. indexer[TxOf[p]] = "final"
      BY <1>0, <2>5 DEF ApplyFinality, WorkerInv
    <3>2. QED
      BY <1>0, <1>1, <2>5, <3>1, ContinueGoto DEF AfterOutcome
  <2>6. CASE ApplyFinality(w)
    <3>1. \/ Goto(w, "finalizing") /\ job[w].answer = "confirmed" /\ job[w].receipt # None
          \/ Goto(w, "challenging") /\ job[w].receipt # None
          \/ Goto(w, "reviewing")
          \/ AfterReconcile(w)
      BY <2>6 DEF ApplyFinality
    <3>2. QED
      BY <2>1, <2>3, <2>4, <2>5, <2>6, <3>1
  <2>7. CASE RecordUnidentified(w)
    BY <2>3, <2>4, <2>7 DEF RecordUnidentified
  <2>8. CASE Finalize(w) \/ Challenge(w) \/ Review(w)
    BY <2>1, <2>2, <2>3, <2>8 DEF Finalize, Challenge, Review
  <2>9. QED
    BY <2>6, <2>7, <2>8 DEF Reconcile
<1>6. QED
  BY <1>1, <1>3, <1>4, <1>5, PastOutcome

\* Reconciliation, the Indexer's answers and failed writes keep it too.
LEMMA WorkerKeeps ==
  ASSUME TypeOK, AInv, NEW w \in Workers, Worker(w)
  PROVE  AInv'
<1>0. WorkerInv(w) /\ job[w] \in Job
  BY DEF AInv, TypeOK
<1>1. ASSUME NEW j, Moves(w, j), WorkerInv(w)', j.pc \notin Held \/ ThreadFree,
             j.pc # "settling", UNCHANGED <<store, indexer, cli, submitted, served>>
      PROVE  AInv'
  <2>1. /\ \A v \in Workers, r \in Payments : StepKeeps(v, r)
        /\ \A r \in Payments : StoreInv(r)'
    BY <1>1, QuietStore
  <2>2. OneThread' /\ OneSettler' /\ CliInv' /\ \A v \in Workers : WorkerInv(v)'
    BY <1>1, <2>1, WorkerStep
  <2>3. ServedInv'
    BY <1>1, <2>1, ServedFrame
  <2>4. QED
    BY <2>1, <2>2, <2>3 DEF AInv
<1>2. ASSUME NEW p \in Payments, StartReconcile(w, p)
      PROVE  AInv'
  <2> DEFINE pc == IF mem[p].settlement = "partial" THEN "unidentified" ELSE "verifying"
             j == [Idle EXCEPT !.pc = pc, !.payment = p,
                     !.settlement = mem[p].settlement, !.receipt = mem[p].receipt]
  <2>1. /\ ThreadFree /\ mem[p].status = "settled" /\ job' = [job EXCEPT ![w] = j]
        /\ UNCHANGED <<store, indexer, cli, submitted, served>>
    BY <1>2 DEF StartReconcile, history
  <2>2. /\ mem[p].settlement \in Settlement /\ mem[p].receipt \in Payments \cup {None}
        /\ (mem[p].receipt # None => TxOf[mem[p].receipt] = TxOf[p])
    BY DEF TypeOK, Attempt, AInv, StoreInv, AttemptInv
  <2>3. pc \in {"unidentified", "verifying"}
    OBVIOUS
  <2> HIDE DEF pc
  <2>4. /\ j \in Job /\ j.pc = pc /\ j.payment = p /\ j.asked = FALSE
        /\ j.receipt = mem[p].receipt
    BY <2>2, <2>3 DEF Idle, Job, Held, Await
  <2>5. Moves(w, j) /\ job'[w] = j
    BY <2>1, <2>4 DEF Moves, TypeOK
  <2>6. mem' = mem /\ disk' = disk
    BY <2>1 DEF store
  <2>7. WorkerInv(w)'
    BY <2>1, <2>2, <2>3, <2>4, <2>5, <2>6 DEF WorkerInv, AfterOutcome
  <2>8. QED
    BY <1>1, <2>1, <2>3, <2>4, <2>5, <2>7
<1>3. ASSUME job[w].pc = "verifying", NEW c \in Check,
             job' = [job EXCEPT ![w].pc = "answered", ![w].answer = c],
             c = "confirmed" => indexer[TxOf[job[w].payment]] = "final",
             UNCHANGED <<store, indexer, cli, submitted, served>>
      PROVE  AInv'
  <2> DEFINE j == [job[w] EXCEPT !.pc = "answered", !.answer = c]
  <2>1. /\ j \in Job /\ j.pc = "answered" /\ j.payment = job[w].payment
        /\ j.asked = job[w].asked /\ j.url = job[w].url /\ j.receipt = job[w].receipt
        /\ j.answer = c
    BY <1>0 DEF Job, Await
  <2>2. job' = [job EXCEPT ![w] = j]
    BY <1>3
  <2>3. Moves(w, j) /\ job'[w] = j
    BY <2>1, <2>2 DEF Moves, TypeOK
  <2>4. mem' = mem /\ disk' = disk /\ c # "none"
    BY <1>3 DEF store, Check
  <2>5. WorkerInv(w)'
    <3>1. LET p == job[w].payment IN
          /\ p \in Payments /\ mem[p].status = "settled"
          /\ job[w].asked => mem[p].url = job[w].url /\ job[w].url \in Urls
          /\ job[w].receipt # None => TxOf[job[w].receipt] = TxOf[p]
      BY <1>0, <1>3 DEF WorkerInv, AfterOutcome
    <3>2. indexer' = indexer
      BY <1>3
    <3>3. c = "confirmed" => indexer[TxOf[job[w].payment]] = "final"
      BY <1>3
    <3> HIDE DEF j
    <3>4. QED
      BY <2>1, <2>3, <2>4, <3>1, <3>2, <3>3 DEF WorkerInv, AfterOutcome
  <2>6. QED
    BY <1>1, <1>3, <2>1, <2>3, <2>5 DEF Held
<1>4. ASSUME IndexerAnswers(w) \/ IndexerUnavailable(w)
      PROVE  AInv'
  <2>1. job[w].payment \in Payments
    BY <1>0, <1>4 DEF IndexerAnswers, IndexerUnavailable, WorkerInv
  <2>2. indexer[TxOf[job[w].payment]] \in IndexerState
    BY <2>1, TxOfType DEF TypeOK
  <2> DEFINE c == Verdict(TxOf[job[w].payment], job[w].settlement)
  <2>3. /\ c \in Check /\ "unavailable" \in Check
        /\ c = "confirmed" => indexer[TxOf[job[w].payment]] = "final"
    BY <2>2 DEF Verdict, IndexerState, Check
  <2>4. QED
    BY <1>3, <1>4, <2>3 DEF IndexerAnswers, IndexerUnavailable, history
<1>5. ASSUME WriteFails(w)
      PROVE  AInv'
  <2>1. Moves(w, Idle) /\ UNCHANGED <<store, indexer, cli, submitted, served>>
    BY <1>5, GotoMoves DEF WriteFails, history
  <2>2. WorkerInv(w)'
    BY <2>1, IdleInv
  <2>3. QED
    BY <1>1, <2>1, <2>2 DEF Idle, Held
<1>6. QED
  BY <1>2, <1>4, <1>5, ReconcileKeeps DEF Worker

-------------------------------------------------------------------------------
(* The refund command, the chain and the faults *)

\* Steps of nobody's handler that leave memory and submissions alone.
LEMMA OutsideStep ==
  ASSUME TypeOK, AInv, UNCHANGED <<mem, job, submitted, served>>, CliInv',
         \A p \in Payments : indexer[TxOf[p]] = "final" => indexer'[TxOf[p]] = "final",
         \A p \in Payments :
           \/ disk'[p] = disk[p]
           \/ /\ disk[p].status = "settled" /\ disk'[p].status = "settled"
              /\ disk'[p].url = disk[p].url /\ AttemptInv(p, disk'[p])
  PROVE  AInv'
<1>1. OneThread' /\ OneSettler'
  BY DEF AInv, OneThread, OneSettler
<1>2. ASSUME NEW w \in Workers
      PROVE  WorkerInv(w)'
  <2>1. WorkerInv(w) /\ job'[w] = job[w]
    BY DEF AInv
  <2>2. job[w].pc = "claiming" => disk'[job[w].payment].status = "torn"
    BY <2>1 DEF WorkerInv
  <2>3. mem' = mem
    OBVIOUS
  <2>4. QED
    BY <2>1, <2>2, <2>3, WorkerFrame
<1>3. ASSUME NEW p \in Payments
      PROVE  StoreInv(p)'
  <2>1. CASE disk'[p] = disk[p]
    BY <2>1 DEF AInv, StoreInv, AttemptInv
  <2>2. CASE /\ disk[p].status = "settled" /\ disk'[p].status = "settled"
             /\ disk'[p].url = disk[p].url /\ AttemptInv(p, disk'[p])
    BY <2>2 DEF AInv, StoreInv, AttemptInv
  <2>3. QED
    BY <2>1, <2>2
<1>4. ServedInv'
  <2> SUFFICES ASSUME NEW x \in served
               PROVE  disk'[x[1]].status = "settled" /\ disk'[x[1]].url = x[2]
    BY DEF ServedInv
  <2>1. x[1] \in Payments
    BY DEF TypeOK
  <2>2. disk[x[1]].status = "settled" /\ disk[x[1]].url = x[2]
    BY DEF AInv, ServedInv
  <2>3. QED
    BY <2>1, <2>2
<1>5. QED
  BY <1>1, <1>2, <1>3, <1>4 DEF AInv

\* So does the refund command: it writes settled attempts only.
LEMMA OperatorKeeps ==
  ASSUME TypeOK, AInv, Operator
  PROVE  AInv'
<1>1. UNCHANGED <<mem, job, submitted, served, indexer>>
  BY DEF Operator, ExecuteRefund, LoadForRefund, RecordRefund, store, history
<1>2. ASSUME NEW p \in Payments, ExecuteRefund(p)
      PROVE  AInv'
  <2>1. UNCHANGED disk /\ cli.copy.refund # "review_required"
    BY <1>2 DEF ExecuteRefund, store, AInv, CliInv
  <2>2. cli'.pc = "paid" /\ cli'.payment = p /\ cli'.copy = cli.copy
    BY <1>2 DEF ExecuteRefund, TypeOK
  <2>3. CliInv'
    BY <2>1, <2>2 DEF CliInv
  <2>4. QED
    BY <1>1, <2>1, <2>3, OutsideStep
<1>3. CASE LoadForRefund
  <2> DEFINE p == cli.payment
             a == Loaded(disk[p])
  <2>1. UNCHANGED disk /\ p \in Payments
    BY <1>3 DEF LoadForRefund, store, AInv, CliInv
  <2>2. cli'.pc = "loaded" /\ cli'.payment = p /\ cli'.copy = a
    BY <1>3 DEF LoadForRefund, TypeOK
  <2>3. a.refund = "review_required" => a = disk[p]
    BY NewAttemptEffects, <2>1 DEF Loaded
  <2>4. AttemptInv(p, disk[p])
    BY <2>1 DEF AInv, StoreInv
  <2>5. a.refund = "review_required" =>
          a.status = "settled" /\ disk[p].status = "settled" /\ a.url = disk[p].url
          /\ AttemptInv(p, a)
    BY <2>3, <2>4 DEF AttemptInv
  <2> HIDE DEF a
  <2>6. CliInv'
    BY <2>1, <2>2, <2>5 DEF CliInv, AttemptInv
  <2>7. QED
    BY <1>1, <2>1, <2>6, OutsideStep
<1>4. CASE RecordRefund
  <2> DEFINE p == cli.payment
             a == CompleteRefund(cli.copy)
  <2>1. cli' = [pc |-> "idle", payment |-> None, copy |-> NoAttempt]
    BY <1>4 DEF RecordRefund
  <2>2. CliInv'
    <3>1. cli'.pc = "idle" /\ cli'.copy.refund = "not_required"
      BY <2>1 DEF NoAttempt
    <3>2. QED
      BY <3>1 DEF CliInv
  <2>3. CASE ~CanCompleteRefund(cli.copy)
    <3>1. UNCHANGED disk
      BY <1>4, <2>3 DEF RecordRefund
    <3>2. QED
      BY <1>1, <2>2, <3>1, OutsideStep
  <2>4. CASE CanCompleteRefund(cli.copy)
    <3>1. disk' = [disk EXCEPT ![p] = a]
      BY <1>4, <2>4 DEF RecordRefund
    <3>2. /\ p \in Payments /\ cli.copy.status = "settled" /\ disk[p].status = "settled"
          /\ cli.copy.url = disk[p].url /\ AttemptInv(p, cli.copy) /\ cli.copy \in Attempt
      BY <2>4 DEF AInv, CliInv, CanCompleteRefund, TypeOK
    <3>3. a.status = "settled" /\ a.url = disk[p].url /\ AttemptInv(p, a)
      BY <3>2, AttemptEffects
    <3>4. disk'[p] = a /\ \A q \in Payments \ {p} : disk'[q] = disk[q]
      BY <3>1, <3>2 DEF TypeOK
    <3>5. \A q \in Payments :
            \/ disk'[q] = disk[q]
            \/ /\ disk[q].status = "settled" /\ disk'[q].status = "settled"
               /\ disk'[q].url = disk[q].url /\ AttemptInv(q, disk'[q])
      BY <3>2, <3>3, <3>4
    <3>6. QED
      BY <1>1, <2>2, <3>5, OutsideStep
  <2>5. QED
    BY <2>3, <2>4
<1>5. QED
  BY <1>2, <1>3, <1>4 DEF Operator

\* So does the chain.
LEMMA IndexerKeeps ==
  ASSUME TypeOK, AInv, NEW t \in Txs, IndexerAdvances(t)
  PROVE  AInv'
<1>1. UNCHANGED <<mem, disk, job, submitted, served, cli>>
  BY DEF IndexerAdvances, store, history
<1>2. \A p \in Payments : indexer[TxOf[p]] = "final" => indexer'[TxOf[p]] = "final"
  BY TxOfType DEF IndexerAdvances, TypeOK
<1>3. CliInv'
  BY <1>1 DEF AInv, CliInv
<1>4. QED
  BY <1>1, <1>2, <1>3, OutsideStep

\* So does a restart, which believes the readable files.
LEMMA CrashKeeps ==
  ASSUME TypeOK, AInv, Crash
  PROVE  AInv'
<1>1. /\ UNCHANGED <<disk, cli, indexer, submitted, served>>
      /\ mem' = [p \in Payments |-> Loaded(disk[p])]
      /\ job' = [w \in Workers |-> Idle]
  BY DEF Crash, history
<1>2. OneThread' /\ OneSettler' /\ \A w \in Workers : WorkerInv(w)'
  BY <1>1 DEF OneThread, OneSettler, WorkerInv, Idle, Held, AfterOutcome
<1>3. ASSUME NEW p \in Payments
      PROVE  StoreInv(p)'
  <2>1. mem'[p] = Loaded(disk[p]) /\ StoreInv(p)
    BY <1>1 DEF AInv
  <2>2. CASE Readable(disk[p])
    BY <1>1, <2>1, <2>2 DEF Loaded, Readable, StoreInv, AttemptInv
  <2>3. CASE ~Readable(disk[p])
    <3>1. mem'[p] = NoAttempt
      BY <2>1, <2>3 DEF Loaded
    <3>2. NoAttempt.status = "absent" /\ AttemptInv(p, NoAttempt)
      BY NewAttemptEffects
    <3>3. QED
      BY <1>1, <2>1, <3>1, <3>2 DEF StoreInv, AttemptInv
  <2>4. QED
    BY <2>2, <2>3
<1>4. CliInv' /\ ServedInv'
  BY <1>1 DEF AInv, CliInv, ServedInv
<1>5. QED
  BY <1>2, <1>3, <1>4 DEF AInv

\* So do a reset of the demo ledger and a stuttering step.
LEMMA StutterKeeps ==
  ASSUME TypeOK, AInv, UNCHANGED vars \/ Reset
  PROVE  AInv'
<1>1. UNCHANGED <<mem, disk, job, cli, indexer, submitted, served>>
  BY DEF vars, Reset, store, history
<1>2. CliInv'
  BY <1>1 DEF AInv, CliInv
<1>3. QED
  BY <1>1, <1>2, OutsideStep

\* The attempt side of the invariant is inductive.
LEMMA NextAInv == TypeOK /\ AInv /\ [Next]_vars => AInv'
<1> SUFFICES ASSUME TypeOK, AInv, [Next]_vars
             PROVE  AInv'
  OBVIOUS
<1>1. QED
  BY HandlerKeeps, WorkerKeeps, OperatorKeeps, IndexerKeeps, CrashKeeps, StutterKeeps
  DEF Next

-------------------------------------------------------------------------------
(* Receipts *)

\* The receipt side of the invariant.
RInv == OnlyConfirmedCounts /\ RevenueOncePerTransaction

\* The copy written is the live state or the copy stays.
LEMMA PersistCases ==
  ASSUME TypeOK, NEW r \in Payments, NEW s \in ReceiptStatus, PersistProof(r, s)
  PROVE  /\ proofFile'[r] \in {proofFile[r], s}
         /\ \A q \in Payments \ {r} : proofFile'[q] = proofFile[q]
BY DEF PersistProof, TypeOK

\* Steps that touch no receipt.
LEMMA ReceiptsStay ==
  ASSUME TypeOK, RInv, UNCHANGED receipts,
         \A p \in Payments : indexer[TxOf[p]] = "final" => indexer'[TxOf[p]] = "final"
  PROVE  RInv'
<1>1. registry' = registry /\ proofFile' = proofFile /\ credits' = credits
  BY DEF receipts
<1>2. OnlyConfirmedCounts'
  BY <1>1 DEF RInv, OnlyConfirmedCounts
<1>3. RevenueOncePerTransaction'
  BY <1>1 DEF RInv, RevenueOncePerTransaction
<1>4. QED
  BY <1>2, <1>3 DEF RInv

\* Anchoring counts nothing and makes no second receipt of a transaction.
LEMMA AnchorCounts ==
  ASSUME TypeOK, AInv, RInv, NEW h \in Handlers, Anchor(h)
  PROVE  RInv'
<1> DEFINE p == job[h].payment
<1>1. p \in Payments
  BY DEF Anchor, AInv, WorkerInv, Workers
<1>2. UNCHANGED <<credits, indexer>>
  BY DEF Anchor
<1>3. CASE UNCHANGED <<registry, proofFile>>
  BY <1>2, <1>3, ReceiptsStay DEF receipts
<1>4. ASSUME NEW q \in SameTx(registry, p), PersistProof(q, registry[q]), UNCHANGED registry
      PROVE  RInv'
  <2>1. q \in Payments /\ registry[q] \in ReceiptStatus
    BY DEF SameTx, TypeOK
  <2>2. /\ proofFile'[q] \in {proofFile[q], registry[q]}
        /\ \A r \in Payments \ {q} : proofFile'[r] = proofFile[r]
    BY <1>4, <2>1, PersistCases
  <2>3. OnlyConfirmedCounts'
    BY <1>2, <1>4, <2>2 DEF RInv, OnlyConfirmedCounts
  <2>4. RevenueOncePerTransaction'
    BY <1>2, <1>4 DEF RInv, RevenueOncePerTransaction
  <2>5. QED
    BY <2>3, <2>4 DEF RInv
<1>5. CASE /\ SameTx(registry, p) = {}
           /\ registry' = Anchored(registry, p)
           /\ PersistProof(p, "anchored")
  <2>1. registry'[p] = "anchored" /\ \A q \in Payments \ {p} : registry'[q] = registry[q]
    BY <1>1, <1>5 DEF Anchored, TypeOK
  <2>2. /\ proofFile'[p] \in {proofFile[p], "anchored"}
        /\ \A q \in Payments \ {p} : proofFile'[q] = proofFile[q]
    BY <1>1, <1>5, PersistCases DEF ReceiptStatus
  <2>3. OnlyConfirmedCounts'
    BY <1>2, <2>1, <2>2 DEF RInv, OnlyConfirmedCounts
  <2>4. \A q \in Payments : TxOf[q] = TxOf[p] => registry[q] = "none"
    BY <1>5 DEF SameTx
  <2>5. RevenueOncePerTransaction'
    BY <1>1, <1>2, <2>1, <2>4 DEF RInv, RevenueOncePerTransaction
  <2>6. QED
    BY <2>3, <2>5 DEF RInv
<1>6. QED
  BY <1>3, <1>4, <1>5 DEF Anchor

\* Finalizing counts a confirmed transaction, once.
LEMMA FinalizeCounts ==
  ASSUME TypeOK, AInv, RInv, NEW w \in Workers, Finalize(w)
  PROVE  RInv'
<1> DEFINE r == job[w].receipt
<1>1. r \in Payments /\ indexer[TxOf[r]] = "final"
  <2>1. /\ job[w].pc = "finalizing" /\ WorkerInv(w) /\ job[w] \in Job
    BY DEF Finalize, AInv, TypeOK
  <2>2. r # None /\ r \in Payments \cup {None}
    BY <2>1 DEF WorkerInv, Job
  <2>3. QED
    BY <2>1, <2>2 DEF WorkerInv
<1>2. UNCHANGED indexer
  BY DEF Finalize
<1>3. CASE UNCHANGED receipts
  BY <1>2, <1>3, ReceiptsStay
<1>4. CASE /\ CanFinalize(registry, r)
           /\ registry' = Finalized(registry, r)
           /\ credits' = CreditedBy(credits, registry, r)
           /\ PersistProof(r, "finalized")
  <2>1. registry'[r] = "finalized" /\ \A q \in Payments \ {r} : registry'[q] = registry[q]
    BY <1>1, <1>4 DEF Finalized, TypeOK
  <2>2. /\ proofFile'[r] \in {proofFile[r], "finalized"}
        /\ \A q \in Payments \ {r} : proofFile'[q] = proofFile[q]
    BY <1>1, <1>4, PersistCases DEF ReceiptStatus
  <2>3. OnlyConfirmedCounts'
    BY <1>1, <1>2, <2>1, <2>2 DEF RInv, OnlyConfirmedCounts
  <2>4. registry[r] \in {"anchored", "finalized"}
    BY <1>4 DEF CanFinalize
  <2>5. credits'[r] = 1
    BY <1>1, <1>4, <2>4 DEF CreditedBy, TypeOK, RInv, RevenueOncePerTransaction
  <2>6. \A q \in Payments \ {r} : credits'[q] = credits[q]
    BY <1>1, <1>4 DEF CreditedBy, TypeOK
  <2>7. RevenueOncePerTransaction'
    BY <1>1, <2>1, <2>4, <2>5, <2>6 DEF RInv, RevenueOncePerTransaction
  <2>8. QED
    BY <2>3, <2>7 DEF RInv
<1>5. QED
  BY <1>3, <1>4 DEF Finalize

\* A challenge takes nothing that was counted.
LEMMA ChallengeCounts ==
  ASSUME TypeOK, AInv, RInv, NEW w \in Workers, Challenge(w)
  PROVE  RInv'
<1> DEFINE r == job[w].receipt
<1>1. r \in Payments
  BY BusyTypes DEF Challenge, AInv, WorkerInv
<1>2. UNCHANGED <<indexer, credits>>
  BY DEF Challenge
<1>3. CASE UNCHANGED <<registry, proofFile>>
  BY <1>2, <1>3, ReceiptsStay DEF receipts
<1>4. CASE /\ CanChallenge(registry, r)
           /\ registry' = Challenged(registry, r)
           /\ PersistProof(r, Challenged(registry, r)[r])
  <2>1. /\ registry[r] # "none"
        /\ registry'[r] = IF registry[r] = "finalized" THEN "finalized" ELSE "challenged"
        /\ \A q \in Payments \ {r} : registry'[q] = registry[q]
    BY <1>1, <1>4 DEF CanChallenge, Challenged, TypeOK
  <2>2. registry'[r] \in ReceiptStatus /\ PersistProof(r, registry'[r])
    BY <1>4, <2>1 DEF ReceiptStatus
  <2>3. /\ proofFile'[r] \in {proofFile[r], registry'[r]}
        /\ \A q \in Payments \ {r} : proofFile'[q] = proofFile[q]
    BY <1>1, <2>2, PersistCases
  <2>4. OnlyConfirmedCounts'
    BY <1>2, <2>1, <2>3 DEF RInv, OnlyConfirmedCounts
  <2>5. RevenueOncePerTransaction'
    BY <1>1, <1>2, <2>1 DEF RInv, RevenueOncePerTransaction
  <2>6. QED
    BY <2>4, <2>5 DEF RInv
<1>5. QED
  BY <1>3, <1>4 DEF Challenge

\* Restarting counts what the copies say, a reset counts nothing.
LEMMA RestartCounts ==
  ASSUME TypeOK, RInv, Crash \/ Reset
  PROVE  RInv'
<1>1. UNCHANGED <<proofFile, indexer>>
  BY DEF Crash, Reset
<1>2. ASSUME NEW S \in SUBSET Payments, Restorable(proofFile, S),
             registry' = Restored(proofFile, S), credits' = RestoredCredits(proofFile, S)
      PROVE  RInv'
  <2>1. \A p \in Payments :
          /\ registry'[p] = IF p \in S THEN proofFile[p] ELSE "none"
          /\ credits'[p] = IF p \in S /\ proofFile[p] = "finalized" THEN 1 ELSE 0
    BY <1>2 DEF Restored, RestoredCredits
  <2>2. OnlyConfirmedCounts'
    BY <1>1, <2>1 DEF RInv, OnlyConfirmedCounts
  <2>3. RevenueOncePerTransaction'
    BY <1>2, <2>1 DEF RevenueOncePerTransaction, Restorable
  <2>4. QED
    BY <2>2, <2>3 DEF RInv
<1>3. CASE Reset
  <2>1. \A p \in Payments : registry'[p] = "none" /\ credits'[p] = 0
    BY <1>3 DEF Reset, NoReceipts, NoCredits
  <2>2. OnlyConfirmedCounts' /\ RevenueOncePerTransaction'
    BY <1>1, <2>1 DEF RInv, OnlyConfirmedCounts, RevenueOncePerTransaction
  <2>3. QED
    BY <2>2 DEF RInv
<1>4. QED
  BY <1>2, <1>3 DEF Crash

\* The receipt side of the invariant is inductive, given the attempt side.
LEMMA NextRInv == TypeOK /\ AInv /\ RInv /\ [Next]_vars => RInv'
<1> SUFFICES ASSUME TypeOK, AInv, RInv, [Next]_vars
             PROVE  RInv'
  OBVIOUS
<1>1. ASSUME UNCHANGED <<receipts, indexer>>
      PROVE  RInv'
  BY <1>1, ReceiptsStay
<1>2. ASSUME NEW h \in Handlers, Handler(h)
      PROVE  RInv'
  BY <1>1, <1>2, AnchorCounts
  DEF Handler, Request, AuthorizeFails, Claim, ClaimSynced, SettleReply, SettleThrows,
      SettleRejected, SettleSucceeds, Bind, Respond
<1>3. ASSUME NEW w \in Workers, Worker(w)
      PROVE  RInv'
  BY <1>1, <1>3, FinalizeCounts, ChallengeCounts
  DEF Worker, StartReconcile, IndexerAnswers, IndexerUnavailable, Reconcile,
      RecordUnidentified, ApplyFinality, Review, WriteFails
<1>4. ASSUME NEW t \in Txs, IndexerAdvances(t)
      PROVE  RInv'
  <2>1. \A p \in Payments : indexer[TxOf[p]] = "final" => indexer'[TxOf[p]] = "final"
    BY <1>4, TxOfType DEF IndexerAdvances, TypeOK
  <2>2. QED
    BY <1>4, <2>1, ReceiptsStay DEF IndexerAdvances
<1>5. CASE Operator
  BY <1>1, <1>5 DEF Operator, ExecuteRefund, LoadForRefund, RecordRefund
<1>6. QED
  BY <1>1, <1>2, <1>3, <1>4, <1>5, RestartCounts DEF Next, vars, receipts

-------------------------------------------------------------------------------
(* The invariant and the theorems *)

\* The invariant holds initially ...
LEMMA InitIInv == Init => IInv
<1> SUFFICES ASSUME Init
             PROVE  IInv
  OBVIOUS
<1>1. /\ mem = [p \in Payments |-> NoAttempt] /\ disk = mem
      /\ registry = [p \in Payments |-> "none"] /\ proofFile = registry
      /\ credits = [p \in Payments |-> 0]
      /\ job = [w \in Workers |-> Idle]
      /\ cli = [pc |-> "idle", payment |-> None, copy |-> NoAttempt]
      /\ submitted = [p \in Payments |-> 0] /\ served = {}
  BY DEF Init, NoReceipts, NoCredits
<1>2. TypeOK
  BY InitTypes
<1>3. OneThread /\ OneSettler /\ \A w \in Workers : WorkerInv(w)
  BY <1>1 DEF OneThread, OneSettler, WorkerInv, Idle, Held, AfterOutcome
<1>4. \A p \in Payments : StoreInv(p)
  BY <1>1, NewAttemptEffects DEF StoreInv
<1>5. CliInv /\ ServedInv
  BY <1>1 DEF CliInv, ServedInv, NoAttempt
<1>6. OnlyConfirmedCounts /\ RevenueOncePerTransaction
  BY <1>1 DEF OnlyConfirmedCounts, RevenueOncePerTransaction
<1>7. QED
  BY <1>2, <1>3, <1>4, <1>5, <1>6 DEF IInv

\* ... and is preserved by every step.
LEMMA NextIInv == IInv /\ [Next]_vars => IInv'
<1> SUFFICES ASSUME IInv, [Next]_vars
             PROVE  IInv'
  OBVIOUS
<1>1. TypeOK /\ AInv /\ RInv /\ CliInv /\ \A w \in Workers : WorkerInv(w)
  BY DEF IInv, AInv, RInv
<1>2. TypeOK'
  BY <1>1, NextTypes
<1>3. AInv' /\ RInv'
  BY <1>1, NextAInv, NextRInv
<1>4. QED
  BY <1>2, <1>3 DEF IInv, AInv, RInv

\* IInv holds in every reachable state.
THEOREM Invariance == Spec => []IInv
<1>1. QED
  BY InitIInv, NextIInv, PTL DEF Spec

\* Every variable keeps its type, whatever the number of payments, requests, handlers,
\* faults and refunds.
THEOREM TypeCorrect == Spec => []TypeOK
<1>1. IInv => TypeOK
  BY DEF IInv
<1>2. QED
  BY Invariance, <1>1, PTL

\* A payment proof reaches the facilitator's settlement at most once (claim's exclusive
\* create before settle), for any number of concurrent requests and restarts.
THEOREM ChargedAtMostOnce == Spec => []SubmittedOnce
<1>1. IInv => SubmittedOnce
  <2> SUFFICES ASSUME IInv, NEW p \in Payments
               PROVE  submitted[p] <= 1
    BY DEF SubmittedOnce
  <2>1. submitted[p] \in {0, 1}
    BY DEF IInv, StoreInv
  <2>2. QED
    BY <2>1
<1>2. QED
  BY Invariance, <1>1, PTL

\* The report of a payment goes to one resource request only, and only when the
\* settlement is on disk (replay and respond).
THEOREM ReportBound == Spec => []ReportForOneRequest
<1>1. IInv => ReportForOneRequest
  BY DEF IInv, ServedInv, ReportForOneRequest
<1>2. QED
  BY Invariance, <1>1, PTL

\* Nothing is counted or published as finalized but transfers the Indexer holds final
\* (reconcileAlgorandPayment, finalizeExternalReceipt, restoration at start-up).
THEOREM ConfirmedOnly == Spec => []OnlyConfirmedCounts
<1>1. IInv => OnlyConfirmedCounts
  BY DEF IInv
<1>2. QED
  BY Invariance, <1>1, PTL

\* A transaction has one live receipt at most and is credited once (anchor's lookup,
\* finalize, nonce check of restore), also when several proofs settle with it.
THEOREM CreditedOnce == Spec => []RevenueOncePerTransaction
<1>1. IInv => RevenueOncePerTransaction
  BY DEF IInv
<1>2. QED
  BY Invariance, <1>1, PTL

-------------------------------------------------------------------------------
(* The refinement *)

\* An attempt that was not claimed is bound to no request.
UnclaimedUnbound ==
  \A p \in Payments : disk[p].status \in {"absent", "torn"} => disk[p].url = None

\* The file of p says what it said.
Same(p) == disk'[p].status = disk[p].status /\ disk'[p].url = disk[p].url

\* A step that leaves what the files say, and the reports sent, alone maps to a stutter.
LEMMA SameStutters ==
  ASSUME UnclaimedUnbound, \A p \in Payments : Same(p), served' = served
  PROVE  UNCHANGED Promise!vars /\ UnclaimedUnbound'
<1>1. outcome' = outcome /\ boundTo' = boundTo
  BY DEF outcome, boundTo, Same
<1>2. UnclaimedUnbound'
  BY DEF UnclaimedUnbound, Same
<1>3. QED
  BY <1>1, <1>2 DEF Promise!vars

\* A step that sends a report of a settled attempt maps to Deliver.
LEMMA SameDelivers ==
  ASSUME UnclaimedUnbound, \A p \in Payments : Same(p), NEW p \in Payments,
         disk[p].status = "settled", served' = served \cup {<<p, disk[p].url>>}
  PROVE  Promise!Next /\ UnclaimedUnbound'
<1>1. outcome' = outcome /\ boundTo' = boundTo
  BY DEF outcome, boundTo, Same
<1>2. UnclaimedUnbound'
  BY DEF UnclaimedUnbound, Same
<1>3. outcome[p] = "paid" /\ boundTo[p] = disk[p].url
  BY DEF outcome, boundTo, OutcomeOf
<1>4. Promise!Deliver(p)
  BY <1>1, <1>3 DEF Promise!Deliver
<1>5. QED
  BY <1>2, <1>4 DEF Promise!Next

\* An update writes one file.
LEMMA UpdateFile ==
  ASSUME TypeOK, NEW p \in Payments, NEW a, Update(p, a)
  PROVE  disk'[p] = a /\ \A q \in Payments \ {p} : disk'[q] = disk[q]
BY DEF TypeOK, Update

\* The initial states map to the initial state of the promise.
LEMMA InitPromise == Init => Promise!Init /\ UnclaimedUnbound
<1> SUFFICES ASSUME Init
             PROVE  Promise!Init /\ UnclaimedUnbound
  OBVIOUS
<1>1. \A p \in Payments : disk[p].status = "absent" /\ disk[p].url = None
  BY DEF Init, NoAttempt
<1>2. outcome = [p \in Payments |-> "open"] /\ boundTo = [p \in Payments |-> None]
  BY <1>1 DEF outcome, boundTo, OutcomeOf
<1>3. served = {}
  BY DEF Init
<1>4. QED
  BY <1>1, <1>2, <1>3 DEF Promise!Init, UnclaimedUnbound

\* A known proof that comes again maps to Deliver or to nothing.
LEMMA ReplayPromise ==
  ASSUME TypeOK, AInv, UnclaimedUnbound, NEW p \in Payments, NEW u \in Urls,
         Replay(p, u), UNCHANGED disk
  PROVE  [Promise!Next]_(Promise!vars) /\ UnclaimedUnbound'
<1>1. \A q \in Payments : Same(q)
  BY DEF Same
<1>2. CASE served' = served
  BY <1>1, <1>2, SameStutters
<1>3. CASE served' # served
  <2>1. served' = served \cup {<<p, u>>} /\ <<p, u>> \in served' \ served
    BY <1>3 DEF Replay
  <2>2. disk'[p].status = "settled" /\ disk'[p].url = u
    BY <2>1, ReplayServed
  <2>3. disk[p].status = "settled" /\ disk[p].url = u
    BY <2>2
  <2>4. QED
    BY <1>1, <2>1, <2>3, SameDelivers
<1>4. QED
  BY <1>2, <1>3

\* The steps of a paid request: the synced claim charges, the facilitator's reply
\* resolves, a report delivers.
LEMMA HandlerPromise ==
  ASSUME TypeOK, AInv, UnclaimedUnbound, NEW h \in Handlers, Handler(h)
  PROVE  [Promise!Next]_(Promise!vars) /\ UnclaimedUnbound'
<1> DEFINE p == job[h].payment
<1>0. h \in Workers /\ WorkerInv(h) /\ job[h] \in Job
  BY DEF AInv, Workers, TypeOK
<1>1. ASSUME UNCHANGED <<disk, served>>
      PROVE  [Promise!Next]_(Promise!vars) /\ UnclaimedUnbound'
  BY <1>1, SameStutters DEF Same
<1>2. ASSUME NEW q \in Payments, NEW u \in Urls, Request(h, q, u)
      PROVE  [Promise!Next]_(Promise!vars) /\ UnclaimedUnbound'
  BY <1>1, <1>2, ReplayPromise DEF Request, store
<1>3. CASE Claim(h)
  <2>1. p \in Payments /\ job[h].url \in Urls
    BY <1>0, <1>3 DEF Claim, WorkerInv
  <2>2. CASE disk[p].status = "absent" /\ disk' = [disk EXCEPT ![p] = TornAttempt]
             /\ UNCHANGED served
    <3>1. disk'[p] = TornAttempt /\ \A q \in Payments \ {p} : disk'[q] = disk[q]
      BY <2>1, <2>2 DEF TypeOK
    <3>2. TornAttempt.status = "torn" /\ TornAttempt.url = None
      BY DEF TornAttempt, NoAttempt
    <3>3. disk[p].url = None
      BY <2>1, <2>2 DEF UnclaimedUnbound
    <3>4. \A q \in Payments :
            /\ OutcomeOf(disk'[q].status) = OutcomeOf(disk[q].status)
            /\ disk'[q].url = disk[q].url
      BY <2>2, <3>1, <3>2, <3>3 DEF OutcomeOf
    <3>5. outcome' = outcome /\ boundTo' = boundTo
      BY <3>4 DEF outcome, boundTo
    <3>6. UnclaimedUnbound'
      BY <3>1, <3>2 DEF UnclaimedUnbound
    <3>7. QED
      BY <2>2, <3>5, <3>6 DEF Promise!vars
  <2>3. QED
    BY <1>1, <1>3, <2>1, <2>2, ReplayPromise DEF Claim
<1>4. CASE ClaimSynced(h)
  <2> DEFINE u == job[h].url
  <2>1. /\ p \in Payments /\ u \in Urls /\ disk[p].status = "torn"
        /\ Update(p, NewAttempt(u)) /\ UNCHANGED served
    BY <1>0, <1>4 DEF ClaimSynced, WorkerInv
  <2>2. disk'[p] = NewAttempt(u) /\ \A q \in Payments \ {p} : disk'[q] = disk[q]
    BY <2>1, UpdateFile
  <2>3. NewAttempt(u).status = "settling" /\ NewAttempt(u).url = u
    BY <2>1, NewAttemptEffects
  <2>4. outcome[p] = "open"
    BY <2>1 DEF outcome, OutcomeOf
  <2>5. outcome' = [outcome EXCEPT ![p] = "charged"]
    <3>1. OutcomeOf("settling") = "charged"
      BY DEF OutcomeOf
    <3>2. OutcomeOf(disk'[p].status) = "charged"
      BY <2>2, <2>3, <3>1
    <3>3. QED
      BY <2>1, <2>2, <3>2 DEF outcome
  <2>6. boundTo' = [boundTo EXCEPT ![p] = u]
    BY <2>1, <2>2, <2>3 DEF boundTo
  <2>7. Promise!Charge(p, u)
    BY <2>1, <2>4, <2>5, <2>6 DEF Promise!Charge
  <2>8. UnclaimedUnbound'
    BY <2>2, <2>3 DEF UnclaimedUnbound
  <2>9. QED
    BY <2>1, <2>7, <2>8 DEF Promise!Next
<1>5. CASE SettleReply(h)
  <2>1. /\ p \in Payments /\ mem[p].status = "settling" /\ UNCHANGED served
        /\ mem[p] \in Attempt
    BY <1>0, <1>5
    DEF SettleReply, SettleThrows, SettleRejected, SettleSucceeds, WorkerInv, TypeOK, history
  <2>2. disk[p].status = "settling" /\ disk[p].url = mem[p].url /\ AttemptInv(p, mem[p])
    BY <2>1 DEF AInv, StoreInv
  <2>3. PICK a : /\ Update(p, a) /\ a.url = mem[p].url
                 /\ a.status \in {"settled", "failed", "indeterminate"}
    <3>1. CASE SettleThrows(h)
      BY <2>1, <2>2, <3>1, AttemptEffects DEF SettleThrows
    <3>2. CASE SettleRejected(h)
      BY <2>1, <2>2, <3>2, AttemptEffects DEF SettleRejected
    <3>3. ASSUME NEW s \in Replies, SettleSucceeds(h, s)
          PROVE  \E a : /\ Update(p, a) /\ a.url = mem[p].url
                        /\ a.status \in {"settled", "failed", "indeterminate"}
      <4>1. s \in Settlement
        BY ConstantsType
      <4>2. /\ Settle(mem[p], s, None).status = "settled"
            /\ Settle(mem[p], s, None).url = mem[p].url
        BY <2>1, <2>2, <4>1, AttemptEffects
      <4>3. QED
        BY <3>3, <4>2 DEF SettleSucceeds
    <3>4. QED
      BY <1>5, <3>1, <3>2, <3>3 DEF SettleReply
  <2>4. disk'[p] = a /\ \A q \in Payments \ {p} : disk'[q] = disk[q]
    BY <2>1, <2>3, UpdateFile
  <2> DEFINE o == OutcomeOf(a.status)
  <2>5. outcome[p] = "charged" /\ o \in {"paid", "refused", "unknown"}
    BY <2>1, <2>2, <2>3 DEF outcome, OutcomeOf
  <2>6. outcome' = [outcome EXCEPT ![p] = o]
    BY <2>1, <2>4 DEF outcome
  <2>7. boundTo' = boundTo
    BY <2>2, <2>3, <2>4 DEF boundTo
  <2> HIDE DEF o
  <2>8. Promise!Resolve(p)
    BY <2>1, <2>5, <2>6, <2>7 DEF Promise!Resolve
  <2>9. UnclaimedUnbound'
    BY <2>3, <2>4 DEF UnclaimedUnbound
  <2>10. QED
    BY <2>1, <2>8, <2>9 DEF Promise!Next
<1>6. CASE Bind(h) \/ Respond(h)
  <2> DEFINE a == Settle(mem[p], job[h].settlement, job[h].receipt)
  <2>1. job[h].pc \in {"binding", "responding"} /\ Update(p, a)
    BY <1>6 DEF Bind, Respond
  <2>2. /\ p \in Payments /\ mem[p].status = "settled"
        /\ a.status = "settled" /\ a.url = mem[p].url
    BY <1>0, <2>1, SettledAgain
  <2>3. disk[p].status = "settled" /\ disk[p].url = mem[p].url /\ mem[p].url = job[h].url
    BY <1>0, <2>1, <2>2 DEF AInv, StoreInv, WorkerInv, AfterOutcome
  <2>4. disk'[p] = a /\ \A q \in Payments \ {p} : disk'[q] = disk[q]
    BY <2>1, <2>2, UpdateFile
  <2>5. \A q \in Payments : Same(q)
    BY <2>2, <2>3, <2>4 DEF Same
  <2>6. CASE Bind(h)
    BY <2>5, <2>6, SameStutters DEF Bind, history
  <2>7. CASE Respond(h)
    BY <2>2, <2>3, <2>5, <2>7, SameDelivers DEF Respond
  <2>8. QED
    BY <1>6, <2>6, <2>7
<1>7. CASE AuthorizeFails(h) \/ Anchor(h)
  BY <1>1, <1>7 DEF AuthorizeFails, Anchor, store, history
<1>8. QED
  BY <1>2, <1>3, <1>4, <1>5, <1>6, <1>7 DEF Handler

\* Everything else leaves what the files promise alone.
LEMMA NextPromise ==
  IInv /\ UnclaimedUnbound /\ [Next]_vars
    => [Promise!Next]_(Promise!vars) /\ UnclaimedUnbound'
<1> SUFFICES ASSUME IInv, UnclaimedUnbound, [Next]_vars
             PROVE  [Promise!Next]_(Promise!vars) /\ UnclaimedUnbound'
  OBVIOUS
<1>0. TypeOK /\ AInv
  BY DEF IInv, AInv
<1>1. ASSUME UNCHANGED <<disk, served>>
      PROVE  [Promise!Next]_(Promise!vars) /\ UnclaimedUnbound'
  BY <1>1, SameStutters DEF Same
<1>2. ASSUME NEW w \in Workers, Reconcile(w)
      PROVE  [Promise!Next]_(Promise!vars) /\ UnclaimedUnbound'
  <2> DEFINE p == job[w].payment
  <2>1. served' = served
    BY <1>2 DEF Reconcile, RecordUnidentified, ApplyFinality, Finalize, Challenge, Review,
                history
  <2>2. CASE UNCHANGED store
    BY <1>1, <2>1, <2>2 DEF store
  <2>3. ASSUME NEW a \in Attempt, Update(p, a), a.status = "settled", a.url = mem[p].url
        PROVE  [Promise!Next]_(Promise!vars) /\ UnclaimedUnbound'
    <3>1. job[w].pc \in AfterOutcome
      BY <1>2 DEF Reconcile, RecordUnidentified, ApplyFinality, Finalize, Challenge, Review,
                  AfterOutcome
    <3>2. p \in Payments /\ mem[p].status = "settled"
      BY <1>0, <3>1 DEF AInv, WorkerInv, AfterOutcome
    <3>3. disk[p].status = "settled" /\ disk[p].url = mem[p].url
      BY <1>0, <3>2 DEF AInv, StoreInv
    <3>4. disk'[p] = a /\ \A q \in Payments \ {p} : disk'[q] = disk[q]
      BY <1>0, <2>3, <3>2, UpdateFile
    <3>5. \A q \in Payments : Same(q)
      BY <2>3, <3>3, <3>4 DEF Same
    <3>6. QED
      BY <2>1, <3>5, SameStutters
  <2>4. QED
    BY <1>0, <1>2, <2>2, <2>3, ReconcileWrites
<1>3. ASSUME NEW w \in Workers, Worker(w)
      PROVE  [Promise!Next]_(Promise!vars) /\ UnclaimedUnbound'
  BY <1>1, <1>2, <1>3
  DEF Worker, StartReconcile, IndexerAnswers, IndexerUnavailable, WriteFails, store, history
<1>4. CASE RecordRefund
  <2> DEFINE p == cli.payment
             a == CompleteRefund(cli.copy)
  <2>1. served' = served
    BY <1>4 DEF RecordRefund, history
  <2>2. CASE ~CanCompleteRefund(cli.copy)
    BY <1>1, <1>4, <2>1, <2>2 DEF RecordRefund
  <2>3. CASE CanCompleteRefund(cli.copy)
    <3>1. /\ p \in Payments /\ cli.copy.status = "settled" /\ disk[p].status = "settled"
          /\ cli.copy.url = disk[p].url /\ AttemptInv(p, cli.copy) /\ cli.copy \in Attempt
      BY <1>0, <2>3 DEF AInv, CliInv, CanCompleteRefund, TypeOK
    <3>2. a.status = "settled" /\ a.url = disk[p].url
      BY <3>1, AttemptEffects
    <3>3. disk' = [disk EXCEPT ![p] = a]
      BY <1>4, <2>3 DEF RecordRefund
    <3>4. disk'[p] = a /\ \A q \in Payments \ {p} : disk'[q] = disk[q]
      BY <1>0, <3>1, <3>3 DEF TypeOK
    <3>5. \A q \in Payments : Same(q)
      BY <3>1, <3>2, <3>4 DEF Same
    <3>6. QED
      BY <2>1, <3>5, SameStutters
  <2>4. QED
    BY <2>2, <2>3
<1>5. CASE Operator
  BY <1>1, <1>4, <1>5 DEF Operator, ExecuteRefund, LoadForRefund, store, history
<1>6. ASSUME NEW t \in Txs, IndexerAdvances(t)
      PROVE  [Promise!Next]_(Promise!vars) /\ UnclaimedUnbound'
  BY <1>1, <1>6 DEF IndexerAdvances, store, history
<1>7. CASE Crash \/ Reset \/ UNCHANGED vars
  BY <1>1, <1>7 DEF Crash, Reset, vars, store, history
<1>8. QED
  BY <1>0, <1>3, <1>5, <1>6, <1>7, HandlerPromise DEF Next

\* The attempt files implement PaymentOnce: charged once, for one request, with an outcome
\* that does not change, whatever requests, crashes, failed writes and refunds do.
THEOREM PromiseKept == Spec => ChargedOncePromise
<1>1. Init => Promise!Init /\ UnclaimedUnbound
  BY InitPromise
<1>2. Spec => []IInv
  BY Invariance
<1>3. IInv /\ UnclaimedUnbound /\ [Next]_vars
        => [Promise!Next]_(Promise!vars) /\ UnclaimedUnbound'
  BY NextPromise
<1>4. QED
  BY <1>1, <1>2, <1>3, PTL DEF Spec, ChargedOncePromise, Promise!Spec

-------------------------------------------------------------------------------
(* Published finality *)

\* A receipt exists only for a settled payment, a live one is at least as far as its
\* durable copy, and the payment a worker is about to anchor has none.
PublishInv ==
  /\ \A p \in Payments :
       /\ disk[p].status # "settled" => registry[p] = "none" /\ proofFile[p] = "none"
       /\ registry[p] # "none" /\ proofFile[p] = "finalized" => registry[p] = "finalized"
  /\ \A w \in Workers : job[w].pc = "anchoring" =>
       registry[job[w].payment] = "none" /\ proofFile[job[w].payment] = "none"

\* What every step does to the files and the workers, as far as PublishInv sees.
Settles(p) == disk[p].status = "settled" => disk'[p].status = "settled"

\* Steps that touch no receipt and send nobody to anchor.
LEMMA PublishFrame ==
  ASSUME PublishInv, UNCHANGED receipts, \A p \in Payments : Settles(p),
         \A w \in Workers : job'[w].pc = "anchoring" => job'[w] = job[w]
  PROVE  PublishInv'
<1>1. registry' = registry /\ proofFile' = proofFile
  BY DEF receipts
<1>2. QED
  BY <1>1 DEF PublishInv, Settles

\* Files of settled attempts stay settled.
LEMMA SettledStays ==
  ASSUME IInv, UnclaimedUnbound, [Next]_vars
  PROVE  \A p \in Payments : Settles(p)
<1>1. [Promise!Next]_(Promise!vars)
  BY NextPromise
<1> SUFFICES ASSUME NEW p \in Payments, disk[p].status = "settled"
             PROVE  disk'[p].status = "settled"
  BY DEF Settles
<1>2. outcome[p] = "paid"
  BY DEF outcome, OutcomeOf
<1>3. outcome'[p] = "paid"
  <2>1. DOMAIN outcome = Payments
    BY DEF outcome
  <2>2. ASSUME NEW q \in Payments, NEW u \in Urls, Promise!Charge(q, u)
        PROVE  outcome'[p] = "paid"
    BY <1>2, <2>1, <2>2 DEF Promise!Charge
  <2>3. ASSUME NEW q \in Payments, Promise!Resolve(q)
        PROVE  outcome'[p] = "paid"
    BY <1>2, <2>1, <2>3 DEF Promise!Resolve
  <2>4. QED
    BY <1>1, <1>2, <2>2, <2>3 DEF Promise!Next, Promise!vars, Promise!Deliver
<1>4. TypeOK'
  BY NextIInv DEF IInv
<1>5. disk'[p].status \in Status
  BY <1>4 DEF TypeOK, Attempt
<1>6. outcome'[p] = OutcomeOf(disk'[p].status)
  BY DEF outcome
<1>7. QED
  BY <1>3, <1>5, <1>6 DEF OutcomeOf, Status

\* Where workers are after Goto and Done.
LEMMA MoveCases ==
  ASSUME TypeOK, NEW w \in Workers, NEW j, Moves(w, j), j.pc # "anchoring"
  PROVE  \A v \in Workers : job'[v].pc = "anchoring" => job'[v] = job[v]
BY DEF Moves, TypeOK

\* What PublishInv and the action property say of one step.
PublishStep ==
  /\ PublishInv'
  /\ \A p \in Payments : proofFile[p] = "finalized" => proofFile'[p] = "finalized"

\* Steps that write at most the copy of one live receipt, no weaker than before.
LEMMA PublishWrite ==
  ASSUME IInv, PublishInv, \A p \in Payments : Settles(p),
         \A w \in Workers : job'[w].pc = "anchoring" => job'[w] = job[w],
         NEW r \in Payments, registry[r] # "none",
         NEW s \in ReceiptStatus \ {"none"}, registry[r] = "finalized" => s = "finalized",
         registry' = [registry EXCEPT ![r] = s], PersistProof(r, s)
  PROVE  PublishStep
<1>0. TypeOK
  BY DEF IInv
<1>1. /\ proofFile'[r] \in {proofFile[r], s}
      /\ \A q \in Payments \ {r} : proofFile'[q] = proofFile[q]
  BY <1>0, PersistCases
<1>2. registry'[r] = s /\ \A q \in Payments \ {r} : registry'[q] = registry[q]
  BY <1>0 DEF TypeOK
<1>3. proofFile[r] = "finalized" => s = "finalized"
  BY DEF PublishInv
<1>4. disk[r].status = "settled"
  BY DEF PublishInv
<1>5. ASSUME NEW p \in Payments
      PROVE  /\ disk'[p].status # "settled" => registry'[p] = "none" /\ proofFile'[p] = "none"
             /\ registry'[p] # "none" /\ proofFile'[p] = "finalized" => registry'[p] = "finalized"
             /\ proofFile[p] = "finalized" => proofFile'[p] = "finalized"
  <2>1. CASE p = r
    BY <1>1, <1>2, <1>3, <1>4, <2>1 DEF Settles
  <2>2. CASE p # r
    BY <1>1, <1>2, <2>2 DEF Settles, PublishInv
  <2>3. QED
    BY <2>1, <2>2
<1>6. ASSUME NEW w \in Workers, job'[w].pc = "anchoring"
      PROVE  registry'[job'[w].payment] = "none" /\ proofFile'[job'[w].payment] = "none"
  <2>1. job'[w] = job[w]
    BY <1>6
  <2>2. /\ registry[job[w].payment] = "none" /\ proofFile[job[w].payment] = "none"
    BY <1>6, <2>1 DEF PublishInv
  <2>3. job[w].payment \in Payments \ {r}
    BY <1>6, <2>1, <2>2 DEF IInv, WorkerInv
  <2>4. QED
    BY <1>1, <1>2, <2>1, <2>2, <2>3
<1>7. QED
  BY <1>5, <1>6 DEF PublishStep, PublishInv

\* Anchoring: a receipt that is reused is republished as it is, a new one is the first of
\* its payment.
LEMMA AnchorPublishes ==
  ASSUME IInv, PublishInv, \A p \in Payments : Settles(p), NEW h \in Handlers, Anchor(h)
  PROVE  PublishStep
<1> DEFINE p == job[h].payment
<1>0. TypeOK /\ AInv /\ h \in Workers /\ WorkerInv(h) /\ job[h] \in Job
  BY DEF IInv, AInv, Workers, TypeOK
<1>1. /\ p \in Payments /\ job[h].pc = "anchoring" /\ disk' = disk
      /\ registry[p] = "none" /\ proofFile[p] = "none" /\ mem[p].status = "settled"
  BY <1>0 DEF Anchor, WorkerInv, PublishInv, AfterOutcome, store
<1>2. disk[p].status = "settled"
  BY <1>0, <1>1 DEF AInv, StoreInv
<1>3. \A w \in Workers : job'[w].pc # "anchoring"
  <2>1. ASSUME NEW w \in Workers \ {h}
        PROVE  job'[w].pc # "anchoring"
    <3>1. job'[w] = job[w]
      BY <1>0 DEF Anchor, Goto, TypeOK
    <3>2. job[w].pc \notin Held
      BY <1>0, <1>1 DEF AInv, OneThread, Held
    <3>3. QED
      BY <3>1, <3>2 DEF Held
  <2>2. job'[h].pc = "binding"
    BY <1>0 DEF Anchor, Goto, TypeOK, Job
  <2>3. QED
    BY <2>1, <2>2
<1>4. CASE UNCHANGED <<registry, proofFile>>
  BY <1>1, <1>3, <1>4 DEF PublishStep, PublishInv
<1>5. ASSUME NEW q \in SameTx(registry, p), PersistProof(q, registry[q]), UNCHANGED registry
      PROVE  PublishStep
  <2>1. q \in Payments /\ registry[q] \in ReceiptStatus \ {"none"}
    BY <1>0 DEF SameTx, TypeOK
  <2>2. registry' = [registry EXCEPT ![q] = registry[q]]
    BY <1>0, <1>5, <2>1 DEF TypeOK
  <2>3. QED
    BY <1>0, <1>3, <1>5, <2>1, <2>2, PublishWrite
<1>6. CASE registry' = Anchored(registry, p) /\ PersistProof(p, "anchored")
  <2>1. registry'[p] = "anchored" /\ \A q \in Payments \ {p} : registry'[q] = registry[q]
    BY <1>0, <1>1, <1>6 DEF Anchored, TypeOK
  <2>2. /\ proofFile'[p] \in {proofFile[p], "anchored"}
        /\ \A q \in Payments \ {p} : proofFile'[q] = proofFile[q]
    BY <1>0, <1>1, <1>6, PersistCases DEF ReceiptStatus
  <2>3. QED
    BY <1>1, <1>2, <1>3, <2>1, <2>2 DEF PublishStep, PublishInv
<1>7. QED
  BY <1>4, <1>5, <1>6 DEF Anchor

\* A copy already published as finalized is of a finalized receipt, which finalizing and
\* challenging leave finalized.
LEMMA VerdictPublishes ==
  ASSUME IInv, PublishInv, \A p \in Payments : Settles(p), NEW w \in Workers,
         Finalize(w) \/ Challenge(w)
  PROVE  PublishStep
<1> DEFINE r == job[w].receipt
<1>0. TypeOK /\ WorkerInv(w) /\ job[w] \in Job
  BY DEF IInv, TypeOK
<1>1. r \in Payments
  BY <1>0 DEF Finalize, Challenge, WorkerInv, Job
<1>2. \A v \in Workers : job'[v].pc = "anchoring" => job'[v] = job[v]
  <2>1. Done(w) \/ Goto(w, "responding") \/ Goto(w, "reviewing")
    BY DEF Finalize, Challenge, AfterReconcile
  <2>2. PICK j : Moves(w, j) /\ j.pc # "anchoring"
    <3>1. Idle.pc # "anchoring"
      BY DEF Idle
    <3>2. \A pc \in Await \cup Held : [job[w] EXCEPT !.pc = pc, !.answer = "none"].pc = pc
      BY <1>0 DEF Job
    <3>3. {"responding", "reviewing"} \subseteq Await \cup Held
      BY DEF Held
    <3>4. QED
      BY <1>0, <2>1, <3>1, <3>2, <3>3, GotoMoves
  <2>3. QED
    BY <1>0, <2>2, MoveCases
<1>3. CASE UNCHANGED <<registry, proofFile>>
  <2>1. disk' = disk
    BY DEF Finalize, Challenge, store
  <2>2. QED
    BY <1>2, <1>3, <2>1 DEF PublishStep, PublishInv
<1>4. CASE /\ CanFinalize(registry, r) /\ registry' = Finalized(registry, r)
           /\ PersistProof(r, "finalized")
  BY <1>0, <1>1, <1>2, <1>4, PublishWrite DEF CanFinalize, Finalized, ReceiptStatus
<1>5. CASE /\ CanChallenge(registry, r) /\ registry' = Challenged(registry, r)
           /\ PersistProof(r, Challenged(registry, r)[r])
  <2> DEFINE s == IF registry[r] = "finalized" THEN "finalized" ELSE "challenged"
  <2>1. /\ registry[r] # "none" /\ registry' = [registry EXCEPT ![r] = s]
        /\ Challenged(registry, r)[r] = s
    BY <1>0, <1>1, <1>5 DEF CanChallenge, Challenged, TypeOK
  <2>2. s \in ReceiptStatus \ {"none"} /\ (registry[r] = "finalized" => s = "finalized")
    BY DEF ReceiptStatus
  <2> HIDE DEF s
  <2>3. QED
    BY <1>0, <1>1, <1>2, <1>5, <2>1, <2>2, PublishWrite
<1>6. QED
  BY <1>3, <1>4, <1>5 DEF Finalize, Challenge, receipts

\* Only a reported success sends a handler to anchor; its payment has no receipt yet.
LEMMA SettlePublishes ==
  ASSUME IInv, PublishInv, \A p \in Payments : Settles(p), NEW h \in Handlers,
         NEW s \in Replies, SettleSucceeds(h, s)
  PROVE  PublishStep
<1> DEFINE p == job[h].payment
<1>0. TypeOK /\ AInv /\ h \in Workers /\ WorkerInv(h)
  BY DEF IInv, AInv, Workers
<1>1. p \in Payments /\ mem[p].status = "settling" /\ ThreadFree
  BY <1>0 DEF SettleSucceeds, WorkerInv
<1>2. registry[p] = "none" /\ proofFile[p] = "none"
  BY <1>0, <1>1 DEF AInv, StoreInv, PublishInv
<1>3. registry' = registry /\ proofFile' = proofFile
  BY DEF SettleSucceeds, receipts
<1>4. job' = [job EXCEPT ![h] = [job[h] EXCEPT !.pc = "anchoring", !.settlement = s]]
  BY DEF SettleSucceeds
<1>5. job'[h].payment = p
  BY <1>0, <1>4 DEF TypeOK, Job
<1>6. \A w \in Workers \ {h} : job'[w] = job[w]
  BY <1>0, <1>4 DEF TypeOK
<1>7. QED
  BY <1>2, <1>3, <1>5, <1>6 DEF PublishStep, PublishInv, Settles

\* A restart rebuilds the registry from the copies.
LEMMA RestartPublishes ==
  ASSUME PublishInv, Crash \/ Reset
  PROVE  PublishStep
<1>1. proofFile' = proofFile /\ disk' = disk
  BY DEF Crash, Reset, store
<1>2. ASSUME NEW S \in SUBSET Payments, registry' = Restored(proofFile, S),
             job' = [w \in Workers |-> Idle]
      PROVE  PublishStep
  <2>1. \A p \in Payments : registry'[p] = IF p \in S THEN proofFile[p] ELSE "none"
    BY <1>2 DEF Restored
  <2>2. \A w \in Workers : job'[w].pc # "anchoring"
    BY <1>2 DEF Idle
  <2>3. QED
    BY <1>1, <2>1, <2>2 DEF PublishStep, PublishInv
<1>3. CASE Reset
  <2>1. job' = job /\ ThreadFree /\ \A p \in Payments : registry'[p] = "none"
    BY <1>3 DEF Reset, NoReceipts
  <2>2. \A w \in Workers : job'[w].pc # "anchoring"
    BY <2>1 DEF ThreadFree, Held
  <2>3. QED
    BY <1>1, <2>1, <2>2 DEF PublishStep, PublishInv
<1>4. QED
  BY <1>2, <1>3 DEF Crash

\* Every other step leaves the receipts alone and sends nobody to anchor.
LEMMA NextPublishes ==
  IInv /\ UnclaimedUnbound /\ PublishInv /\ [Next]_vars => PublishStep
<1> SUFFICES ASSUME IInv, UnclaimedUnbound, PublishInv, [Next]_vars
             PROVE  PublishStep
  OBVIOUS
<1>0. TypeOK /\ \A p \in Payments : Settles(p)
  BY SettledStays DEF IInv
<1>1. ASSUME UNCHANGED receipts,
             \A v \in Workers : job'[v].pc = "anchoring" => job'[v] = job[v]
      PROVE  PublishStep
  BY <1>0, <1>1, PublishFrame DEF PublishStep, receipts
<1>2. ASSUME NEW w \in Workers, UNCHANGED receipts,
             \/ Done(w)
             \/ \E pc \in (Await \cup Held) \ {"anchoring"} : Goto(w, pc)
             \/ \E j \in Job : j.pc # "anchoring" /\ job' = [job EXCEPT ![w] = j]
      PROVE  PublishStep
  <2>1. Idle.pc # "anchoring"
    BY DEF Idle
  <2>2. \A pc \in Await \cup Held : [job[w] EXCEPT !.pc = pc, !.answer = "none"].pc = pc
    BY <1>0 DEF TypeOK, Job
  <2>3. PICK j : Moves(w, j) /\ j.pc # "anchoring"
    BY <1>0, <1>2, <2>1, <2>2, GotoMoves DEF Moves
  <2>4. QED
    BY <1>0, <1>1, <1>2, <2>3, MoveCases
<1>3. ASSUME NEW w \in Workers, AfterReconcile(w), UNCHANGED receipts
      PROVE  PublishStep
  BY <1>2, <1>3 DEF AfterReconcile, Held
<1>4. ASSUME NEW h \in Handlers, Handler(h)
      PROVE  PublishStep
  <2>0. h \in Workers /\ job[h] \in Job
    BY <1>0 DEF Workers, TypeOK
  <2>1. ASSUME NEW p \in Payments, NEW u \in Urls, Request(h, p, u)
        PROVE  PublishStep
    <3> DEFINE j == [Idle EXCEPT !.pc = "authorizing", !.asked = TRUE,
                                 !.payment = p, !.url = u]
    <3>1. UNCHANGED receipts /\ (job' = job \/ job' = [job EXCEPT ![h] = j])
      BY <2>1 DEF Request
    <3>2. j \in Job /\ j.pc # "anchoring"
      BY DEF Idle, Job, Await, Settlement
    <3>3. CASE job' = job
      BY <1>1, <3>1, <3>3
    <3>4. CASE job' = [job EXCEPT ![h] = j]
      BY <1>2, <2>0, <3>1, <3>2, <3>4
    <3>5. QED
      BY <3>1, <3>3, <3>4
  <2>2. CASE AuthorizeFails(h) \/ Claim(h) \/ ClaimSynced(h) \/ Bind(h) \/ Respond(h)
             \/ SettleThrows(h) \/ SettleRejected(h)
    <3>1. /\ UNCHANGED receipts
          /\ \/ Done(h)
             \/ Goto(h, "claiming") \/ Goto(h, "settling")
             \/ Goto(h, "unidentified") \/ Goto(h, "verifying")
      BY <2>2 DEF AuthorizeFails, Claim, ClaimSynced, Bind, Respond, SettleThrows,
                  SettleRejected
    <3>2. {"claiming", "settling", "unidentified", "verifying"}
            \subseteq (Await \cup Held) \ {"anchoring"}
      BY DEF Await, Held
    <3>3. QED
      BY <1>2, <2>0, <3>1, <3>2
  <2>3. QED
    BY <1>0, <1>4, <2>1, <2>2, AnchorPublishes, SettlePublishes DEF Handler, SettleReply
<1>5. ASSUME NEW w \in Workers, Worker(w)
      PROVE  PublishStep
  <2>0. job[w] \in Job /\ WorkerInv(w)
    BY <1>0 DEF TypeOK, IInv
  <2>1. ASSUME NEW p \in Payments, StartReconcile(w, p)
        PROVE  PublishStep
    <3> DEFINE pc == IF mem[p].settlement = "partial" THEN "unidentified" ELSE "verifying"
               j == [Idle EXCEPT !.pc = pc, !.payment = p,
                       !.settlement = mem[p].settlement, !.receipt = mem[p].receipt]
    <3>1. UNCHANGED receipts /\ job' = [job EXCEPT ![w] = j]
      BY <2>1 DEF StartReconcile
    <3>2. mem[p].settlement \in Settlement /\ mem[p].receipt \in Payments \cup {None}
      BY <1>0 DEF TypeOK, Attempt
    <3>3. j \in Job /\ j.pc # "anchoring"
      BY <3>2 DEF Idle, Job, Held, Await
    <3>4. QED
      BY <1>2, <3>1, <3>3
  <2>2. ASSUME IndexerAnswers(w) \/ IndexerUnavailable(w)
        PROVE  PublishStep
    <3>1. /\ UNCHANGED receipts /\ \A v \in Workers \ {w} : job'[v] = job[v]
          /\ job'[w].pc = "answered"
      BY <1>0, <2>0, <2>2 DEF IndexerAnswers, IndexerUnavailable, TypeOK, Job
    <3>2. QED
      BY <1>1, <3>1
  <2>3. CASE RecordUnidentified(w) \/ ApplyFinality(w) \/ Review(w) \/ WriteFails(w)
    <3>1. /\ UNCHANGED receipts
          /\ \/ Done(w) \/ AfterReconcile(w)
             \/ Goto(w, "challenging") \/ Goto(w, "reviewing") \/ Goto(w, "finalizing")
      BY <2>3 DEF RecordUnidentified, ApplyFinality, Review, WriteFails
    <3>2. {"challenging", "reviewing", "finalizing"}
            \subseteq (Await \cup Held) \ {"anchoring"}
      BY DEF Await, Held
    <3>3. QED
      BY <1>2, <1>3, <3>1, <3>2
  <2>4. QED
    BY <1>0, <1>5, <2>1, <2>2, <2>3, VerdictPublishes DEF Worker, Reconcile
<1>6. CASE (\E t \in Txs : IndexerAdvances(t)) \/ Operator \/ UNCHANGED vars
  <2>1. UNCHANGED receipts /\ job' = job
    BY <1>6 DEF IndexerAdvances, Operator, ExecuteRefund, LoadForRefund, RecordRefund,
                vars, receipts
  <2>2. QED
    BY <1>1, <2>1
<1>7. QED
  BY <1>4, <1>5, <1>6, RestartPublishes DEF Next

\* A copy published as finalized is never rewritten to a weaker state: a receipt that is
\* reused after a restart is at least as far as its copy, one lost in a reset is never
\* written again (persistExternalReceiptProof, anchor, finalize, challenge).
THEOREM PublishedStays == Spec => PublishedFinalityStays
<1>1. Init => UnclaimedUnbound /\ PublishInv
  <2> SUFFICES ASSUME Init
               PROVE  UnclaimedUnbound /\ PublishInv
    OBVIOUS
  <2>1. /\ \A p \in Payments : registry[p] = "none" /\ proofFile[p] = "none"
        /\ \A w \in Workers : job[w].pc # "anchoring"
    BY DEF Init, NoReceipts, Idle
  <2>2. QED
    BY <2>1, InitPromise DEF PublishInv
<1>2. Spec => []IInv
  BY Invariance
<1>3. IInv /\ UnclaimedUnbound /\ PublishInv /\ [Next]_vars
        => /\ UnclaimedUnbound' /\ PublishInv'
           /\ [\A p \in Payments :
                 proofFile[p] = "finalized" => proofFile'[p] = "finalized"]_vars
  BY NextPromise, NextPublishes DEF PublishStep
<1>4. QED
  BY <1>1, <1>2, <1>3, PTL DEF Spec, PublishedFinalityStays


-------------------------------------------------------------------------------
(* Recorded checks are acted on *)

\* What a handler past the outcome and an attempt say of each other, as long as nothing
\* failed: a handler whose reconciliation has begun works on the receipt its attempt
\* names; until then nobody else does and no check has been recorded.
JobFollows(w) ==
  LET j == job[w] p == job[w].payment IN
  /\ j.receipt # None => registry[j.receipt] # "none"
  /\ j.pc \in {"settling", "anchoring", "binding"} => mem[p].finality = "open"
  /\ j.pc \in {"anchoring", "binding"} =>
       \A v \in Workers : job[v].pc \in AfterOutcome /\ job[v].payment = p => v = w
  /\ j.pc \in AfterOutcome \ {"anchoring", "binding"} => j.receipt = mem[p].receipt

Finalizing(p) == \E w \in Workers : job[w].pc = "finalizing" /\ job[w].payment = p
Disputing(p) ==
  \E w \in Workers : job[w].pc \in {"challenging", "reviewing"} /\ job[w].payment = p

\* What a recorded check asks for has been done, or its handler is about to do it.
CheckFollowed(p) ==
  LET a == mem[p] IN
  /\ a.receipt # None => registry[a.receipt] # "none"
  /\ a.finality = "confirmed" /\ a.receipt # None /\ ~Finalizing(p)
       => registry[a.receipt] \in {"finalized", "challenged"}
  /\ a.finality = "mismatch" /\ ~Disputing(p)
       => a.refund \in {"review_required", "completed"}

Follows ==
  /\ \A w \in Workers : JobFollows(w)
  /\ \A p \in Payments : CheckFollowed(p)

ChecksInv == faults = 0 => Follows

\* Receipts stay known, and stay finalized or challenged.
ReceiptsGrow ==
  \A r \in Payments :
    /\ registry[r] # "none" => registry'[r] # "none"
    /\ registry[r] \in {"finalized", "challenged"} =>
         registry'[r] \in {"finalized", "challenged"}

\* What a busy handler and its attempt are.
LEMMA FollowFacts ==
  ASSUME IInv, NEW w \in Workers
  PROVE  /\ job[w] \in Job /\ WorkerInv(w)
         /\ job[w].receipt \in Payments \cup {None}
         /\ job[w].pc # "idle" =>
              /\ job[w].payment \in Payments
              /\ mem[job[w].payment] \in Attempt
              /\ mem[job[w].payment].receipt \in Payments \cup {None}
<1>1. job[w] \in Job /\ WorkerInv(w)
  BY DEF IInv, TypeOK
<1>2. job[w].receipt \in Payments \cup {None}
  BY <1>1 DEF Job
<1>3. job[w].pc # "idle" => job[w].payment \in Payments
  BY <1>1 DEF WorkerInv
<1>4. \A p \in Payments : mem[p] \in Attempt /\ mem[p].receipt \in Payments \cup {None}
  BY DEF IInv, TypeOK, Attempt
<1>5. QED
  BY <1>1, <1>2, <1>3, <1>4

\* A handler that does not move, when another does.
LEMMA OthersFollow ==
  ASSUME IInv, Follows, NEW w \in Workers, NEW j, Moves(w, j), ReceiptsGrow,
         NEW v \in Workers \ {w},
         job[v].pc \in {"settling", "anchoring", "binding"} =>
           mem'[job[v].payment].finality = mem[job[v].payment].finality,
         job[v].pc \in AfterOutcome =>
           mem'[job[v].payment].receipt = mem[job[v].payment].receipt,
         j.pc \in AfterOutcome =>
           ThreadFree \/ (job[w].pc \in AfterOutcome /\ j.payment = job[w].payment)
  PROVE  JobFollows(v)'
<1>1. job'[w] = j /\ \A u \in Workers \ {w} : job'[u] = job[u]
  BY DEF Moves, IInv, TypeOK
<1>2. job'[v] = job[v] /\ JobFollows(v)
  BY <1>1 DEF Follows
<1>3. job[v].receipt \in Payments \cup {None}
  BY FollowFacts
<1>4. job[v].receipt # None => registry'[job[v].receipt] # "none"
  BY <1>2, <1>3 DEF JobFollows, ReceiptsGrow
<1>5. job[v].pc \in {"settling", "anchoring", "binding"} =>
        mem'[job[v].payment].finality = "open"
  BY <1>2 DEF JobFollows
<1>6. ASSUME job[v].pc \in {"anchoring", "binding"}, NEW u \in Workers,
             job'[u].pc \in AfterOutcome, job'[u].payment = job[v].payment
      PROVE  u = v
  <2>1. CASE u = w
    <3>1. ~ThreadFree
      BY <1>6 DEF ThreadFree, Held
    <3>2. job[w].pc \in AfterOutcome /\ job[w].payment = job[v].payment
      BY <1>1, <1>6, <2>1, <3>1
    <3>3. QED
      BY <1>2, <1>6, <2>1, <3>2 DEF JobFollows
  <2>2. CASE u # w
    BY <1>1, <1>2, <1>6, <2>2 DEF JobFollows
  <2>3. QED
    BY <2>1, <2>2
<1>7. job[v].pc \in AfterOutcome \ {"anchoring", "binding"} =>
        job[v].receipt = mem'[job[v].payment].receipt
  BY <1>2 DEF JobFollows
<1>8. QED
  BY <1>2, <1>4, <1>5, <1>6, <1>7 DEF JobFollows

\* An attempt that is not written, and whose handler does not leave it unfinished.
LEMMA CheckStays ==
  ASSUME IInv, Follows, NEW w \in Workers, NEW j, Moves(w, j), ReceiptsGrow,
         NEW q \in Payments, mem'[q] = mem[q],
         job[w].payment = q => job[w].pc # "finalizing",
         job[w].payment = q /\ job[w].pc \in {"challenging", "reviewing"} =>
           j.pc \in {"challenging", "reviewing"} /\ j.payment = q
  PROVE  CheckFollowed(q)'
<1>1. job'[w] = j /\ \A u \in Workers \ {w} : job'[u] = job[u]
  BY DEF Moves, IInv, TypeOK
<1>2. CheckFollowed(q) /\ mem[q].receipt \in Payments \cup {None}
  BY DEF Follows, IInv, TypeOK, Attempt
<1>3. Finalizing(q) => Finalizing(q)'
  BY <1>1 DEF Finalizing
<1>4. Disputing(q) => Disputing(q)'
  BY <1>1 DEF Disputing
<1>5. QED
  BY <1>2, <1>3, <1>4 DEF CheckFollowed, ReceiptsGrow

\* A step that writes no attempt.
LEMMA QuietFollows ==
  ASSUME IInv, Follows, NEW w \in Workers, NEW j, Moves(w, j), ReceiptsGrow,
         UNCHANGED mem, JobFollows(w)',
         j.pc \in AfterOutcome =>
           ThreadFree \/ (job[w].pc \in AfterOutcome /\ j.payment = job[w].payment),
         job[w].pc # "finalizing",
         job[w].pc \in {"challenging", "reviewing"} =>
           j.pc \in {"challenging", "reviewing"} /\ j.payment = job[w].payment
  PROVE  Follows'
<1>1. ASSUME NEW v \in Workers
      PROVE  JobFollows(v)'
  <2>1. CASE v = w
    BY <2>1
  <2>2. CASE v # w
    BY <2>2, OthersFollow
  <2>3. QED
    BY <2>1, <2>2
<1>2. \A q \in Payments : CheckFollowed(q)'
  BY CheckStays
<1>3. QED
  BY <1>1, <1>2 DEF Follows

\* A step that writes the handler's own attempt.
LEMMA WrittenFollows ==
  ASSUME IInv, Follows, NEW w \in Workers, NEW j, Moves(w, j), ReceiptsGrow,
         NEW p \in Payments, p = job[w].payment, NEW a \in Attempt, Update(p, a),
         JobFollows(w)', CheckFollowed(p)',
         j.pc \in AfterOutcome =>
           ThreadFree \/ (job[w].pc \in AfterOutcome /\ j.payment = p),
         \A v \in Workers \ {w} :
           job[v].pc \in AfterOutcome \cup {"settling"} /\ job[v].payment = p =>
             /\ a.receipt = mem[p].receipt
             /\ \/ a.finality = mem[p].finality
                \/ job[v].pc \notin {"settling", "anchoring", "binding"}
  PROVE  Follows'
<1>1. mem'[p] = a /\ \A q \in Payments \ {p} : mem'[q] = mem[q]
  BY DEF Update, IInv, TypeOK
<1>2. ASSUME NEW v \in Workers
      PROVE  JobFollows(v)'
  <2>1. CASE v = w
    BY <2>1
  <2>2. CASE v # w
    <3>1. job[v].pc \in AfterOutcome \cup {"settling"} => job[v].payment \in Payments
      BY FollowFacts DEF AfterOutcome
    <3>2. job[v].pc \in {"settling", "anchoring", "binding"} =>
            mem'[job[v].payment].finality = mem[job[v].payment].finality
      BY <1>1, <2>2, <3>1 DEF AfterOutcome
    <3>3. job[v].pc \in AfterOutcome =>
            mem'[job[v].payment].receipt = mem[job[v].payment].receipt
      BY <1>1, <2>2, <3>1
    <3>4. QED
      BY <2>2, <3>2, <3>3, OthersFollow
  <2>3. QED
    BY <2>1, <2>2
<1>3. ASSUME NEW q \in Payments
      PROVE  CheckFollowed(q)'
  <2>1. CASE q = p
    BY <2>1
  <2>2. CASE q # p
    BY <1>1, <2>2, CheckStays
  <2>3. QED
    BY <2>1, <2>2
<1>4. QED
  BY <1>2, <1>3 DEF Follows

\* What the record operations say of receipt, finality and refund.
LEMMA FieldEffects ==
  ASSUME NEW a \in Attempt
  PROVE  /\ \A s \in Settlement, r \in Payments \cup {None} :
              /\ Settle(a, s, r).receipt = r /\ Settle(a, s, r).finality = a.finality
              /\ a.refund \in {"review_required", "completed"} =>
                   Settle(a, s, r).refund = a.refund
         /\ MarkIndeterminate(a).receipt = a.receipt
         /\ MarkIndeterminate(a).finality = a.finality
         /\ MarkFailed(a).receipt = a.receipt /\ MarkFailed(a).finality = a.finality
         /\ RequireRefundReview(a).receipt = a.receipt
         /\ RequireRefundReview(a).finality = a.finality
         /\ RequireRefundReview(a).refund = "review_required"
         /\ \A c \in Check :
              /\ RecordFinality(a, c).receipt = a.receipt
              /\ RecordFinality(a, c).refund = a.refund
              /\ RecordFinality(a, c).finality = IF c \in Finality THEN c ELSE "open"
BY DEF Settle, MarkIndeterminate, MarkFailed, RequireRefundReview, RecordFinality, Attempt

\* Where a worker goes.
LEMMA NextJobs ==
  ASSUME IInv, NEW w \in Workers
  PROVE  /\ Done(w) => Moves(w, Idle)
         /\ \A pc \in Await \cup Held : Goto(w, pc) =>
              \E j : /\ Moves(w, j) /\ j.pc = pc /\ j.payment = job[w].payment
                     /\ j.receipt = job[w].receipt
         /\ AfterReconcile(w) => \E j :
              /\ Moves(w, j)
              /\ \/ j = Idle
                 \/ /\ j.pc = "responding" /\ j.payment = job[w].payment
                    /\ j.receipt = job[w].receipt
<1>1. TypeOK /\ job[w] \in Job
  BY DEF IInv, TypeOK
<1>2. Done(w) => Moves(w, Idle)
  BY <1>1, GotoMoves
<1>3. ASSUME NEW pc \in Await \cup Held, Goto(w, pc)
      PROVE  \E j : /\ Moves(w, j) /\ j.pc = pc /\ j.payment = job[w].payment
                    /\ j.receipt = job[w].receipt
  <2> DEFINE j == [job[w] EXCEPT !.pc = pc, !.answer = "none"]
  <2>1. Moves(w, j)
    BY <1>1, <1>3, GotoMoves
  <2>2. j.pc = pc /\ j.payment = job[w].payment /\ j.receipt = job[w].receipt
    BY <1>1 DEF Job
  <2>3. QED
    BY <2>1, <2>2
<1>4. AfterReconcile(w) => \E j :
        /\ Moves(w, j)
        /\ \/ j = Idle
           \/ /\ j.pc = "responding" /\ j.payment = job[w].payment
              /\ j.receipt = job[w].receipt
  BY <1>2, <1>3 DEF AfterReconcile, Held
<1>5. QED
  BY <1>2, <1>3, <1>4

\* The handler that moves, ended or short of an outcome.
LEMMA IdleFollows ==
  ASSUME IInv, NEW w \in Workers, Moves(w, Idle)
  PROVE  JobFollows(w)'
<1>1. job'[w] = Idle
  BY DEF Moves, IInv, TypeOK
<1>2. QED
  BY <1>1 DEF JobFollows, Idle, AfterOutcome

\* A report is owed by a request, the rest has yet to be claimed.
LEMMA RequestFollows ==
  ASSUME IInv, Follows, NEW h \in Handlers,
         \/ \E p \in Payments, u \in Urls : Request(h, p, u)
         \/ AuthorizeFails(h)
         \/ Claim(h)
  PROVE  Follows'
<1>0. h \in Workers
  BY DEF Workers
<1>1. registry' = registry /\ mem' = mem
  BY DEF Request, AuthorizeFails, Claim, store, receipts
<1>2. ReceiptsGrow
  BY <1>1 DEF ReceiptsGrow
<1>3. CASE Done(h) /\ job[h].pc = "authorizing"
  <2>1. Moves(h, Idle) /\ JobFollows(h)'
    BY <1>0, <1>3, NextJobs, IdleFollows
  <2>2. QED
    BY <1>0, <1>1, <1>2, <1>3, <2>1, QuietFollows DEF Idle, AfterOutcome
<1>4. CASE Goto(h, "claiming") /\ job[h].pc = "authorizing"
  <2>1. PICK j : Moves(h, j) /\ j.pc = "claiming" /\ j.receipt = job[h].receipt
    BY <1>0, <1>4, NextJobs DEF Held
  <2>2. job'[h] = j
    BY <1>0, <2>1 DEF Moves, IInv, TypeOK
  <2>3. JobFollows(h)'
    BY <1>0, <1>1, <2>1, <2>2 DEF Follows, JobFollows, AfterOutcome
  <2>4. QED
    BY <1>0, <1>1, <1>2, <1>4, <2>1, <2>3, QuietFollows DEF AfterOutcome
<1>5. ASSUME NEW p \in Payments, NEW u \in Urls, Request(h, p, u)
      PROVE  Follows'
  <2>1. CASE UNCHANGED job
    <3>1. \A w \in Workers : JobFollows(w)'
      BY <1>1, <2>1 DEF Follows, JobFollows
    <3>2. \A q \in Payments : CheckFollowed(q)'
      BY <1>1, <2>1 DEF Follows, CheckFollowed, Finalizing, Disputing
    <3>3. QED
      BY <3>1, <3>2 DEF Follows
  <2>2. CASE job' = [job EXCEPT ![h] = [Idle EXCEPT !.pc = "authorizing",
                       !.asked = TRUE, !.payment = p, !.url = u]]
    <3> DEFINE j == [Idle EXCEPT !.pc = "authorizing", !.asked = TRUE,
                                 !.payment = p, !.url = u]
    <3>1. Moves(h, j)
      BY <2>2 DEF Moves, Idle, Job, Await, Settlement
    <3>2. j.pc = "authorizing" /\ j.receipt = None
      BY DEF Idle
    <3>3. job'[h] = j
      BY <1>0, <3>1 DEF Moves, IInv, TypeOK
    <3> HIDE DEF j
    <3>4. JobFollows(h)'
      BY <3>2, <3>3 DEF JobFollows, AfterOutcome
    <3>5. job[h].pc = "idle"
      BY <1>5 DEF Request
    <3>6. QED
      BY <1>0, <1>1, <1>2, <3>1, <3>2, <3>4, <3>5, QuietFollows DEF AfterOutcome
  <2>3. QED
    BY <1>5, <2>1, <2>2 DEF Request
<1>6. CASE AuthorizeFails(h)
  BY <1>3, <1>6 DEF AuthorizeFails
<1>7. CASE Claim(h)
  BY <1>3, <1>4, <1>7 DEF Claim
<1>8. QED
  BY <1>5, <1>6, <1>7

\* Nobody else works on a payment that is being claimed or settled.
LEMMA SettlingAlone ==
  ASSUME IInv, NEW h \in Workers, job[h].pc \in {"claiming", "settling"},
         NEW v \in Workers \ {h}, job[v].pc \in AfterOutcome \cup {"settling"}
  PROVE  job[v].payment # job[h].payment
<1>1. WorkerInv(h) /\ WorkerInv(v) /\ job[h].payment \in Payments
  BY FollowFacts
<1>2. job[v].pc = "settling" => mem[job[v].payment].status = "settling"
  BY <1>1 DEF WorkerInv
<1>3. job[v].pc \in AfterOutcome => mem[job[v].payment].status = "settled"
  BY <1>1 DEF WorkerInv, AfterOutcome
<1>4. CASE job[h].pc = "claiming"
  <2>1. disk[job[h].payment].status = "torn" /\ StoreInv(job[h].payment)
    BY <1>1, <1>4 DEF WorkerInv, IInv
  <2>2. mem[job[h].payment].status = "absent"
    BY <2>1 DEF StoreInv
  <2>3. QED
    BY <1>2, <1>3, <2>2
<1>5. CASE job[h].pc = "settling"
  <2>1. mem[job[h].payment].status = "settling"
    BY <1>1, <1>5 DEF WorkerInv
  <2>2. QED
    BY <1>2, <1>3, <1>5, <2>1 DEF IInv, OneSettler
<1>6. QED
  BY <1>4, <1>5

\* A fresh claim has no receipt and no check.
LEMMA ClaimSyncedFollows ==
  ASSUME IInv, Follows, NEW h \in Handlers, ClaimSynced(h)
  PROVE  Follows'
<1>0. h \in Workers /\ job[h].pc = "claiming"
  BY DEF Workers, ClaimSynced
<1>1. PICK p \in Payments : p = job[h].payment
  BY <1>0, FollowFacts
<1>2. PICK a \in Attempt : a = NewAttempt(job[h].url)
  BY <1>0, NewAttemptTypes DEF IInv, WorkerInv
<1>3. Update(p, a) /\ Goto(h, "settling") /\ registry' = registry
  BY <1>1, <1>2 DEF ClaimSynced, receipts
<1>4. a.receipt = None /\ a.finality = "open"
  BY <1>2 DEF NewAttempt, NoAttempt
<1>5. PICK j : /\ Moves(h, j) /\ j.pc = "settling" /\ j.payment = p
               /\ j.receipt = job[h].receipt
  BY <1>0, <1>1, <1>3, NextJobs DEF Await
<1>6. job'[h] = j /\ mem'[p] = a
  BY <1>0, <1>3, <1>5 DEF Moves, Update, IInv, TypeOK
<1>7. JobFollows(h)'
  BY <1>0, <1>3, <1>4, <1>5, <1>6 DEF Follows, JobFollows, AfterOutcome
<1>8. CheckFollowed(p)'
  BY <1>4, <1>6 DEF CheckFollowed
<1>9. ReceiptsGrow
  BY <1>3 DEF ReceiptsGrow
<1>10. QED
  BY <1>0, <1>1, <1>3, <1>5, <1>7, <1>8, <1>9, SettlingAlone, WrittenFollows
  DEF AfterOutcome

\* An outcome is recorded without a receipt and before any check.
LEMMA SettleReplyFollows ==
  ASSUME IInv, Follows, NEW h \in Handlers, SettleReply(h)
  PROVE  Follows'
<1>0. h \in Workers /\ job[h].pc = "settling" /\ ThreadFree /\ registry' = registry
  BY DEF Workers, SettleReply, SettleThrows, SettleRejected, SettleSucceeds, receipts
<1>1. PICK p \in Payments : p = job[h].payment
  BY <1>0, FollowFacts
<1>2. mem[p] \in Attempt /\ job[h] \in Job
  BY <1>0 DEF IInv, TypeOK
<1>3. /\ mem[p].finality = "open"
      /\ job[h].receipt # None => registry[job[h].receipt] # "none"
      /\ mem[p].receipt # None => registry[mem[p].receipt] # "none"
  BY <1>0, <1>1 DEF Follows, JobFollows, CheckFollowed
<1>4. ReceiptsGrow
  BY <1>0 DEF ReceiptsGrow
<1>5. ASSUME NEW a \in Attempt, Update(p, a), a.finality = "open",
             a.receipt \in {None, mem[p].receipt}, NEW j, Moves(h, j),
             \/ j = Idle
             \/ j.pc = "anchoring" /\ j.payment = p /\ j.receipt = job[h].receipt
      PROVE  Follows'
  <2>1. job'[h] = j /\ (\A v \in Workers \ {h} : job'[v] = job[v]) /\ mem'[p] = a
    BY <1>0, <1>5 DEF Moves, Update, IInv, TypeOK
  <2>2. JobFollows(h)'
    <3>1. CASE j = Idle
      BY <1>0, <1>5, <3>1, IdleFollows
    <3>2. CASE j.pc = "anchoring" /\ j.payment = p /\ j.receipt = job[h].receipt
      <4>1. ASSUME NEW v \in Workers, job'[v].pc \in AfterOutcome, job'[v].payment = p
            PROVE  v = h
        BY <1>0, <1>1, <2>1, <4>1, SettlingAlone
      <4>2. QED
        BY <1>0, <1>3, <1>5, <2>1, <3>2, <4>1 DEF JobFollows
    <3>3. QED
      BY <1>5, <3>1, <3>2
  <2>3. CheckFollowed(p)'
    BY <1>0, <1>3, <1>5, <2>1 DEF CheckFollowed
  <2>4. \A v \in Workers \ {h} :
          job[v].pc \in AfterOutcome \cup {"settling"} => job[v].payment # p
    BY <1>0, <1>1, SettlingAlone
  <2>5. QED
    BY <1>0, <1>1, <1>4, <1>5, <2>2, <2>3, <2>4, WrittenFollows
<1>6. CASE SettleThrows(h)
  <2>1. Update(p, MarkIndeterminate(mem[p])) /\ Moves(h, Idle)
    BY <1>0, <1>1, <1>6, NextJobs DEF SettleThrows
  <2>2. MarkIndeterminate(mem[p]) \in Attempt
    BY <1>2, AttemptTypes
  <2>3. QED
    BY <1>2, <1>3, <1>5, <2>1, <2>2, FieldEffects
<1>7. CASE SettleRejected(h)
  <2>1. Update(p, MarkFailed(mem[p])) /\ Moves(h, Idle)
    BY <1>0, <1>1, <1>7, NextJobs DEF SettleRejected
  <2>2. MarkFailed(mem[p]) \in Attempt
    BY <1>2, AttemptTypes
  <2>3. QED
    BY <1>2, <1>3, <1>5, <2>1, <2>2, FieldEffects
<1>8. ASSUME NEW s \in Replies, SettleSucceeds(h, s)
      PROVE  Follows'
  <2> DEFINE j == [job[h] EXCEPT !.pc = "anchoring", !.settlement = s]
  <2>1. s \in Settlement
    BY ConstantsType
  <2>2. Update(p, Settle(mem[p], s, None)) /\ job' = [job EXCEPT ![h] = j]
    BY <1>1, <1>8 DEF SettleSucceeds
  <2>3. /\ j \in Job /\ j.pc = "anchoring" /\ j.payment = p
        /\ j.receipt = job[h].receipt
    BY <1>1, <1>2, <2>1 DEF Job, Held
  <2>4. Moves(h, j)
    BY <2>2, <2>3 DEF Moves
  <2>5. Settle(mem[p], s, None) \in Attempt
    BY <1>2, <2>1, AttemptTypes
  <2>6. Settle(mem[p], s, None).receipt = None /\ Settle(mem[p], s, None).finality = "open"
    BY <1>2, <1>3, <2>1, FieldEffects
  <2> HIDE DEF j
  <2>7. QED
    BY <1>5, <2>2, <2>3, <2>4, <2>5, <2>6
<1>9. QED
  BY <1>6, <1>7, <1>8 DEF SettleReply

\* What is anchored is known to the registry.
LEMMA AnchorFollows ==
  ASSUME IInv, Follows, NEW h \in Handlers, Anchor(h)
  PROVE  Follows'
<1>0. h \in Workers /\ job[h].pc = "anchoring" /\ mem' = mem
  BY DEF Workers, Anchor, store
<1>1. PICK p \in Payments : p = job[h].payment
  BY <1>0, FollowFacts
<1>2. job[h] \in Job /\ JobFollows(h) /\ registry \in [Payments -> ReceiptStatus]
  BY <1>0 DEF IInv, TypeOK, Follows
<1>3. ASSUME NEW j, Moves(h, j), j.pc = "binding", j.payment = p, ReceiptsGrow,
             j.receipt # None => registry'[j.receipt] # "none"
      PROVE  Follows'
  <2>1. job'[h] = j /\ \A v \in Workers \ {h} : job'[v] = job[v]
    BY <1>0, <1>3 DEF Moves, IInv, TypeOK
  <2>2. mem'[p].finality = "open"
    BY <1>0, <1>1, <1>2 DEF JobFollows
  <2>3. ASSUME NEW v \in Workers, job'[v].pc \in AfterOutcome, job'[v].payment = p
        PROVE  v = h
    BY <1>0, <1>1, <1>2, <2>1, <2>3 DEF JobFollows
  <2>4. JobFollows(h)'
    BY <1>3, <2>1, <2>2, <2>3 DEF JobFollows
  <2>5. QED
    BY <1>0, <1>1, <1>3, <2>4, QuietFollows DEF AfterOutcome
<1>4. CASE Goto(h, "binding") /\ UNCHANGED registry
  <2>1. PICK j : /\ Moves(h, j) /\ j.pc = "binding" /\ j.payment = p
                 /\ j.receipt = job[h].receipt
    BY <1>0, <1>1, <1>4, NextJobs DEF Held
  <2>2. ReceiptsGrow /\ (j.receipt # None => registry'[j.receipt] # "none")
    BY <1>2, <1>4, <2>1 DEF JobFollows, ReceiptsGrow
  <2>3. QED
    BY <1>3, <2>1, <2>2
<1>5. ASSUME NEW q \in Payments,
             job' = [job EXCEPT ![h].pc = "binding", ![h].receipt = q],
             registry'[q] # "none", ReceiptsGrow
      PROVE  Follows'
  <2> DEFINE j == [job[h] EXCEPT !.pc = "binding", !.receipt = q]
  <2>1. job' = [job EXCEPT ![h] = j]
    BY <1>5
  <2>2. j \in Job /\ j.pc = "binding" /\ j.payment = p /\ j.receipt = q
    BY <1>1, <1>2 DEF Job, Held
  <2>3. Moves(h, j)
    BY <2>1, <2>2 DEF Moves
  <2> HIDE DEF j
  <2>4. QED
    BY <1>3, <1>5, <2>2, <2>3
<1>6. ASSUME NEW q \in SameTx(registry, p), UNCHANGED registry,
             job' = [job EXCEPT ![h].pc = "binding", ![h].receipt = q]
      PROVE  Follows'
  <2>1. q \in Payments /\ registry'[q] # "none" /\ ReceiptsGrow
    BY <1>6 DEF SameTx, ReceiptsGrow
  <2>2. QED
    BY <1>5, <1>6, <2>1
<1>7. CASE /\ SameTx(registry, p) = {}
           /\ registry' = Anchored(registry, p)
           /\ job' = [job EXCEPT ![h].pc = "binding", ![h].receipt = p]
  <2>1. registry'[p] = "anchored" /\ \A q \in Payments \ {p} : registry'[q] = registry[q]
    BY <1>2, <1>7 DEF Anchored
  <2>2. registry[p] = "none"
    BY <1>7 DEF SameTx
  <2>3. ReceiptsGrow
    BY <2>1, <2>2 DEF ReceiptsGrow
  <2>4. QED
    BY <1>5, <1>7, <2>1, <2>3
<1>8. QED
  BY <1>1, <1>4, <1>6, <1>7 DEF Anchor

\* The receipt is bound while no one else works on the payment.
LEMMA BindFollows ==
  ASSUME IInv, Follows, NEW h \in Handlers, Bind(h)
  PROVE  Follows'
<1>0. h \in Workers /\ job[h].pc = "binding" /\ registry' = registry
  BY DEF Workers, Bind, receipts
<1>1. PICK p \in Payments : p = job[h].payment
  BY <1>0, FollowFacts
<1>2. mem[p] \in Attempt /\ job[h] \in Job /\ JobFollows(h) /\ WorkerInv(h)
  BY <1>0 DEF IInv, TypeOK, Follows
<1>3. PICK a \in Attempt : a = Settle(mem[p], job[h].settlement, job[h].receipt)
  BY <1>2, AttemptTypes DEF Job
<1>4. a.receipt = job[h].receipt /\ a.finality = "open"
  BY <1>0, <1>1, <1>2, <1>3, FieldEffects DEF Job, JobFollows
<1>5. Update(p, a) /\ \E pc \in {"unidentified", "verifying"} : Goto(h, pc)
  BY <1>1, <1>3 DEF Bind
<1>6. PICK j : /\ Moves(h, j) /\ j.pc \in {"unidentified", "verifying"}
               /\ j.payment = p /\ j.receipt = job[h].receipt
  BY <1>0, <1>1, <1>5, NextJobs DEF Await, Held
<1>7. job'[h] = j /\ mem'[p] = a
  BY <1>0, <1>5, <1>6 DEF Moves, Update, IInv, TypeOK
<1>8. JobFollows(h)'
  BY <1>0, <1>2, <1>4, <1>6, <1>7 DEF JobFollows, AfterOutcome
<1>9. CheckFollowed(p)'
  BY <1>0, <1>2, <1>4, <1>7 DEF JobFollows, CheckFollowed
<1>10. ReceiptsGrow
  BY <1>0 DEF ReceiptsGrow
<1>11. ASSUME NEW v \in Workers \ {h}, job[v].pc \in AfterOutcome \cup {"settling"}
       PROVE  job[v].payment # p
  <2>1. CASE job[v].pc = "settling"
    <3>1. mem[job[v].payment].status = "settling"
      BY <2>1, FollowFacts DEF WorkerInv
    <3>2. mem[p].status = "settled"
      BY <1>0, <1>1, <1>2 DEF WorkerInv, AfterOutcome
    <3>3. QED
      BY <3>1, <3>2
  <2>2. CASE job[v].pc \in AfterOutcome
    BY <1>0, <1>1, <1>2, <2>2 DEF JobFollows
  <2>3. QED
    BY <1>11, <2>1, <2>2
<1>12. QED
  BY <1>0, <1>1, <1>5, <1>6, <1>8, <1>9, <1>10, <1>11, WrittenFollows DEF AfterOutcome

\* The final report is stored with the receipt the attempt has.
LEMMA RespondFollows ==
  ASSUME IInv, Follows, NEW h \in Handlers, Respond(h)
  PROVE  Follows'
<1>0. h \in Workers /\ job[h].pc = "responding" /\ registry' = registry
  BY DEF Workers, Respond, receipts
<1>1. PICK p \in Payments : p = job[h].payment
  BY <1>0, FollowFacts
<1>2. mem[p] \in Attempt /\ job[h] \in Job /\ JobFollows(h) /\ CheckFollowed(p)
  BY <1>0 DEF IInv, TypeOK, Follows
<1>3. PICK a \in Attempt : a = Settle(mem[p], job[h].settlement, job[h].receipt)
  BY <1>2, AttemptTypes DEF Job
<1>4. /\ a.receipt = mem[p].receipt /\ a.finality = mem[p].finality
      /\ mem[p].refund \in {"review_required", "completed"} => a.refund = mem[p].refund
  <2>1. job[h].receipt = mem[p].receipt
    BY <1>0, <1>1, <1>2 DEF JobFollows, AfterOutcome
  <2>2. job[h].settlement \in Settlement /\ job[h].receipt \in Payments \cup {None}
    BY <1>2 DEF Job
  <2>3. QED
    BY <1>2, <1>3, <2>1, <2>2, FieldEffects
<1>5. Update(p, a) /\ Moves(h, Idle)
  BY <1>0, <1>1, <1>3, NextJobs DEF Respond
<1>6. mem'[p] = a /\ job'[h] = Idle /\ \A v \in Workers \ {h} : job'[v] = job[v]
  BY <1>0, <1>5 DEF Moves, Update, IInv, TypeOK
<1>7. (Finalizing(p) => Finalizing(p)') /\ (Disputing(p) => Disputing(p)')
  BY <1>0, <1>6 DEF Finalizing, Disputing
<1>8. CheckFollowed(p)'
  BY <1>0, <1>2, <1>4, <1>6, <1>7 DEF CheckFollowed
<1>9. ReceiptsGrow
  BY <1>0 DEF ReceiptsGrow
<1>10. JobFollows(h)'
  BY <1>0, <1>5, IdleFollows
<1>11. QED
  BY <1>0, <1>1, <1>4, <1>5, <1>8, <1>9, <1>10, WrittenFollows DEF Idle, AfterOutcome

\* A reconciliation starts with the receipt its attempt names.
LEMMA StartFollows ==
  ASSUME IInv, Follows, NEW w \in Workers, NEW p \in Payments, StartReconcile(w, p)
  PROVE  Follows'
<1>0. /\ ThreadFree /\ job[w].pc = "idle" /\ registry' = registry /\ mem' = mem
      /\ mem[p] \in Attempt
  BY DEF StartReconcile, receipts, store, IInv, TypeOK
<1> DEFINE j == [Idle EXCEPT
             !.pc = IF mem[p].settlement = "partial" THEN "unidentified" ELSE "verifying",
             !.payment = p, !.settlement = mem[p].settlement, !.receipt = mem[p].receipt]
<1>1. job' = [job EXCEPT ![w] = j]
  BY DEF StartReconcile
<1>2. j \in Job
  BY <1>0 DEF Idle, Job, Await, Held, Attempt
<1>3. /\ j.pc \in {"unidentified", "verifying"} /\ j.payment = p
      /\ j.receipt = mem[p].receipt
  BY DEF Idle
<1>4. Moves(w, j)
  BY <1>1, <1>2 DEF Moves
<1> HIDE DEF j
<1>5. job'[w] = j
  BY <1>4 DEF Moves, IInv, TypeOK
<1>6. JobFollows(w)'
  BY <1>0, <1>3, <1>5 DEF Follows, JobFollows, CheckFollowed
<1>7. ReceiptsGrow
  BY <1>0 DEF ReceiptsGrow
<1>8. QED
  BY <1>0, <1>4, <1>6, <1>7, QuietFollows

\* The Indexer answers or does not.
LEMMA AnswerFollows ==
  ASSUME IInv, Follows, NEW w \in Workers, IndexerAnswers(w) \/ IndexerUnavailable(w)
  PROVE  Follows'
<1>0. job[w].pc = "verifying" /\ registry' = registry /\ mem' = mem
  BY DEF IndexerAnswers, IndexerUnavailable, receipts, store
<1>1. /\ job'[w].pc = "answered" /\ job'[w].payment = job[w].payment
      /\ job'[w].receipt = job[w].receipt
      /\ \A v \in Workers \ {w} : job'[v] = job[v]
  BY DEF IndexerAnswers, IndexerUnavailable, IInv, TypeOK, Job
<1>2. ASSUME NEW v \in Workers
      PROVE  JobFollows(v)'
  <2>1. JobFollows(v) /\ \A u \in Workers : job'[u].pc \in AfterOutcome
                           => job[u].pc \in AfterOutcome /\ job'[u].payment = job[u].payment
    BY <1>0, <1>1 DEF Follows, AfterOutcome
  <2>2. CASE v = w
    BY <1>0, <1>1, <2>1, <2>2 DEF JobFollows, AfterOutcome
  <2>3. CASE v # w
    BY <1>0, <1>1, <2>1, <2>3 DEF JobFollows
  <2>4. QED
    BY <2>2, <2>3
<1>3. ASSUME NEW q \in Payments
      PROVE  CheckFollowed(q)'
  <2>1. (Finalizing(q) => Finalizing(q)') /\ (Disputing(q) => Disputing(q)')
    BY <1>0, <1>1 DEF Finalizing, Disputing
  <2>2. QED
    BY <1>0, <2>1 DEF Follows, CheckFollowed
<1>4. QED
  BY <1>2, <1>3 DEF Follows

\* A check is recorded by a handler that goes on to act on it.
LEMMA RecordFollows ==
  ASSUME IInv, Follows, NEW w \in Workers, RecordUnidentified(w) \/ ApplyFinality(w)
  PROVE  Follows'
<1>0. /\ job[w].pc \in {"unidentified", "answered"} /\ registry' = registry
      /\ ThreadFree \/ job[w].pc \in Held
  BY DEF RecordUnidentified, ApplyFinality, receipts, Held
<1>1. PICK p \in Payments : p = job[w].payment
  BY <1>0, FollowFacts
<1>2. /\ mem[p] \in Attempt /\ job[w] \in Job /\ JobFollows(w) /\ CheckFollowed(p)
      /\ WorkerInv(w) /\ mem[p].status = "settled"
  BY <1>0, <1>1, FollowFacts DEF Follows, WorkerInv, AfterOutcome
<1>3. job[w].receipt = mem[p].receipt
  BY <1>0, <1>1, <1>2 DEF JobFollows, AfterOutcome
<1>4. ASSUME NEW c \in Check, Update(p, RecordFinality(mem[p], c)), NEW j, Moves(w, j),
             j # Idle => j.payment = p /\ j.receipt = job[w].receipt,
             \/ j = Idle
             \/ j.pc \in {"finalizing", "challenging", "reviewing", "responding"},
             c = "confirmed" /\ job[w].receipt # None => j.pc = "finalizing",
             c = "mismatch" => j.pc \in {"challenging", "reviewing"}
      PROVE  Follows'
  <2>1. PICK a \in Attempt : a = RecordFinality(mem[p], c)
    BY <1>2, AttemptTypes
  <2>2. /\ a.receipt = mem[p].receipt /\ a.refund = mem[p].refund
        /\ a.finality = "confirmed" => c = "confirmed"
        /\ a.finality = "mismatch" => c = "mismatch"
    BY <1>2, <2>1, FieldEffects
  <2>3. job'[w] = j /\ mem'[p] = a
    BY <1>4, <2>1 DEF Moves, Update, IInv, TypeOK
  <2>4. JobFollows(w)'
    <3>1. CASE j = Idle
      BY <1>4, <3>1, IdleFollows
    <3>2. CASE j # Idle
      BY <1>0, <1>2, <1>3, <1>4, <2>2, <2>3, <3>2 DEF JobFollows, AfterOutcome
    <3>3. QED
      BY <3>1, <3>2
  <2>5. CheckFollowed(p)'
    <3>1. c = "confirmed" /\ a.receipt # None => Finalizing(p)'
      <4>1. c = "confirmed" /\ a.receipt # None => j.pc = "finalizing" /\ j.payment = p
        BY <1>3, <1>4, <2>2 DEF Idle
      <4>2. QED
        BY <2>3, <4>1 DEF Finalizing
    <3>2. c = "mismatch" => Disputing(p)'
      <4>1. c = "mismatch" => j.pc \in {"challenging", "reviewing"} /\ j.payment = p
        BY <1>4 DEF Idle
      <4>2. QED
        BY <2>3, <4>1 DEF Disputing
    <3>3. a.receipt # None => registry'[a.receipt] # "none"
      BY <1>0, <1>2, <2>2 DEF CheckFollowed
    <3>4. QED
      BY <2>2, <2>3, <3>1, <3>2, <3>3 DEF CheckFollowed
  <2>6. ReceiptsGrow
    BY <1>0 DEF ReceiptsGrow
  <2>7. ASSUME NEW v \in Workers \ {w}, job[v].pc \in AfterOutcome \cup {"settling"},
               job[v].payment = p
        PROVE  job[v].pc \notin {"settling", "anchoring", "binding"}
    <3>1. job[v].pc # "settling"
      BY <1>2, <2>7, FollowFacts DEF WorkerInv
    <3>2. JobFollows(v) /\ job[w].pc \in AfterOutcome
      BY <1>0 DEF Follows, AfterOutcome
    <3>3. QED
      BY <1>1, <2>7, <3>1, <3>2 DEF JobFollows
  <2>8. job[w].pc \in AfterOutcome /\ (j.pc \in AfterOutcome => j.payment = p)
    BY <1>0, <1>4 DEF AfterOutcome, Idle
  <2>9. QED
    BY <1>1, <1>4, <2>1, <2>2, <2>4, <2>5, <2>6, <2>7, <2>8, WrittenFollows
<1>5. ASSUME NEW c \in Check, Update(p, RecordFinality(mem[p], c)),
             NEW pc \in {"finalizing", "challenging", "reviewing"}, Goto(w, pc),
             c = "confirmed" /\ job[w].receipt # None => pc = "finalizing",
             c = "mismatch" => pc \in {"challenging", "reviewing"}
      PROVE  Follows'
  <2>1. PICK j : /\ Moves(w, j) /\ j.pc = pc /\ j.payment = p
                 /\ j.receipt = job[w].receipt
    BY <1>1, <1>5, NextJobs DEF Held
  <2>2. QED
    BY <1>4, <1>5, <2>1
<1>6. ASSUME NEW c \in Check, Update(p, RecordFinality(mem[p], c)), AfterReconcile(w),
             c = "confirmed" => job[w].receipt = None, c # "mismatch"
      PROVE  Follows'
  <2>1. PICK j : /\ Moves(w, j)
                 /\ \/ j = Idle
                    \/ /\ j.pc = "responding" /\ j.payment = p
                       /\ j.receipt = job[w].receipt
    BY <1>1, <1>6, NextJobs
  <2>2. QED
    BY <1>4, <1>6, <2>1
<1>7. CASE RecordUnidentified(w)
  <2>1. /\ Update(p, RecordFinality(mem[p], "mismatch")) /\ "mismatch" \in Check
        /\ \E pc \in {"challenging", "reviewing"} : Goto(w, pc)
    BY <1>1, <1>7 DEF RecordUnidentified, Check
  <2>2. QED
    BY <1>5, <2>1
<1>8. CASE ApplyFinality(w)
  <2>1. PICK c \in Check : c = job[w].answer
    BY <1>2, <1>8 DEF ApplyFinality, WorkerInv, Job
  <2>2. Update(p, RecordFinality(mem[p], c))
    BY <1>1, <1>8, <2>1 DEF ApplyFinality
  <2>3. \/ c = "confirmed" /\ job[w].receipt # None /\ Goto(w, "finalizing")
        \/ c \in {"mismatch", "not_found"} /\ Goto(w, "challenging")
        \/ c \in {"mismatch", "not_found"} /\ Goto(w, "reviewing")
        \/ /\ AfterReconcile(w) /\ c # "mismatch"
           /\ c = "confirmed" => job[w].receipt = None
    BY <1>8, <2>1 DEF ApplyFinality, Disputed
  <2>4. QED
    BY <1>5, <1>6, <2>2, <2>3
<1>9. QED
  BY <1>7, <1>8

\* A confirmed payment's receipt is finalized, unless it was challenged before.
LEMMA FinalizeFollows ==
  ASSUME IInv, Follows, NEW w \in Workers, Finalize(w)
  PROVE  Follows'
<1>0. job[w].pc = "finalizing" /\ mem' = mem
  BY DEF Finalize, store
<1>1. PICK p \in Payments : p = job[w].payment
  BY <1>0, FollowFacts
<1>2. /\ job[w] \in Job /\ JobFollows(w) /\ CheckFollowed(p)
      /\ registry \in [Payments -> ReceiptStatus]
  BY DEF IInv, TypeOK, Follows
<1>3. PICK r \in Payments : r = job[w].receipt /\ r = mem[p].receipt
  BY <1>0, <1>1, <1>2, FollowFacts DEF JobFollows, WorkerInv, AfterOutcome
<1>4. registry[r] # "none"
  BY <1>2, <1>3, NoneFresh DEF JobFollows
<1>5. PICK j : /\ Moves(w, j)
               /\ \/ j = Idle
                  \/ /\ j.pc = "responding" /\ j.payment = p
                     /\ j.receipt = job[w].receipt
  BY <1>1, NextJobs DEF Finalize
<1>6. ReceiptsGrow /\ registry'[r] \in {"finalized", "challenged"}
  <2>1. CASE CanFinalize(registry, r) /\ registry' = Finalized(registry, r)
    <3>1. registry'[r] = "finalized" /\ \A q \in Payments \ {r} : registry'[q] = registry[q]
      BY <1>2, <2>1 DEF Finalized
    <3>2. QED
      BY <3>1 DEF ReceiptsGrow
  <2>2. CASE ~CanFinalize(registry, r) /\ registry' = registry
    BY <1>2, <1>4, <2>2 DEF CanFinalize, ReceiptStatus, ReceiptsGrow
  <2>3. QED
    BY <1>3, <2>1, <2>2 DEF Finalize, receipts
<1>7. job'[w] = j /\ \A v \in Workers \ {w} : job'[v] = job[v]
  BY <1>5 DEF Moves, IInv, TypeOK
<1>8. JobFollows(w)'
  <2>1. CASE j = Idle
    BY <1>5, <2>1, IdleFollows
  <2>2. CASE j.pc = "responding" /\ j.payment = p /\ j.receipt = job[w].receipt
    <3>1. j.receipt = mem[p].receipt /\ registry'[j.receipt] # "none"
      BY <1>3, <1>6, <2>2
    <3>2. QED
      BY <1>0, <1>7, <2>2, <3>1 DEF JobFollows
  <2>3. QED
    BY <1>5, <2>1, <2>2
<1>9. ASSUME NEW v \in Workers
      PROVE  JobFollows(v)'
  <2>1. CASE v = w
    BY <1>8, <2>1
  <2>2. job[w].pc \in AfterOutcome /\ (j.pc \in AfterOutcome => j.payment = p)
    BY <1>0, <1>5 DEF AfterOutcome, Idle
  <2>3. CASE v # w
    BY <1>0, <1>1, <1>5, <1>6, <2>2, <2>3, OthersFollow
  <2>4. QED
    BY <2>1, <2>3
<1>10. ASSUME NEW q \in Payments
       PROVE  CheckFollowed(q)'
  <2>1. CASE q # p
    BY <1>0, <1>1, <1>5, <1>6, <2>1, CheckStays
  <2>2. CASE q = p
    <3>1. Disputing(p) => Disputing(p)'
      BY <1>0, <1>7 DEF Disputing
    <3>2. QED
      BY <1>0, <1>2, <1>3, <1>6, <2>2, <3>1 DEF CheckFollowed
  <2>3. QED
    BY <2>1, <2>2
<1>11. QED
  BY <1>9, <1>10 DEF Follows

\* A challenge is followed by the review it asks for.
LEMMA ChallengeFollows ==
  ASSUME IInv, Follows, NEW w \in Workers, Challenge(w)
  PROVE  Follows'
<1>0. job[w].pc = "challenging" /\ mem' = mem
  BY DEF Challenge, store
<1>1. PICK p \in Payments : p = job[w].payment
  BY <1>0, FollowFacts
<1>2. /\ job[w] \in Job /\ JobFollows(w)
      /\ registry \in [Payments -> ReceiptStatus]
  BY DEF IInv, TypeOK, Follows
<1>3. PICK r \in Payments : r = job[w].receipt /\ r = mem[p].receipt
  BY <1>0, <1>1, <1>2, FollowFacts DEF JobFollows, WorkerInv, AfterOutcome
<1>4. registry[r] # "none"
  BY <1>2, <1>3, NoneFresh DEF JobFollows
<1>5. registry' = Challenged(registry, r) /\ Goto(w, "reviewing")
  BY <1>3, <1>4 DEF Challenge, CanChallenge
<1>6. /\ registry'[r] \in {"finalized", "challenged"}
      /\ \A q \in Payments \ {r} : registry'[q] = registry[q]
  BY <1>2, <1>5 DEF Challenged
<1>7. ReceiptsGrow
  BY <1>6 DEF ReceiptsGrow
<1>8. PICK j : /\ Moves(w, j) /\ j.pc = "reviewing" /\ j.payment = p
               /\ j.receipt = job[w].receipt
  BY <1>1, <1>5, NextJobs DEF Held
<1>9. job'[w] = j
  BY <1>8 DEF Moves, IInv, TypeOK
<1>10. JobFollows(w)'
  BY <1>0, <1>3, <1>6, <1>8, <1>9 DEF JobFollows
<1>11. QED
  BY <1>0, <1>1, <1>7, <1>8, <1>10, QuietFollows DEF AfterOutcome

\* The attempt goes to refund review.
LEMMA ReviewFollows ==
  ASSUME IInv, Follows, NEW w \in Workers, Review(w)
  PROVE  Follows'
<1>0. job[w].pc = "reviewing" /\ registry' = registry
  BY DEF Review, receipts
<1>1. PICK p \in Payments : p = job[w].payment
  BY <1>0, FollowFacts
<1>2. mem[p] \in Attempt /\ job[w] \in Job /\ JobFollows(w) /\ CheckFollowed(p)
  BY DEF IInv, TypeOK, Follows
<1>3. PICK a \in Attempt : a = RequireRefundReview(mem[p])
  BY <1>2, AttemptTypes
<1>4. /\ a.receipt = mem[p].receipt /\ a.finality = mem[p].finality
      /\ a.refund = "review_required"
  BY <1>2, <1>3, FieldEffects
<1>5. PICK j : /\ Moves(w, j)
               /\ \/ j = Idle
                  \/ /\ j.pc = "responding" /\ j.payment = p
                     /\ j.receipt = job[w].receipt
  BY <1>1, NextJobs DEF Review
<1>6. Update(p, a)
  BY <1>1, <1>3 DEF Review
<1>7. mem'[p] = a /\ job'[w] = j /\ \A v \in Workers \ {w} : job'[v] = job[v]
  BY <1>5, <1>6 DEF Moves, Update, IInv, TypeOK
<1>8. Finalizing(p) => Finalizing(p)'
  BY <1>0, <1>7 DEF Finalizing
<1>9. CheckFollowed(p)'
  BY <1>0, <1>2, <1>4, <1>7, <1>8 DEF CheckFollowed
<1>10. JobFollows(w)'
  <2>1. CASE j = Idle
    BY <1>5, <2>1, IdleFollows
  <2>2. CASE j.pc = "responding" /\ j.payment = p /\ j.receipt = job[w].receipt
    BY <1>0, <1>1, <1>2, <1>4, <1>7, <2>2 DEF JobFollows, AfterOutcome
  <2>3. QED
    BY <1>5, <2>1, <2>2
<1>11. ReceiptsGrow
  BY <1>0 DEF ReceiptsGrow
<1>12. job[w].pc \in AfterOutcome /\ (j.pc \in AfterOutcome => j.payment = p)
  BY <1>0, <1>5 DEF AfterOutcome, Idle
<1>13. QED
  BY <1>1, <1>4, <1>5, <1>6, <1>9, <1>10, <1>11, <1>12, WrittenFollows

\* Nothing has been recorded yet ...
LEMMA InitChecks == Init => ChecksInv
<1> SUFFICES ASSUME Init
             PROVE  Follows
  BY DEF ChecksInv
<1>1. /\ mem = [p \in Payments |-> NoAttempt]
      /\ job = [w \in Workers |-> Idle]
  BY DEF Init
<1>2. \A w \in Workers : JobFollows(w)
  BY <1>1 DEF JobFollows, Idle, AfterOutcome
<1>3. \A p \in Payments : CheckFollowed(p)
  BY <1>1 DEF CheckFollowed, NoAttempt
<1>4. QED
  BY <1>2, <1>3 DEF Follows

\* ... a failed write, a restart and a reset are counted as faults, and every other step
\* keeps what the handlers and the attempts say of each other.
LEMMA NextChecks == IInv /\ ChecksInv /\ [Next]_vars => ChecksInv'
<1> SUFFICES ASSUME IInv, ChecksInv, [Next]_vars, faults' = 0
             PROVE  Follows'
  BY DEF ChecksInv
<1>0. faults \in Nat /\ (\A w \in Workers : ~WriteFails(w)) /\ ~Crash /\ ~Reset
  BY DEF IInv, TypeOK, WriteFails, Crash, Reset
<1>1. ASSUME faults = 0
      PROVE  Follows'
  <2>0. Follows
    BY <1>1 DEF ChecksInv
  <2>1. ASSUME UNCHANGED <<mem, registry, job>>
        PROVE  Follows'
    <3>1. \A w \in Workers : JobFollows(w)'
      BY <2>0, <2>1 DEF Follows, JobFollows
    <3>2. \A q \in Payments : CheckFollowed(q)'
      BY <2>0, <2>1 DEF Follows, CheckFollowed, Finalizing, Disputing
    <3>3. QED
      BY <3>1, <3>2 DEF Follows
  <2>2. ASSUME NEW h \in Handlers, Handler(h)
        PROVE  Follows'
    BY <2>0, <2>2, RequestFollows, ClaimSyncedFollows, SettleReplyFollows, AnchorFollows,
       BindFollows, RespondFollows
    DEF Handler
  <2>3. ASSUME NEW w \in Workers, Worker(w)
        PROVE  Follows'
    BY <1>0, <2>0, <2>3, StartFollows, AnswerFollows, RecordFollows, FinalizeFollows,
       ChallengeFollows, ReviewFollows
    DEF Worker, Reconcile
  <2>4. ASSUME NEW t \in Txs, IndexerAdvances(t)
        PROVE  Follows'
    BY <2>1, <2>4 DEF IndexerAdvances, store, receipts
  <2>5. CASE Operator
    BY <2>1, <2>5 DEF Operator, ExecuteRefund, LoadForRefund, RecordRefund, store, receipts
  <2>6. CASE UNCHANGED vars
    BY <2>1, <2>6 DEF vars
  <2>7. QED
    BY <1>0, <2>2, <2>3, <2>4, <2>5, <2>6 DEF Next
<1>2. ASSUME faults # 0
      PROVE  FALSE
  <2>1. faults' = faults \/ faults' = faults + 1
    <3>1. ASSUME NEW h \in Handlers, Handler(h)
          PROVE  faults' = faults \/ faults' = faults + 1
      BY <3>1 DEF Handler, Request, AuthorizeFails, Claim, ClaimSynced, SettleReply,
         SettleThrows, SettleRejected, SettleSucceeds, Anchor, PersistProof, Bind, Respond
    <3>2. ASSUME NEW w \in Workers, Worker(w)
          PROVE  faults' = faults \/ faults' = faults + 1
      BY <3>2 DEF Worker, StartReconcile, IndexerAnswers, IndexerUnavailable, Reconcile,
         RecordUnidentified, ApplyFinality, Finalize, Challenge, PersistProof, Review,
         WriteFails
    <3>3. QED
      BY <3>1, <3>2 DEF Next, IndexerAdvances, Operator, ExecuteRefund, LoadForRefund,
         RecordRefund, Crash, Reset, vars
  <2>2. QED
    BY <1>0, <1>2, <2>1
<1>3. QED
  BY <1>1, <1>2

\* Without a crash, a failed write or a lost ledger, a terminal check is acted on by the
\* handler that recorded it before that handler yields: a confirmed payment's receipt is
\* counted or was challenged already, a mismatch is in refund review (the tail of
\* reconcileAlgorandPayment) - for any number of overlapping handlers.
THEOREM UndisturbedApplied == Spec => []UndisturbedFinalityApplied
<1>1. IInv /\ ChecksInv => UndisturbedFinalityApplied
  <2> SUFFICES ASSUME IInv, ChecksInv, faults = 0, ThreadFree, NEW p \in Payments
               PROVE  /\ mem[p].finality = "confirmed" /\ mem[p].receipt # None
                           => registry[mem[p].receipt] \in {"finalized", "challenged"}
                      /\ mem[p].finality = "mismatch"
                           => mem[p].refund \in {"review_required", "completed"}
    BY DEF UndisturbedFinalityApplied, FinalityApplied
  <2>1. ~Finalizing(p) /\ ~Disputing(p)
    BY DEF ThreadFree, Finalizing, Disputing, Held
  <2>2. CheckFollowed(p)
    BY DEF ChecksInv, Follows
  <2>3. QED
    BY <2>1, <2>2 DEF CheckFollowed
<1>2. Spec => []ChecksInv
  BY Invariance, InitChecks, NextChecks, PTL DEF Spec
<1>3. QED
  BY <1>1, <1>2, Invariance, PTL
===============================================================================
