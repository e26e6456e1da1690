-------------------------- MODULE RpcPayments_proofs --------------------------
(***************************************************************************)
(* RpcPayments keeps the promise of one report per transfer, serves only   *)
(* what RPC has seen and counts only what is final, for every set of       *)
(* proofs, transactions, requests and handlers and every number of faults. *)
(***************************************************************************)
EXTENDS RpcPayments, TLAPS

-------------------------------------------------------------------------------
(* The inductive invariant *)

\* One handler at a time owns the thread.
OneRun ==
  \A g, h \in Handlers : job[g].pc \in Held /\ job[h].pc \in Held => g = h

Paying   == {"authorizing", "claiming", "owning", "naming", "settling", "judged",
             "anchoring", "binding", "responding"}
Deciding == {"owning", "naming", "settling", "judged"}
Decided  == {"anchoring", "binding", "verifying", "answered", "unidentified",
             "finalizing", "challenging", "responding"}

\* A request that has claimed its proof.
Claimed(h) == job[h].asked /\ job[h].pc # "authorizing"

\* What a handler is doing fits the file of its proof.
JobFits(h) ==
  LET p == job[h].payment IN
  /\ job[h].pc # "idle" => p \in Payments
  /\ job[h].pc = "idle" => ~job[h].asked
  /\ job[h].asked => job[h].url \in Urls
  /\ job[h].pc \in Paying => job[h].asked
  /\ job[h].pc \in {"finalizing", "challenging"} => job[h].receipt # None
  /\ job[h].pc \in {"owning", "naming"} => p \notin Facilitated
  /\ job[h].pc \in {"judged", "answered"} => job[h].answer # "none"
  /\ job[h].pc = "claiming" => attempts[p].status = "torn"
  /\ job[h].pc \in Deciding => attempts[p].status = "settling"
  /\ job[h].pc \in Decided => attempts[p].status = "settled"
  /\ job[h].pc \in Deciding \cup Decided /\ job[h].asked
       => attempts[p].url = job[h].url

\* No two requests have claimed the same proof.
OneClaim ==
  \A g, h \in Handlers :
    Claimed(g) /\ Claimed(h) /\ job[g].payment = job[h].payment => g = h

\* The owner of a transaction is a NEAR proof of it that was claimed.
OwnerFits ==
  \A t \in Txs :
    txOwner[t] \in Payments =>
      /\ TxOf[txOwner[t]] = t
      /\ txOwner[t] \notin Facilitated
      /\ Found(txOwner[t])

\* A NEAR proof is looked up, and has its outcome, as the owner of its transaction.
OwnsFirst ==
  /\ \A h \in Handlers :
       LET t == TxOf[job[h].payment] IN
       /\ job[h].pc = "owning" => txOwner[t] # job[h].payment
       /\ job[h].pc = "naming" => txOwner[t] = Torn
       /\ job[h].pc \in {"settling", "judged"} /\ job[h].payment \notin Facilitated
            => txOwner[t] = job[h].payment
  /\ \A p \in Payments \ Facilitated :
       attempts[p].status \in {"settled", "indeterminate"} => txOwner[TxOf[p]] = p

\* What is settled was seen, and what was served is settled.
Seen(t) == chain[t] \in {"seen", "final"}
SettledSeen ==
  /\ \A h \in Handlers :
       /\ job[h].pc = "judged" /\ job[h].payment \notin Facilitated
       /\ job[h].answer \in {"confirmed", "pending"}
       => Seen(TxOf[job[h].payment])
  /\ \A p \in Payments \ Facilitated : attempts[p].status = "settled" => Seen(TxOf[p])
ServedSettled ==
  \A x \in served :
    \E p \in Payments : TxOf[p] = x[1] /\ attempts[p].status = "settled"

\* A receipt stands for the transaction of the payment it is bound to, and is finalized
\* on an answer that was final.
ReceiptFits ==
  /\ \A p \in Payments :
       attempts[p].receipt # None => TxOf[attempts[p].receipt] = TxOf[p]
  /\ \A h \in Handlers :
       job[h].pc # "idle" /\ job[h].receipt # None
         => TxOf[job[h].receipt] = TxOf[job[h].payment]
FinalAnswers ==
  \A h \in Handlers :
    (job[h].pc = "answered" /\ job[h].answer = "confirmed") \/ job[h].pc = "finalizing"
      => chain[TxOf[job[h].payment]] = "final"

JInv == OneRun /\ (\A h \in Handlers : JobFits(h)) /\ OneClaim
PInv == OwnerFits /\ OwnsFirst
IInv ==
  TypeOK /\ JInv /\ PInv /\ SettledSeen /\ ServedSettled
  /\ ReceiptFits /\ FinalAnswers /\ CountedOnceWhenFinal

LEMMA ConstantFacts ==
  /\ Facilitated \subseteq Payments
  /\ \A p \in Facilitated, q \in Payments : TxOf[p] = TxOf[q] => p = q
  /\ None \notin Payments /\ None \notin Urls
  /\ Torn \notin Payments /\ Torn # None
  /\ TxOf \in [Payments -> Txs]
  /\ MaxFaults \in Nat
BY RpcConstants, TxOfType

-------------------------------------------------------------------------------
(* What the helpers do *)

Pcs == {"idle"} \cup Await \cup Held

LEMMA GotoJob ==
  ASSUME TypeOK, NEW h \in Handlers, NEW pc \in Pcs, Goto(h, pc)
  PROVE  /\ \A g \in Handlers \ {h} : job'[g] = job[g]
         /\ job'[h].pc = pc /\ job'[h].answer = "none"
         /\ job'[h].asked = job[h].asked /\ job'[h].payment = job[h].payment
         /\ job'[h].url = job[h].url /\ job'[h].reply = job[h].reply
         /\ job'[h].receipt = job[h].receipt
         /\ job' \in [Handlers -> Job]
<1>1. job \in [Handlers -> Job]
  BY DEF TypeOK
<1>2. job[h] \in Job
  BY <1>1
<1>3. job' = [job EXCEPT ![h] = [job[h] EXCEPT !.pc = pc, !.answer = "none"]]
  BY <1>1 DEF Goto
<1>4. [job[h] EXCEPT !.pc = pc, !.answer = "none"] \in Job
  BY <1>2 DEF Job, Pcs
<1>5. QED
  BY <1>1, <1>2, <1>3, <1>4 DEF Job

LEMMA DoneJob ==
  ASSUME TypeOK, NEW h \in Handlers, Done(h)
  PROVE  /\ \A g \in Handlers \ {h} : job'[g] = job[g]
         /\ job'[h] = Idle
         /\ job' \in [Handlers -> Job]
BY DEF TypeOK, Done, Idle, Job, Reply, Check

LEMMA UpdateFile ==
  ASSUME TypeOK, NEW p \in Payments, NEW a \in Attempt, Update(p, a)
  PROVE  /\ attempts'[p] = a /\ \A q \in Payments \ {p} : attempts'[q] = attempts[q]
         /\ attempts' \in [Payments -> Attempt]
BY DEF TypeOK, Update

LEMMA AttemptTypes ==
  /\ TornAttempt \in Attempt
  /\ \A u \in Urls : NewAttempt(u) \in Attempt
  /\ \A a \in Attempt :
       /\ MarkFailed(a) \in Attempt /\ MarkIndeterminate(a) \in Attempt
       /\ \A c \in Check : RecordFinality(a, c) \in Attempt
       /\ \A reply \in Reply, r \in Payments \cup {None} : Settle(a, reply, r) \in Attempt
<1>1. NoAttempt \in Attempt
  BY DEF NoAttempt, Attempt, Status, Reply, Finality
<1>2. TornAttempt \in Attempt /\ \A u \in Urls : NewAttempt(u) \in Attempt
  BY <1>1 DEF TornAttempt, NewAttempt, Attempt, Status
<1>3. ASSUME NEW a \in Attempt
      PROVE  MarkFailed(a) \in Attempt /\ MarkIndeterminate(a) \in Attempt
  BY DEF MarkFailed, MarkIndeterminate, Attempt, Status
<1>4. ASSUME NEW a \in Attempt, NEW c \in Check
      PROVE  RecordFinality(a, c) \in Attempt
  BY DEF RecordFinality, Attempt, Finality
<1>5. ASSUME NEW a \in Attempt, NEW reply \in Reply, NEW r \in Payments \cup {None}
      PROVE  Settle(a, reply, r) \in Attempt
  BY DEF Settle, Attempt, Status
<1>6. QED
  BY <1>2, <1>3, <1>4, <1>5

\* What a change of an attempt does to its fields.
LEMMA AttemptFields ==
  /\ TornAttempt.status = "torn" /\ TornAttempt.receipt = None
  /\ \A u \in Urls :
       NewAttempt(u).status = "settling" /\ NewAttempt(u).url = u
       /\ NewAttempt(u).receipt = None
  /\ \A a \in Attempt :
       /\ MarkFailed(a).status = "failed"
       /\ MarkFailed(a).url = a.url /\ MarkFailed(a).receipt = a.receipt
       /\ MarkIndeterminate(a).status = "indeterminate"
       /\ MarkIndeterminate(a).url = a.url /\ MarkIndeterminate(a).receipt = a.receipt
       /\ \A c \in Check :
            /\ RecordFinality(a, c).status = a.status
            /\ RecordFinality(a, c).url = a.url
            /\ RecordFinality(a, c).receipt = a.receipt
       /\ \A reply \in Reply, r \in Payments \cup {None} :
            /\ Settle(a, reply, r).status = "settled" /\ Settle(a, reply, r).url = a.url
            /\ Settle(a, reply, r).receipt = r
BY DEF TornAttempt, NewAttempt, NoAttempt, MarkFailed, MarkIndeterminate, RecordFinality,
       Settle, Attempt

LEMMA SettleFacts ==
  ASSUME NEW a \in Attempt, NEW reply \in Reply, NEW r \in Payments \cup {None}
  PROVE  /\ Settle(a, reply, r) \in Attempt /\ Settle(a, reply, r).status = "settled"
         /\ Settle(a, reply, r).url = a.url /\ Settle(a, reply, r).receipt = r
BY AttemptTypes, AttemptFields

LEMMA RecordFacts ==
  ASSUME NEW a \in Attempt, NEW c \in Check
  PROVE  /\ RecordFinality(a, c) \in Attempt /\ RecordFinality(a, c).status = a.status
         /\ RecordFinality(a, c).url = a.url /\ RecordFinality(a, c).receipt = a.receipt
BY AttemptTypes, AttemptFields

LEMMA JobTypes ==
  ASSUME TypeOK, NEW h \in Handlers
  PROVE  /\ job[h] \in Job /\ job[h].pc \in Pcs /\ job[h].asked \in BOOLEAN
         /\ job[h].payment \in Payments \cup {None} /\ job[h].url \in Urls \cup {None}
         /\ job[h].reply \in Reply /\ job[h].receipt \in Payments \cup {None}
         /\ job[h].answer \in Check \cup {"none"}
BY DEF TypeOK, Job, Pcs

LEMMA FileTypes ==
  ASSUME TypeOK, NEW p \in Payments
  PROVE  /\ attempts[p] \in Attempt /\ attempts[p].status \in Status
         /\ attempts[p].url \in Urls \cup {None}
         /\ attempts[p].receipt \in Payments \cup {None} /\ attempts[p].reply \in Reply
BY DEF TypeOK, Attempt

-------------------------------------------------------------------------------
(* Handlers and files *)

Others(h) == \A g \in Handlers \ {h} : job'[g] = job[g]

Says(q) == attempts'[q].status = attempts[q].status /\ attempts'[q].url = attempts[q].url

\* A step of h changes what a file says only for a proof nobody has, or one h has claimed.
FilesKept(h) ==
  \A q \in Payments :
    \/ Says(q)
    \/ attempts[q].status = "absent"
    \/ Claimed(h) /\ q = job[h].payment /\ attempts[q].status \in {"torn", "settling"}

LEMMA PcCases ==
  /\ Pcs = {"idle", "authorizing", "claiming"} \cup Deciding \cup Decided
  /\ {"claiming"} \cup Deciding \subseteq Paying
BY DEF Pcs, Await, Held, Deciding, Decided, Paying

LEMMA ClaimedStatus ==
  ASSUME TypeOK, NEW g \in Handlers, JobFits(g), Claimed(g)
  PROVE  /\ job[g].payment \in Payments
         /\ attempts[job[g].payment].status \in {"torn", "settling", "settled"}
<1>1. job[g].pc \in {"claiming"} \cup Deciding \cup Decided
  BY JobTypes, PcCases DEF Claimed, JobFits
<1>2. job[g].pc # "idle"
  BY <1>1 DEF Deciding, Decided
<1>3. QED
  BY <1>1, <1>2 DEF JobFits

LEMMA OtherFits ==
  ASSUME TypeOK, JInv, NEW h \in Handlers, Others(h), FilesKept(h),
         NEW g \in Handlers \ {h}
  PROVE  JobFits(g)'
<1> DEFINE p == job[g].payment
<1>1. job'[g] = job[g] /\ JobFits(g) /\ job[g].pc \in Pcs
  BY JobTypes DEF Others, JInv
<1>2. CASE job[g].pc \in {"idle", "authorizing"}
  BY <1>1, <1>2 DEF JobFits, Deciding, Decided, Paying
<1>3. CASE job[g].pc \in {"claiming"} \cup Deciding \cup Decided
  <2>1. p \in Payments
    BY <1>1, <1>3 DEF JobFits, Deciding, Decided
  <2>2. attempts[p].status # "absent"
    BY <1>1, <1>3 DEF JobFits
  <2>3. ASSUME Claimed(h), p = job[h].payment, attempts[p].status \in {"torn", "settling"}
        PROVE  FALSE
    <3>1. job[g].pc \notin Decided
      BY <1>1, <2>3 DEF JobFits
    <3>2. job[g].pc \in Paying /\ job[g].pc # "authorizing"
      BY <1>3, <3>1, PcCases DEF Deciding
    <3>3. Claimed(g)
      BY <1>1, <3>2 DEF Claimed, JobFits
    <3>4. QED
      BY <2>3, <3>3 DEF JInv, OneClaim
  <2>4. Says(p)
    BY <2>1, <2>2, <2>3 DEF FilesKept
  <2>5. QED
    BY <1>1, <2>4 DEF JobFits, Says
<1>4. QED
  BY <1>1, <1>2, <1>3, PcCases

LEMMA JobsKept ==
  ASSUME TypeOK, JInv, NEW h \in Handlers, Others(h), FilesKept(h), JobFits(h)',
         job'[h].pc \in Held => job[h].pc \in Held \/ ThreadFree,
         Claimed(h)' => \/ Claimed(h) /\ job'[h].payment = job[h].payment
                        \/ /\ job'[h].payment \in Payments
                           /\ attempts[job'[h].payment].status = "absent"
  PROVE  JInv'
<1>1. \A g \in Handlers : JobFits(g)'
  BY OtherFits
<1>2. OneRun'
  BY DEF OneRun, JInv, Others, ThreadFree
<1>3. \A g \in Handlers \ {h} : Claimed(g)' => Claimed(g)
  BY DEF Others, Claimed
<1>4. ASSUME NEW g \in Handlers \ {h}, Claimed(g)', Claimed(h)',
             job'[g].payment = job'[h].payment
      PROVE  FALSE
  <2>1. job'[g] = job[g] /\ Claimed(g) /\ JobFits(g)
    BY <1>3, <1>4 DEF Others, JInv
  <2>2. attempts[job[g].payment].status # "absent"
    BY <2>1, ClaimedStatus
  <2>3. QED
    BY <1>4, <2>1, <2>2 DEF JInv, OneClaim
<1>5. OneClaim'
  <2>1. SUFFICES ASSUME NEW f \in Handlers, NEW g \in Handlers, Claimed(f)', Claimed(g)',
                        job'[f].payment = job'[g].payment, f # g
                 PROVE  FALSE
    BY DEF OneClaim, Claimed
  <2>2. CASE f = h \/ g = h
    BY <1>4, <2>1, <2>2
  <2>3. CASE f # h /\ g # h
    BY <1>3, <2>1, <2>3 DEF Others, JInv, OneClaim
  <2>4. QED
    BY <2>2, <2>3
<1>6. QED
  BY <1>1, <1>2, <1>5 DEF JInv

\* h claims its proof, or goes on with it.
LEMMA UpdateKept ==
  ASSUME TypeOK, NEW h \in Handlers, NEW p \in Payments, NEW a \in Attempt, Update(p, a),
         \/ attempts[p].status = "absent"
         \/ Claimed(h) /\ p = job[h].payment /\ attempts[p].status \in {"torn", "settling"}
         \/ attempts[p].status = a.status /\ attempts[p].url = a.url
  PROVE  FilesKept(h) /\ attempts'[p] = a /\ attempts' \in [Payments -> Attempt]
<1>1. attempts'[p] = a /\ \A q \in Payments \ {p} : attempts'[q] = attempts[q]
  BY UpdateFile
<1>2. QED
  BY <1>1, UpdateFile DEF FilesKept, Says

LEMMA SameKept ==
  ASSUME NEW h \in Handlers, UNCHANGED attempts
  PROVE  FilesKept(h)
BY DEF FilesKept, Says

\* A handler that is done.
LEMMA DoneKept ==
  ASSUME TypeOK, JInv, NEW h \in Handlers, Done(h), FilesKept(h)
  PROVE  JInv'
<1>1. Others(h) /\ job'[h] = Idle
  BY DoneJob DEF Others
<1>2. JobFits(h)'
  BY <1>1 DEF JobFits, Idle, Paying, Deciding, Decided
<1>3. job'[h].pc \notin Held /\ ~Claimed(h)'
  BY <1>1 DEF Idle, Held, Claimed
<1>4. QED
  BY <1>1, <1>2, <1>3, JobsKept

\* A handler that goes on with the payment it has claimed, or polls.
LEMMA GotoKept ==
  ASSUME TypeOK, JInv, NEW h \in Handlers, NEW pc \in Pcs, Goto(h, pc), FilesKept(h),
         job[h].pc \notin {"idle", "authorizing"}, pc # "idle",
         pc \in Held => job[h].pc \in Held \/ ThreadFree,
         pc \in Paying => job[h].asked,
         pc \in {"finalizing", "challenging"} => job[h].receipt # None,
         pc \in {"owning", "naming"} => job[h].payment \notin Facilitated,
         pc \notin {"judged", "answered", "claiming"},
         pc \in Deciding => attempts'[job[h].payment].status = "settling",
         pc \in Decided => attempts'[job[h].payment].status = "settled",
         job[h].asked => attempts'[job[h].payment].url = job[h].url
  PROVE  JInv'
<1>1. /\ Others(h) /\ job'[h].pc = pc /\ job'[h].asked = job[h].asked
      /\ job'[h].payment = job[h].payment /\ job'[h].url = job[h].url
      /\ job'[h].receipt = job[h].receipt
  BY GotoJob DEF Others
<1>2. JobFits(h)
  BY DEF JInv
<1>3. JobFits(h)'
  BY <1>1, <1>2 DEF JobFits
<1>4. Claimed(h)' => Claimed(h)
  BY <1>1 DEF Claimed
<1>5. QED
  BY <1>1, <1>3, <1>4, JobsKept

-------------------------------------------------------------------------------
(* Types and handlers, action by action *)

Good == TypeOK' /\ JInv'

LEMMA ServedTypes ==
  ASSUME TypeOK, NEW q \in Payments, NEW u \in Urls, ServeFor(q, u)
  PROVE  served' \subseteq Txs \X Urls
BY ConstantFacts DEF TypeOK, ServeFor

LEMMA PersistTypes ==
  ASSUME TypeOK, NEW p \in Payments, NEW status \in ReceiptStatus, PersistProof(p, status)
  PROVE  proofFile' \in [Payments -> ReceiptStatus] /\ faults' \in Nat
BY DEF TypeOK, PersistProof

LEMMA RequestGood ==
  ASSUME IInv, NEW h \in Handlers, NEW p \in Payments, NEW u \in Urls, Request(h, p, u)
  PROVE  Good
<1>0. TypeOK /\ JInv /\ FilesKept(h)
  BY SameKept DEF IInv, Request
<1>1. CASE Found(p)
  <2>1. served' \subseteq Txs \X Urls /\ UNCHANGED job
    BY <1>0, <1>1, ServedTypes DEF Request
  <2>2. TypeOK'
    BY <1>0, <2>1 DEF Request, TypeOK, receipts, outside
  <2>3. JInv'
    BY <1>0, <2>1 DEF Request, JInv, OneRun, JobFits, OneClaim, Claimed
  <2>4. QED
    BY <2>2, <2>3 DEF Good
<1>2. CASE ~Found(p)
  <2> DEFINE j == [Idle EXCEPT !.pc = "authorizing", !.asked = TRUE, !.payment = p, !.url = u]
  <2>1. j \in Job /\ j.pc = "authorizing" /\ j.asked /\ j.payment = p /\ j.url = u
    BY DEF Idle, Job, Await, Reply, Check
  <2>2. job' = [job EXCEPT ![h] = j]
    BY <1>2 DEF Request
  <2>3. job' \in [Handlers -> Job] /\ job'[h] = j /\ Others(h)
    BY <1>0, <2>1, <2>2 DEF TypeOK, Others
  <2>4. TypeOK'
    BY <1>0, <1>2, <2>3 DEF Request, TypeOK, receipts, outside
  <2>5. JobFits(h)' /\ ~Claimed(h)' /\ job'[h].pc \notin Held
    BY <2>1, <2>3 DEF JobFits, Claimed, Held, Deciding, Decided, Paying
  <2>6. QED
    BY <1>0, <2>3, <2>4, <2>5, JobsKept DEF Good
<1>3. QED
  BY <1>1, <1>2

LEMMA PollGood ==
  ASSUME IInv, NEW h \in Handlers, NEW p \in Payments, Poll(h, p)
  PROVE  Good
<1> DEFINE a == attempts[p]
           j == [Idle EXCEPT !.pc = IF a.reply = "noTx" THEN "unidentified" ELSE "verifying",
                             !.payment = p, !.reply = a.reply, !.receipt = a.receipt]
<1>0. TypeOK /\ JInv /\ FilesKept(h)
  BY SameKept DEF IInv, Poll
<1>1. a.reply \in Reply /\ a.receipt \in Payments \cup {None} /\ a.status = "settled"
  BY <1>0, FileTypes DEF Poll
<1>2. j \in Job /\ j.pc \in {"unidentified", "verifying"} /\ j.asked = FALSE /\ j.payment = p
  BY <1>1 DEF Idle, Job, Await, Held, Reply, Check
<1>3. job' = [job EXCEPT ![h] = j]
  BY DEF Poll
<1>4. job' \in [Handlers -> Job] /\ job'[h] = j /\ Others(h)
  BY <1>0, <1>2, <1>3 DEF TypeOK, Others
<1>5. TypeOK'
  BY <1>0, <1>4 DEF Poll, TypeOK, receipts, outside
<1>6. JobFits(h)' /\ ~Claimed(h)'
  BY <1>1, <1>2, <1>4 DEF JobFits, Claimed, Deciding, Decided, Paying, Poll
<1>7. QED
  BY <1>0, <1>4, <1>5, <1>6, JobsKept DEF Good, Poll

\* Handlers that end without writing a file.
LEMMA EndsGood ==
  ASSUME IInv, NEW h \in Handlers,
         AuthorizeFails(h) \/ OwnerUnreadable(h) \/ WriteFails(h)
  PROVE  Good
<1>0. TypeOK /\ JInv /\ FilesKept(h) /\ Done(h)
  BY SameKept DEF IInv, AuthorizeFails, OwnerUnreadable, WriteFails
<1>1. job' \in [Handlers -> Job]
  BY <1>0, DoneJob
<1>2. lost' \subseteq Payments
  <2>1. CASE WriteFails(h)
    <3>1. job[h].pc # "idle" /\ JobFits(h)
      BY <1>0, <2>1 DEF WriteFails, JInv
    <3>2. job[h].payment \in Payments
      BY <3>1 DEF JobFits
    <3>3. QED
      BY <1>0, <2>1, <3>2 DEF WriteFails, TypeOK
  <2>2. QED
    BY <1>0, <2>1 DEF AuthorizeFails, OwnerUnreadable, TypeOK
<1>3. TypeOK'
  BY <1>0, <1>1, <1>2
  DEF TypeOK, AuthorizeFails, OwnerUnreadable, WriteFails, receipts, outside
<1>4. QED
  BY <1>0, <1>3, DoneKept DEF Good

LEMMA ClaimGood ==
  ASSUME IInv, NEW h \in Handlers, Claim(h)
  PROVE  Good
<1> DEFINE p == job[h].payment
<1>0. TypeOK /\ JInv /\ JobFits(h) /\ job[h].pc = "authorizing"
  BY DEF IInv, JInv, Claim
<1>1. p \in Payments /\ job[h].asked /\ job[h].url \in Urls
  BY <1>0 DEF JobFits, Paying
<1>2. CASE Done(h) /\ UNCHANGED attempts
  <2>1. served' \subseteq Txs \X Urls
    <3>1. CASE ServeFor(p, job[h].url)
      BY <1>0, <1>1, <3>1, ServedTypes
    <3>2. CASE UNCHANGED served
      BY <1>0, <3>2 DEF TypeOK
    <3>3. QED
      BY <1>2, <3>1, <3>2 DEF Claim
  <2>2. TypeOK'
    BY <1>0, <1>2, <2>1, DoneJob DEF TypeOK, Claim, receipts, outside
  <2>3. QED
    BY <1>0, <1>2, <2>2, SameKept, DoneKept DEF Good
<1>3. CASE /\ attempts[p].status = "absent" /\ Update(p, TornAttempt)
           /\ Goto(h, "claiming") /\ UNCHANGED served
  <2>1. FilesKept(h) /\ attempts'[p].status = "torn" /\ attempts' \in [Payments -> Attempt]
    BY <1>0, <1>1, <1>3, UpdateKept, AttemptTypes, AttemptFields
  <2>2. "claiming" \in Pcs
    BY DEF Pcs, Held
  <2>3. /\ Others(h) /\ job' \in [Handlers -> Job] /\ job'[h].pc = "claiming"
        /\ job'[h].asked /\ job'[h].payment = p /\ job'[h].url = job[h].url
    BY <1>0, <1>1, <1>3, <2>2, GotoJob DEF Others
  <2>4. TypeOK'
    BY <1>0, <1>3, <2>1, <2>3 DEF TypeOK, Claim, receipts, outside
  <2>5. JobFits(h)'
    BY <1>1, <2>1, <2>3 DEF JobFits, Deciding, Decided
  <2>6. JInv'
    BY <1>0, <1>1, <1>3, <2>1, <2>3, <2>5, JobsKept DEF Claim
  <2>7. QED
    BY <2>4, <2>6 DEF Good
<1>4. QED
  BY <1>2, <1>3 DEF Claim

\* What is known of a handler beyond its claim.
LEMMA HeldFacts ==
  ASSUME IInv, NEW h \in Handlers, job[h].pc \notin {"idle", "authorizing"}
  PROVE  /\ TypeOK /\ JInv /\ JobFits(h) /\ job[h].payment \in Payments
         /\ attempts[job[h].payment] \in Attempt
         /\ job[h].reply \in Reply /\ job[h].receipt \in Payments \cup {None}
         /\ job[h].asked => Claimed(h) /\ job[h].url \in Urls
BY FileTypes, JobTypes DEF IInv, JInv, JobFits, Claimed

LEMMA ClaimSyncedGood ==
  ASSUME IInv, NEW h \in Handlers, ClaimSynced(h)
  PROVE  Good
<1> DEFINE p == job[h].payment
           a == NewAttempt(job[h].url)
           pc == IF p \in Facilitated THEN "settling" ELSE "owning"
<1>0. job[h].pc = "claiming" /\ Update(p, a) /\ Goto(h, pc)
  BY DEF ClaimSynced
<1>1. /\ TypeOK /\ JInv /\ JobFits(h) /\ p \in Payments /\ job[h].asked /\ Claimed(h)
      /\ job[h].url \in Urls
  BY <1>0, HeldFacts DEF JobFits, Paying
<1>2. attempts[p].status = "torn" /\ a \in Attempt /\ a.status = "settling" /\ a.url = job[h].url
  BY <1>0, <1>1, AttemptTypes, AttemptFields DEF JobFits
<1>3. FilesKept(h) /\ attempts'[p] = a /\ attempts' \in [Payments -> Attempt]
  BY <1>0, <1>1, <1>2, UpdateKept
<1>4. pc \in Pcs /\ pc \notin Decided /\ pc \in {"settling", "owning"}
  BY DEF Pcs, Held, Await, Decided
<1>5. job' \in [Handlers -> Job]
  BY <1>0, <1>1, <1>4, GotoJob
<1>6. TypeOK'
  BY <1>1, <1>3, <1>5 DEF TypeOK, ClaimSynced, receipts, outside
<1>7. pc = "owning" => p \notin Facilitated
  OBVIOUS
<1>8. job[h].pc \in Held
  BY <1>0 DEF Held
<1>9. QED
  BY <1>0, <1>1, <1>2, <1>3, <1>4, <1>6, <1>7, <1>8, GotoKept DEF Good

LEMMA OwningGood ==
  ASSUME IInv, NEW h \in Handlers, CreateOwner(h) \/ NameOwner(h)
  PROVE  Good
<1> DEFINE p == job[h].payment
<1>1. /\ job[h].pc \in {"owning", "naming"} /\ UNCHANGED attempts
      /\ \E pc \in {"naming", "settling"} : Goto(h, pc)
  BY DEF CreateOwner, NameOwner
<1>2. PICK pc \in {"naming", "settling"} : Goto(h, pc)
  BY <1>1
<1>3. /\ TypeOK /\ JInv /\ JobFits(h) /\ p \in Payments /\ job[h].asked /\ Claimed(h)
      /\ attempts[p].status = "settling" /\ attempts[p].url = job[h].url
      /\ p \notin Facilitated
  BY <1>1, HeldFacts DEF JobFits, Paying, Deciding
<1>4. FilesKept(h) /\ pc \in Pcs /\ pc \notin Decided /\ job[h].pc \in Held
  BY <1>1, SameKept DEF Pcs, Held, Await, Decided
<1>5. job' \in [Handlers -> Job]
  BY <1>2, <1>3, <1>4, GotoJob
<1>6. txOwner' \in [Txs -> Payments \cup {None, Torn}]
  BY <1>3 DEF TypeOK, CreateOwner, NameOwner
<1>7. TypeOK'
  BY <1>1, <1>3, <1>5, <1>6 DEF TypeOK, CreateOwner, NameOwner, receipts, outside
<1>8. JInv'
  BY <1>1, <1>2, <1>3, <1>4, GotoKept
<1>9. QED
  BY <1>7, <1>8 DEF Good

LEMMA RefuseGood ==
  ASSUME IInv, NEW h \in Handlers, RefuseUsed(h)
  PROVE  Good
<1> DEFINE p == job[h].payment
           q == txOwner[TxOf[p]]
<1>1. /\ job[h].pc = "owning" /\ Update(p, MarkFailed(attempts[p])) /\ Done(h)
      /\ q \in Payments /\ ServeFor(q, job[h].url)
  BY DEF RefuseUsed
<1>2. /\ TypeOK /\ JInv /\ JobFits(h) /\ p \in Payments /\ job[h].asked /\ Claimed(h)
      /\ attempts[p] \in Attempt /\ attempts[p].status = "settling" /\ job[h].url \in Urls
  BY <1>1, HeldFacts DEF JobFits, Paying, Deciding
<1>3. FilesKept(h) /\ attempts' \in [Payments -> Attempt]
  BY <1>1, <1>2, UpdateKept, AttemptTypes
<1>4. served' \subseteq Txs \X Urls
  BY <1>1, <1>2, ServedTypes
<1>5. TypeOK'
  BY <1>1, <1>2, <1>3, <1>4, DoneJob DEF TypeOK, RefuseUsed, receipts, outside
<1>6. QED
  BY <1>1, <1>2, <1>3, <1>5, DoneKept DEF Good

LEMMA VerdictType == TypeOK => \A t \in Txs : Verdict(t) \in Check
BY DEF TypeOK, ChainState, Verdict, Check

\* An answer is in.
LEMMA AnsweredGood ==
  ASSUME IInv, NEW h \in Handlers, job[h].pc \in {"settling", "verifying"},
         NEW answer \in Check, NEW reply \in Reply, Answered(h, answer, reply),
         UNCHANGED <<attempts, txOwner, receipts, outside, served, lost, faults>>
  PROVE  /\ Good /\ Others(h)
         /\ job'[h].pc = IF job[h].pc = "settling" THEN "judged" ELSE "answered"
         /\ job'[h].answer = answer /\ job'[h].payment = job[h].payment
         /\ job'[h].receipt = job[h].receipt
<1> DEFINE pc == IF job[h].pc = "settling" THEN "judged" ELSE "answered"
<1>1. /\ TypeOK /\ JInv /\ JobFits(h) /\ job[h].payment \in Payments /\ job[h] \in Job
  BY HeldFacts, JobTypes
<1>2. job' = [job EXCEPT ![h] = [job[h] EXCEPT !.pc = pc, !.answer = answer, !.reply = reply]]
  BY <1>1 DEF Answered, TypeOK
<1>3. [job[h] EXCEPT !.pc = pc, !.answer = answer, !.reply = reply] \in Job
  BY <1>1 DEF Job, Await
<1>4. /\ Others(h) /\ job' \in [Handlers -> Job] /\ job'[h].pc = pc
      /\ job'[h].answer = answer /\ job'[h].payment = job[h].payment
      /\ job'[h].asked = job[h].asked /\ job'[h].url = job[h].url
      /\ job'[h].receipt = job[h].receipt
  BY <1>1, <1>2, <1>3 DEF TypeOK, Others, Job
<1>5. TypeOK'
  BY <1>1, <1>4 DEF TypeOK, receipts, outside
<1>6. JobFits(h)'
  BY <1>1, <1>4 DEF JobFits, Paying, Deciding, Decided, Check
<1>7. (Claimed(h)' => Claimed(h)) /\ pc \notin Held
  BY <1>1, <1>4 DEF Claimed, Held, JobFits
<1>8. QED
  BY <1>1, <1>4, <1>5, <1>6, <1>7, SameKept, JobsKept DEF Good

LEMMA AnswerCases ==
  ASSUME IInv, NEW h \in Handlers, Call(h)
  PROVE  /\ job[h].pc \in {"settling", "verifying"}
         /\ UNCHANGED <<attempts, txOwner, receipts, outside, served, lost, faults>>
         /\ \E answer \in Check, reply \in Reply :
              /\ Answered(h, answer, reply)
              /\ job[h].payment \notin Facilitated \/ job[h].pc = "verifying"
                   => answer \in {Verdict(TxOf[job[h].payment]), "unavailable"}
<1>1. CASE RpcAnswers(h)
  <2>1. job[h].pc \in {"settling", "verifying"}
    BY <1>1 DEF RpcAnswers, AsksRpc
  <2>2. TypeOK /\ job[h].payment \in Payments /\ job[h].reply \in Reply
    BY <2>1, HeldFacts
  <2>3. Verdict(TxOf[job[h].payment]) \in Check /\ "unavailable" \in Check /\ "full" \in Reply
    BY <2>2, VerdictType, ConstantFacts DEF Check, Reply
  <2>4. QED
    BY <1>1, <2>1, <2>2, <2>3 DEF RpcAnswers
<1>2. CASE FacilitatorAnswers(h)
  <2>1. Replies \subseteq Reply /\ "none" \in Reply
        /\ {"confirmed", "mismatch", "unavailable"} \subseteq Check
    BY RpcConstants DEF Reply, Check
  <2>2. QED
    BY <1>2, <2>1 DEF FacilitatorAnswers
<1>3. QED
  BY <1>1, <1>2 DEF Call

LEMMA CallGood ==
  ASSUME IInv, NEW h \in Handlers, Call(h)
  PROVE  Good
BY AnswerCases, AnsweredGood

LEMMA SettleGood ==
  ASSUME IInv, NEW h \in Handlers,
         SettleSucceeds(h) \/ SettleRejected(h) \/ SettleUnknown(h)
  PROVE  Good
<1> DEFINE p == job[h].payment
           a == attempts[p]
<1>1. job[h].pc = "judged" /\ ThreadFree
  BY DEF SettleSucceeds, SettleRejected, SettleUnknown
<1>2. /\ TypeOK /\ JInv /\ JobFits(h) /\ p \in Payments /\ job[h].asked /\ Claimed(h)
      /\ a \in Attempt /\ a.status = "settling" /\ a.url = job[h].url
      /\ job[h].reply \in Reply
  BY <1>1, HeldFacts DEF JobFits, Paying, Deciding
<1>3. CASE SettleSucceeds(h)
  <2> DEFINE b == Settle(a, job[h].reply, None)
  <2>1. Update(p, b) /\ Goto(h, "anchoring")
    BY <1>3 DEF SettleSucceeds
  <2>2. b \in Attempt /\ b.status = "settled" /\ b.url = job[h].url
    BY <1>2, SettleFacts
  <2>3. FilesKept(h) /\ attempts'[p] = b /\ attempts' \in [Payments -> Attempt]
    BY <1>2, <2>1, <2>2, UpdateKept
  <2>4. "anchoring" \in Pcs /\ "anchoring" \notin Deciding
    BY DEF Pcs, Held, Deciding
  <2>5. TypeOK'
    BY <1>2, <1>3, <2>1, <2>3, <2>4, GotoJob DEF TypeOK, SettleSucceeds, receipts, outside
  <2>6. JInv'
    BY <1>1, <1>2, <2>1, <2>2, <2>3, <2>4, GotoKept
  <2>7. QED
    BY <2>5, <2>6 DEF Good
<1>4. CASE SettleRejected(h) \/ SettleUnknown(h)
  <2>1. PICK b \in {MarkFailed(a), MarkIndeterminate(a)} : Update(p, b) /\ Done(h)
    BY <1>4 DEF SettleRejected, SettleUnknown
  <2>2. FilesKept(h) /\ attempts' \in [Payments -> Attempt]
    BY <1>2, <2>1, UpdateKept, AttemptTypes
  <2>3. TypeOK'
    BY <1>2, <1>4, <2>1, <2>2, DoneJob
    DEF TypeOK, SettleRejected, SettleUnknown, receipts, outside
  <2>4. QED
    BY <1>2, <2>1, <2>2, <2>3, DoneKept DEF Good
<1>5. QED
  BY <1>3, <1>4

LEMMA AnchorTypes ==
  ASSUME TypeOK, NEW p \in Payments, NEW r \in Payments, registry' \in
         {registry, Anchored(registry, p)}, PersistProof(r, registry'[r])
  PROVE  /\ registry' \in [Payments -> ReceiptStatus]
         /\ proofFile' \in [Payments -> ReceiptStatus] /\ faults' \in Nat
<1>1. registry' \in [Payments -> ReceiptStatus]
  BY DEF TypeOK, Anchored, ReceiptStatus
<1>2. QED
  BY <1>1, PersistTypes

\* The receipt an anchoring leaves the handler with.
AnchoredFor(p) ==
  IF SameTx(registry, p) = {} THEN p ELSE CHOOSE q \in SameTx(registry, p) : TRUE

LEMMA AnchoredForFacts ==
  ASSUME NEW p \in Payments
  PROVE  AnchoredFor(p) \in Payments /\ TxOf[AnchoredFor(p)] = TxOf[p]
BY DEF AnchoredFor, SameTx

LEMMA AnchorGood ==
  ASSUME IInv, NEW h \in Handlers, Anchor(h)
  PROVE  Good
<1> DEFINE p == job[h].payment
           r == AnchoredFor(p)
<1>1. job[h].pc = "anchoring" /\ UNCHANGED attempts
  BY DEF Anchor
<1>2. /\ TypeOK /\ JInv /\ JobFits(h) /\ p \in Payments /\ job[h].asked /\ Claimed(h)
      /\ attempts[p].status = "settled" /\ attempts[p].url = job[h].url /\ job[h] \in Job
  BY <1>1, HeldFacts, JobTypes DEF JobFits, Paying, Decided
<1>3. FilesKept(h) /\ "binding" \in Pcs /\ "binding" \notin Deciding
      /\ job[h].pc \in Held /\ "binding" \in Decided
  BY <1>1, SameKept DEF Pcs, Held, Deciding, Decided
<1>4. CASE Goto(h, "binding") /\ UNCHANGED <<registry, proofFile, faults>>
  <2>1. TypeOK'
    BY <1>2, <1>3, <1>4, GotoJob DEF TypeOK, Anchor, outside
  <2>2. JInv'
    BY <1>1, <1>2, <1>3, <1>4, GotoKept
  <2>3. QED
    BY <2>1, <2>2 DEF Good
<1>5. CASE /\ registry' \in {registry, Anchored(registry, p)}
           /\ PersistProof(r, registry'[r])
           /\ job' = [job EXCEPT ![h].pc = "binding", ![h].receipt = r]
  <2> DEFINE j == [job[h] EXCEPT !.pc = "binding", !.receipt = r]
  <2>1. r \in Payments
    BY <1>2, AnchoredForFacts
  <2>2. job' = [job EXCEPT ![h] = j]
    BY <1>2, <1>5 DEF TypeOK
  <2>3. j \in Job /\ j.pc = "binding" /\ j.asked = job[h].asked /\ j.payment = p
        /\ j.url = job[h].url
    BY <1>2, <2>1 DEF Job, Held
  <2>4. job' \in [Handlers -> Job] /\ job'[h] = j /\ Others(h)
    BY <1>2, <2>2, <2>3 DEF TypeOK, Others
  <2>5. /\ registry' \in [Payments -> ReceiptStatus]
        /\ proofFile' \in [Payments -> ReceiptStatus] /\ faults' \in Nat
    BY <1>2, <1>5, <2>1, AnchorTypes
  <2>6. TypeOK'
    BY <1>2, <2>4, <2>5 DEF TypeOK, Anchor, outside
  <2>7. JobFits(h)'
    BY <1>1, <1>2, <1>3, <2>3, <2>4 DEF JobFits
  <2>8. Claimed(h)' => Claimed(h)
    BY <1>2
  <2>9. QED
    BY <1>2, <1>3, <2>3, <2>4, <2>6, <2>7, <2>8, JobsKept DEF Good
<1>6. QED
  BY <1>4, <1>5 DEF Anchor, AnchoredFor

\* Reconciliation is over.
LEMMA AfterGood ==
  ASSUME IInv, NEW h \in Handlers, job[h].pc \in Decided, AfterReconcile(h), FilesKept(h),
         Says(job[h].payment),
         job[h].pc \in Held \/ ThreadFree
  PROVE  JInv' /\ job' \in [Handlers -> Job]
<1>1. job[h].pc \notin {"idle", "authorizing"}
  BY DEF Decided
<1>2. /\ TypeOK /\ JInv /\ JobFits(h) /\ attempts[job[h].payment].status = "settled"
      /\ job[h].asked => attempts[job[h].payment].url = job[h].url
  BY <1>1, HeldFacts DEF JobFits
<1>3. CASE job[h].asked
  <2>1. Goto(h, "responding") /\ "responding" \in Pcs /\ "responding" \notin Deciding
    BY <1>3 DEF AfterReconcile, Pcs, Held, Deciding
  <2>2. QED
    BY <1>1, <1>2, <1>3, <2>1, GotoJob, GotoKept DEF Says
<1>4. CASE ~job[h].asked
  BY <1>2, <1>4, DoneJob, DoneKept DEF AfterReconcile
<1>5. QED
  BY <1>3, <1>4

\* The file of a settled payment is written again.
LEMMA RewriteFacts ==
  ASSUME IInv, NEW h \in Handlers, job[h].pc \in Decided, NEW b \in Attempt,
         b.status = "settled", b.url = attempts[job[h].payment].url,
         Update(job[h].payment, b)
  PROVE  /\ FilesKept(h) /\ Says(job[h].payment) /\ attempts'[job[h].payment] = b
         /\ attempts' \in [Payments -> Attempt]
<1>1. job[h].pc \notin {"idle", "authorizing"}
  BY DEF Decided
<1>2. TypeOK /\ job[h].payment \in Payments /\ attempts[job[h].payment].status = "settled"
  BY <1>1, HeldFacts DEF JobFits
<1>3. QED
  BY <1>2, UpdateKept DEF Says

LEMMA BindGood ==
  ASSUME IInv, NEW h \in Handlers, Bind(h)
  PROVE  Good
<1> DEFINE p == job[h].payment
           b == Settle(attempts[p], job[h].reply, job[h].receipt)
<1>1. job[h].pc = "binding" /\ Update(p, b)
  BY DEF Bind
<1>2. /\ TypeOK /\ JInv /\ p \in Payments /\ job[h].asked
      /\ attempts[p].url = job[h].url /\ b \in Attempt /\ b.status = "settled"
      /\ b.url = attempts[p].url /\ job[h].pc \in Decided
  <2>1. /\ TypeOK /\ JInv /\ JobFits(h) /\ p \in Payments /\ attempts[p] \in Attempt
        /\ job[h].reply \in Reply /\ job[h].receipt \in Payments \cup {None}
    BY <1>1, HeldFacts
  <2>2. b \in Attempt /\ b.status = "settled" /\ b.url = attempts[p].url
    BY <2>1, SettleFacts
  <2>3. QED
    BY <1>1, <2>1, <2>2 DEF JobFits, Paying, Decided
<1>3. FilesKept(h) /\ attempts'[p] = b /\ attempts' \in [Payments -> Attempt]
  BY <1>1, <1>2, RewriteFacts
<1>4. PICK pc \in {"responding", "verifying"} : Goto(h, pc)
  BY DEF Bind
<1>5. pc \in Pcs /\ pc \notin Deciding /\ job[h].pc \in Held
  BY <1>1 DEF Pcs, Held, Await, Deciding
<1>6. TypeOK'
  BY <1>2, <1>3, <1>4, <1>5, GotoJob DEF TypeOK, Bind, receipts, outside
<1>7. JInv'
  BY <1>1, <1>2, <1>3, <1>4, <1>5, GotoKept
<1>8. QED
  BY <1>6, <1>7 DEF Good

LEMMA RespondGood ==
  ASSUME IInv, NEW h \in Handlers, Respond(h)
  PROVE  Good
<1> DEFINE p == job[h].payment
           b == Settle(attempts[p], job[h].reply, job[h].receipt)
<1>1. job[h].pc = "responding" /\ Update(p, b) /\ Done(h)
  BY DEF Respond
<1>2. /\ TypeOK /\ JInv /\ p \in Payments /\ job[h].url \in Urls
      /\ b \in Attempt /\ b.status = "settled" /\ b.url = attempts[p].url
      /\ job[h].pc \in Decided
  <2>1. /\ TypeOK /\ JInv /\ JobFits(h) /\ p \in Payments /\ attempts[p] \in Attempt
        /\ job[h].reply \in Reply /\ job[h].receipt \in Payments \cup {None}
    BY <1>1, HeldFacts
  <2>2. b \in Attempt /\ b.status = "settled" /\ b.url = attempts[p].url
    BY <2>1, SettleFacts
  <2>3. QED
    BY <1>1, <2>1, <2>2 DEF JobFits, Paying, Decided
<1>3. FilesKept(h) /\ attempts' \in [Payments -> Attempt]
  BY <1>1, <1>2, RewriteFacts
<1>4. served' \subseteq Txs \X Urls
  BY <1>2, ConstantFacts DEF TypeOK, Respond
<1>5. TypeOK'
  BY <1>1, <1>2, <1>3, <1>4, DoneJob DEF TypeOK, Respond, receipts, outside
<1>6. QED
  BY <1>1, <1>2, <1>3, <1>5, DoneKept DEF Good

LEMMA UnidentifiedGood ==
  ASSUME IInv, NEW h \in Handlers, RecordUnidentified(h)
  PROVE  Good
<1> DEFINE p == job[h].payment
           b == RecordFinality(attempts[p], "mismatch")
<1>1. job[h].pc = "unidentified" /\ Update(p, b) /\ AfterReconcile(h)
  BY DEF RecordUnidentified
<1>2. /\ TypeOK /\ JInv /\ p \in Payments /\ attempts[p].status = "settled"
      /\ b \in Attempt /\ b.status = "settled" /\ b.url = attempts[p].url
      /\ job[h].pc \in Decided /\ job[h].pc \in Held
  <2>1. "mismatch" \in Check
    BY DEF Check
  <2>2. /\ TypeOK /\ JInv /\ JobFits(h) /\ p \in Payments /\ attempts[p] \in Attempt
        /\ job[h].pc \in Decided /\ job[h].pc \in Held
    BY <1>1, HeldFacts DEF Decided, Held
  <2>3. b \in Attempt /\ b.status = attempts[p].status /\ b.url = attempts[p].url
    BY <2>1, <2>2, RecordFacts
  <2>4. QED
    BY <2>2, <2>3 DEF JobFits
<1>3. FilesKept(h) /\ Says(p) /\ attempts' \in [Payments -> Attempt]
  BY <1>1, <1>2, RewriteFacts
<1>4. JInv' /\ job' \in [Handlers -> Job]
  BY <1>1, <1>2, <1>3, AfterGood
<1>5. QED
  BY <1>2, <1>3, <1>4 DEF Good, TypeOK, RecordUnidentified, receipts, outside

LEMMA ApplyGood ==
  ASSUME IInv, NEW h \in Handlers, ApplyFinality(h)
  PROVE  Good
<1> DEFINE p == job[h].payment
           b == RecordFinality(attempts[p], job[h].answer)
<1>1. job[h].pc = "answered" /\ ThreadFree /\ Update(p, b)
  BY DEF ApplyFinality
<1>2. /\ TypeOK /\ JInv /\ JobFits(h) /\ p \in Payments /\ attempts[p].status = "settled"
      /\ job[h].asked => attempts[p].url = job[h].url
      /\ b \in Attempt /\ b.status = "settled" /\ b.url = attempts[p].url
      /\ job[h].pc \in Decided
  <2>1. /\ TypeOK /\ JInv /\ JobFits(h) /\ p \in Payments /\ attempts[p] \in Attempt
        /\ job[h].pc \in Decided
    BY <1>1, HeldFacts DEF Decided
  <2>2. job[h].answer \in Check
    BY <1>1, <2>1, JobTypes DEF JobFits
  <2>3. b \in Attempt /\ b.status = attempts[p].status /\ b.url = attempts[p].url
    BY <2>1, <2>2, RecordFacts
  <2>4. QED
    BY <2>1, <2>3 DEF JobFits
<1>3. FilesKept(h) /\ Says(p) /\ attempts'[p] = b /\ attempts' \in [Payments -> Attempt]
  BY <1>1, <1>2, RewriteFacts
<1>4. JInv' /\ job' \in [Handlers -> Job]
  <2>1. CASE AfterReconcile(h)
    BY <1>1, <1>2, <1>3, <2>1, AfterGood
  <2>2. CASE job[h].receipt # None /\ \E pc \in {"finalizing", "challenging"} : Goto(h, pc)
    <3>1. PICK pc \in {"finalizing", "challenging"} : Goto(h, pc)
      BY <2>2
    <3>2. pc \in Pcs /\ pc \notin Deciding /\ pc \notin Paying
      BY DEF Pcs, Held, Deciding, Paying
    <3>3. QED
      BY <1>1, <1>2, <1>3, <2>2, <3>1, <3>2, GotoJob, GotoKept DEF Says
  <2>3. QED
    BY <2>1, <2>2 DEF ApplyFinality
<1>5. QED
  BY <1>2, <1>3, <1>4 DEF Good, TypeOK, ApplyFinality, receipts, outside

LEMMA ReceiptTypes ==
  ASSUME TypeOK, CountedOnceWhenFinal, NEW r \in Payments
  PROVE  /\ Finalized(registry, r) \in [Payments -> ReceiptStatus]
         /\ Challenged(registry, r) \in [Payments -> ReceiptStatus]
         /\ CreditedBy(credits, registry, r) \in [Payments -> 0..1]
<1>1. Finalized(registry, r) \in [Payments -> ReceiptStatus]
  BY DEF TypeOK, Finalized, ReceiptStatus
<1>2. Challenged(registry, r) \in [Payments -> ReceiptStatus]
  BY DEF TypeOK, Challenged, ReceiptStatus
<1>3. CreditedBy(credits, registry, r) \in [Payments -> 0..1]
  <2>1. CASE registry[r] = "anchored"
    <3>1. credits[r] = 0 /\ credits \in [Payments -> 0..1]
      BY <2>1 DEF TypeOK, CountedOnceWhenFinal
    <3>2. CreditedBy(credits, registry, r) = [credits EXCEPT ![r] = 1]
      BY <2>1, <3>1 DEF CreditedBy
    <3>3. QED
      BY <3>1, <3>2
  <2>2. CASE registry[r] # "anchored"
    BY <2>2 DEF TypeOK, CreditedBy
  <2>3. QED
    BY <2>1, <2>2
<1>4. QED
  BY <1>1, <1>2, <1>3

LEMMA ReceiptStepGood ==
  ASSUME IInv, NEW h \in Handlers, Finalize(h) \/ Challenge(h)
  PROVE  Good
<1> DEFINE p == job[h].payment
           r == job[h].receipt
<1>1. /\ job[h].pc \in {"finalizing", "challenging"} /\ UNCHANGED attempts
      /\ job[h].pc \in Decided /\ job[h].pc \in Held
  BY DEF Finalize, Challenge, Decided, Held
<1>2. /\ TypeOK /\ JInv /\ CountedOnceWhenFinal /\ r \in Payments /\ p \in Payments
      /\ FilesKept(h) /\ Says(p)
  BY <1>1, HeldFacts, SameKept DEF IInv, JobFits, Says
<1>3. JInv' /\ job' \in [Handlers -> Job]
  <2>1. AfterReconcile(h) \/ Done(h)
    BY DEF Finalize, Challenge
  <2>2. QED
    BY <1>1, <1>2, <2>1, AfterGood, DoneKept, DoneJob
<1>4. "finalized" \in ReceiptStatus /\ Challenged(registry, r)[r] \in ReceiptStatus
  BY <1>2, ReceiptTypes DEF ReceiptStatus
<1>5. /\ registry' \in [Payments -> ReceiptStatus] /\ credits' \in [Payments -> 0..1]
      /\ proofFile' \in [Payments -> ReceiptStatus] /\ faults' \in Nat
  <2>1. CASE Finalize(h)
    BY <1>2, <1>4, <2>1, ReceiptTypes, PersistTypes DEF Finalize, receipts, TypeOK
  <2>2. CASE Challenge(h)
    BY <1>2, <1>4, <2>2, ReceiptTypes, PersistTypes DEF Challenge, TypeOK
  <2>3. QED
    BY <2>1, <2>2
<1>6. TypeOK'
  BY <1>2, <1>3, <1>5 DEF TypeOK, Finalize, Challenge, outside
<1>7. QED
  BY <1>3, <1>6 DEF Good

LEMMA ChainGood ==
  ASSUME IInv, NEW t \in Txs, ChainAdvances(t)
  PROVE  Good
<1>1. chain' \in [Txs -> ChainState]
  BY DEF IInv, TypeOK, ChainAdvances, ChainState
<1>2. TypeOK'
  BY <1>1 DEF IInv, TypeOK, ChainAdvances, receipts
<1>3. JInv'
  BY DEF IInv, ChainAdvances, JInv, OneRun, JobFits, OneClaim, Claimed
<1>4. QED
  BY <1>2, <1>3 DEF Good

LEMMA FaultGood ==
  ASSUME IInv, Crash \/ Reset
  PROVE  Good
<1>1. CASE Crash
  <2>1. job' = [h \in Handlers |-> Idle] /\ Idle \in Job
    BY <1>1 DEF Crash, Idle, Job, Reply, Check
  <2>2. TypeOK /\ UNCHANGED <<attempts, txOwner, proofFile, outside, served>>
    BY <1>1 DEF IInv, Crash
  <2>3. registry' \in [Payments -> ReceiptStatus] /\ credits' \in [Payments -> 0..1]
    BY <1>1, <2>2 DEF TypeOK, Crash, Restored, RestoredCredits, ReceiptStatus
  <2>4. lost' \subseteq Payments
    <3>1. \A h \in Handlers : job[h].payment \in Payments \cup {None}
      BY <2>2, JobTypes
    <3>2. QED
      BY <1>1, <2>2, <3>1 DEF TypeOK, Crash
  <2>5. faults' \in Nat
    BY <1>1, <2>2 DEF TypeOK, Crash
  <2>6. TypeOK'
    BY <2>1, <2>2, <2>3, <2>4, <2>5 DEF TypeOK, outside
  <2>7. \A h \in Handlers : job'[h].pc = "idle" /\ ~job'[h].asked
    BY <2>1 DEF Idle
  <2>8. JInv'
    BY <2>7 DEF JInv, OneRun, JobFits, OneClaim, Claimed, Held, Paying, Deciding, Decided
  <2>9. QED
    BY <2>6, <2>8 DEF Good
<1>2. CASE Reset
  <2>1. registry' \in [Payments -> ReceiptStatus] /\ credits' \in [Payments -> 0..1]
    BY <1>2 DEF Reset, NoReceipts, NoCredits, ReceiptStatus
  <2>2. TypeOK'
    BY <1>2, <2>1 DEF IInv, TypeOK, Reset, outside
  <2>3. JInv'
    BY <1>2 DEF IInv, Reset, JInv, OneRun, JobFits, OneClaim, Claimed
  <2>4. QED
    BY <2>2, <2>3 DEF Good
<1>3. QED
  BY <1>1, <1>2

LEMMA NextGood ==
  ASSUME IInv, Next
  PROVE  Good
<1>1. CASE \E h \in Handlers : Handler(h)
  <2>1. PICK h \in Handlers : Handler(h)
    BY <1>1
  <2>2. CASE \E p \in Payments, u \in Urls : Request(h, p, u)
    BY <2>2, RequestGood
  <2>3. CASE \E p \in Payments : Poll(h, p)
    BY <2>3, PollGood
  <2>4. CASE Run(h)
    BY <2>4, ClaimSyncedGood, OwningGood, RefuseGood, EndsGood, AnchorGood, BindGood,
       RespondGood, UnidentifiedGood, ReceiptStepGood DEF Run
  <2>5. CASE Resume(h)
    BY <2>5, SettleGood, ApplyGood DEF Resume
  <2>6. CASE AuthorizeFails(h) \/ Claim(h) \/ Call(h) \/ WriteFails(h)
    BY <2>6, EndsGood, ClaimGood, CallGood
  <2>7. QED
    BY <2>1, <2>2, <2>3, <2>4, <2>5, <2>6 DEF Handler
<1>2. QED
  BY <1>1, ChainGood, FaultGood DEF Next

-------------------------------------------------------------------------------
(* What a step of a handler may do to its own state and to the files *)

\* It goes to pc without a new answer.
Moved(h, pc) ==
  /\ job[h].pc # "idle" /\ job'[h].pc = pc /\ job'[h].answer = "none"
  /\ job'[h].payment = job[h].payment /\ job'[h].receipt = job[h].receipt

MovesTo(h, pc) ==
  CASE pc = "owning"     -> job[h].pc = "claiming"
    [] pc = "naming"     -> job[h].pc = "owning"
    [] pc = "settling"   -> job[h].pc = "naming" \/ job[h].payment \in Facilitated
    [] pc = "finalizing" -> job[h].pc = "answered" /\ job[h].answer = "confirmed"
    [] OTHER             -> pc \notin {"idle", "judged", "answered"}

JobShape(h) ==
  \/ UNCHANGED job
  \/ job'[h].pc = "idle"
  \/ job'[h].pc = "authorizing" /\ job'[h].receipt = None
  \/ /\ job'[h].pc \in {"verifying", "unidentified"}
     /\ job'[h].payment \in Payments
     /\ job'[h].receipt = attempts[job'[h].payment].receipt
  \/ \E pc \in Pcs : Moved(h, pc) /\ MovesTo(h, pc)
  \/ /\ job'[h].pc = "binding" /\ job'[h].payment = job[h].payment
     /\ job'[h].payment \in Payments /\ job'[h].receipt = AnchoredFor(job[h].payment)
  \/ /\ job'[h].pc = IF job[h].pc = "settling" THEN "judged" ELSE "answered"
     /\ job[h].pc \in {"settling", "verifying"}
     /\ job'[h].payment = job[h].payment /\ job'[h].receipt = job[h].receipt
     /\ job[h].payment \notin Facilitated \/ job[h].pc = "verifying"
          => job'[h].answer \in {Verdict(TxOf[job[h].payment]), "unavailable"}

StatusMoves ==
  {<<"absent", "torn">>, <<"torn", "settling">>, <<"settling", "settled">>,
   <<"settling", "failed">>, <<"settling", "indeterminate">>}

FileMoves(h, q) ==
  /\ q = job[h].payment
  /\ <<attempts[q].status, attempts'[q].status>> \in StatusMoves
  /\ attempts'[q].status = "settling" => job[h].pc = "claiming"
  /\ attempts'[q].status = "failed" => job[h].pc \in {"owning", "judged"}
  /\ attempts'[q].status \in {"settled", "indeterminate"} => job[h].pc = "judged"
  /\ attempts'[q].status = "settled" => job[h].answer \in {"confirmed", "pending"}

FileShape(h) ==
  \A q \in Payments :
    /\ Says(q) \/ FileMoves(h, q)
    /\ \/ attempts'[q].receipt \in {attempts[q].receipt, None}
       \/ job[h].pc # "idle" /\ q = job[h].payment /\ attempts'[q].receipt = job[h].receipt

LEMMA SameShape ==
  ASSUME NEW h \in Handlers, UNCHANGED attempts
  PROVE  FileShape(h)
BY DEF FileShape, Says

LEMMA RecordShape ==
  ASSUME TypeOK, NEW h \in Handlers, NEW p \in Payments, NEW b \in Attempt, Update(p, b),
         b.status = attempts[p].status, b.url = attempts[p].url,
         \/ b.receipt = attempts[p].receipt
         \/ job[h].pc # "idle" /\ p = job[h].payment /\ b.receipt = job[h].receipt
  PROVE  FileShape(h)
BY UpdateFile DEF FileShape, Says

LEMMA MoveShape ==
  ASSUME TypeOK, NEW h \in Handlers, job[h].payment \in Payments, NEW b \in Attempt,
         Update(job[h].payment, b),
         <<attempts[job[h].payment].status, b.status>> \in StatusMoves,
         b.status = "settling" => job[h].pc = "claiming",
         b.status = "failed" => job[h].pc \in {"owning", "judged"},
         b.status \in {"settled", "indeterminate"} => job[h].pc = "judged",
         b.status = "settled" => job[h].answer \in {"confirmed", "pending"},
         b.receipt \in {attempts[job[h].payment].receipt, None}
  PROVE  FileShape(h)
BY UpdateFile DEF FileShape, Says, FileMoves

LEMMA DoneShape ==
  ASSUME TypeOK, NEW h \in Handlers, Done(h)
  PROVE  Others(h) /\ JobShape(h)
BY DoneJob DEF Others, JobShape, Idle

LEMMA GotoShape ==
  ASSUME TypeOK, NEW h \in Handlers, job[h].pc # "idle", NEW pc \in Pcs, Goto(h, pc),
         MovesTo(h, pc)
  PROVE  Others(h) /\ JobShape(h)
BY GotoJob DEF Others, JobShape, Moved

Shaped(h) == Others(h) /\ JobShape(h) /\ FileShape(h)

LEMMA PlainPcs ==
  \A h, pc : pc \in {"claiming", "anchoring", "binding", "verifying", "challenging",
                     "responding"} => pc \in Pcs /\ MovesTo(h, pc)
BY DEF Pcs, Held, Await, MovesTo

LEMMA NewShaped ==
  ASSUME IInv, NEW h \in Handlers,
         \/ \E p \in Payments, u \in Urls : Request(h, p, u)
         \/ \E p \in Payments : Poll(h, p)
         \/ AuthorizeFails(h) \/ OwnerUnreadable(h) \/ WriteFails(h) \/ Claim(h)
  PROVE  Shaped(h)
<1>0. TypeOK
  BY DEF IInv
<1>1. CASE \E p \in Payments, u \in Urls : Request(h, p, u)
  <2>1. PICK p \in Payments, u \in Urls : Request(h, p, u)
    BY <1>1
  <2>2. CASE UNCHANGED job
    BY <2>1, <2>2, SameShape DEF Shaped, Others, JobShape, Request
  <2>3. CASE job' = [job EXCEPT ![h] = [Idle EXCEPT !.pc = "authorizing", !.asked = TRUE,
                                          !.payment = p, !.url = u]]
    BY <1>0, <2>1, <2>3, SameShape DEF Shaped, Others, JobShape, Request, Idle, TypeOK
  <2>4. QED
    BY <2>1, <2>2, <2>3 DEF Request
<1>2. CASE \E p \in Payments : Poll(h, p)
  <2>1. PICK p \in Payments : Poll(h, p)
    BY <1>2
  <2> DEFINE j == [Idle EXCEPT
                    !.pc = IF attempts[p].reply = "noTx" THEN "unidentified" ELSE "verifying",
                    !.payment = p, !.reply = attempts[p].reply,
                    !.receipt = attempts[p].receipt]
  <2>2. /\ j.pc \in {"verifying", "unidentified"} /\ j.payment = p
        /\ j.receipt = attempts[p].receipt
    BY DEF Idle
  <2>3. job'[h] = j /\ Others(h) /\ FileShape(h)
    BY <1>0, <2>1, SameShape DEF Poll, TypeOK, Others
  <2>4. QED
    BY <2>2, <2>3 DEF Shaped, JobShape
<1>3. CASE AuthorizeFails(h) \/ OwnerUnreadable(h) \/ WriteFails(h)
  BY <1>0, <1>3, SameShape, DoneShape DEF Shaped, AuthorizeFails, OwnerUnreadable, WriteFails
<1>4. CASE Claim(h)
  <2> DEFINE p == job[h].payment
  <2>1. CASE Done(h) /\ UNCHANGED attempts
    BY <1>0, <2>1, SameShape, DoneShape DEF Shaped
  <2>2. CASE attempts[p].status = "absent" /\ Update(p, TornAttempt) /\ Goto(h, "claiming")
    <3>1. job[h].pc = "authorizing" /\ p \in Payments
      BY <1>4 DEF Claim, IInv, JInv, JobFits
    <3>2. /\ TornAttempt \in Attempt /\ TornAttempt.status = "torn"
          /\ TornAttempt.receipt = None
          /\ <<"absent", "torn">> \in StatusMoves
      BY AttemptTypes, AttemptFields DEF StatusMoves
    <3>3. FileShape(h)
      BY <1>0, <2>2, <3>1, <3>2, MoveShape
    <3>4. QED
      BY <1>0, <2>2, <3>1, <3>3, GotoShape, PlainPcs DEF Shaped
  <2>3. QED
    BY <1>4, <2>1, <2>2 DEF Claim
<1>5. QED
  BY <1>1, <1>2, <1>3, <1>4

LEMMA PaidShaped ==
  ASSUME IInv, NEW h \in Handlers,
         \/ ClaimSynced(h) \/ CreateOwner(h) \/ NameOwner(h) \/ RefuseUsed(h)
         \/ SettleSucceeds(h) \/ SettleRejected(h) \/ SettleUnknown(h)
  PROVE  Shaped(h)
<1> DEFINE p == job[h].payment
           a == attempts[p]
<1>1. job[h].pc \in {"claiming"} \cup Deciding /\ job[h].pc \notin {"idle", "authorizing"}
  BY DEF ClaimSynced, CreateOwner, NameOwner, RefuseUsed, SettleSucceeds, SettleRejected,
         SettleUnknown, Deciding
<1>2. /\ TypeOK /\ JobFits(h) /\ p \in Payments /\ a \in Attempt /\ job[h].reply \in Reply
      /\ job[h].asked /\ job[h].url \in Urls
  BY <1>1, HeldFacts, PcCases DEF JobFits
<1>3. CASE ClaimSynced(h)
  <2> DEFINE b == NewAttempt(job[h].url)
             pc == IF p \in Facilitated THEN "settling" ELSE "owning"
  <2>1. /\ b \in Attempt /\ b.status = "settling" /\ b.receipt = None /\ a.status = "torn"
        /\ <<"torn", "settling">> \in StatusMoves /\ Update(p, b) /\ Goto(h, pc)
    BY <1>2, <1>3, AttemptTypes, AttemptFields DEF StatusMoves, ClaimSynced, JobFits
  <2>2. FileShape(h)
    BY <1>2, <1>3, <2>1, MoveShape DEF ClaimSynced
  <2>3. pc \in Pcs /\ MovesTo(h, pc)
    BY <1>3 DEF ClaimSynced, Pcs, Held, Await, MovesTo
  <2>4. QED
    BY <1>1, <1>2, <2>1, <2>2, <2>3, GotoShape DEF Shaped
<1>4. CASE CreateOwner(h)
  <2>1. "naming" \in Pcs /\ MovesTo(h, "naming") /\ Goto(h, "naming") /\ UNCHANGED attempts
    BY <1>4 DEF CreateOwner, Pcs, Held, MovesTo
  <2>2. QED
    BY <1>1, <1>2, <2>1, GotoShape, SameShape DEF Shaped
<1>5. CASE NameOwner(h)
  <2>1. "settling" \in Pcs /\ MovesTo(h, "settling") /\ Goto(h, "settling")
        /\ UNCHANGED attempts
    BY <1>5 DEF NameOwner, Pcs, Await, MovesTo
  <2>2. QED
    BY <1>1, <1>2, <2>1, GotoShape, SameShape DEF Shaped
<1>6. CASE RefuseUsed(h) \/ SettleRejected(h) \/ SettleUnknown(h)
  <2>1. /\ MarkFailed(a) \in Attempt /\ MarkFailed(a).receipt = a.receipt
        /\ MarkFailed(a).status = "failed"
        /\ MarkIndeterminate(a) \in Attempt /\ MarkIndeterminate(a).receipt = a.receipt
        /\ MarkIndeterminate(a).status = "indeterminate"
    BY <1>2, AttemptTypes, AttemptFields
  <2>2. PICK b \in Attempt :
          /\ Update(p, b) /\ Done(h) /\ a.status = "settling" /\ b.receipt = a.receipt
          /\ b.status \in {"failed", "indeterminate"}
          /\ b.status = "indeterminate" => job[h].pc = "judged"
          /\ b.status = "failed" => job[h].pc \in {"owning", "judged"}
    <3>1. Done(h) /\ a.status = "settling"
      BY <1>2, <1>6 DEF RefuseUsed, SettleRejected, SettleUnknown, JobFits, Deciding
    <3>2. CASE RefuseUsed(h) \/ SettleRejected(h)
      <4>1. Update(p, MarkFailed(a)) /\ job[h].pc \in {"owning", "judged"}
        BY <3>2 DEF RefuseUsed, SettleRejected
      <4>2. QED
        BY <2>1, <3>1, <4>1
    <3>3. CASE SettleUnknown(h)
      <4>1. Update(p, MarkIndeterminate(a)) /\ job[h].pc = "judged"
        BY <3>3 DEF SettleUnknown
      <4>2. QED
        BY <2>1, <3>1, <4>1
    <3>4. QED
      BY <1>6, <3>2, <3>3
  <2>3. <<a.status, b.status>> \in StatusMoves
    BY <2>2 DEF StatusMoves
  <2>4. FileShape(h)
    BY <1>2, <2>2, <2>3, MoveShape
  <2>5. QED
    BY <1>2, <2>2, <2>4, DoneShape DEF Shaped
<1>7. CASE SettleSucceeds(h)
  <2> DEFINE b == Settle(a, job[h].reply, None)
  <2>1. /\ Update(p, b) /\ Goto(h, "anchoring") /\ job[h].pc = "judged"
        /\ job[h].answer \in {"confirmed", "pending"} /\ a.status = "settling"
    BY <1>2, <1>7 DEF SettleSucceeds, JobFits, Deciding
  <2>2. b \in Attempt /\ b.status = "settled" /\ b.receipt = None
    BY <1>2, SettleFacts
  <2>3. <<a.status, b.status>> \in StatusMoves
    BY <2>1, <2>2 DEF StatusMoves
  <2>4. FileShape(h)
    BY <1>2, <2>1, <2>2, <2>3, MoveShape
  <2>5. QED
    BY <1>2, <2>1, <2>4, GotoShape, PlainPcs DEF Shaped
<1>8. QED
  BY <1>3, <1>4, <1>5, <1>6, <1>7

LEMMA AfterShape ==
  ASSUME TypeOK, NEW h \in Handlers, job[h].pc # "idle", AfterReconcile(h)
  PROVE  Others(h) /\ JobShape(h)
BY DoneShape, GotoShape, PlainPcs DEF AfterReconcile

LEMMA SettledShaped ==
  ASSUME IInv, NEW h \in Handlers,
         \/ Anchor(h) \/ Bind(h) \/ Respond(h) \/ RecordUnidentified(h)
         \/ ApplyFinality(h) \/ Finalize(h) \/ Challenge(h)
  PROVE  Shaped(h)
<1> DEFINE p == job[h].payment
           a == attempts[p]
<1>1. job[h].pc \in Decided /\ job[h].pc \notin {"idle", "authorizing"}
  BY DEF Anchor, Bind, Respond, RecordUnidentified, ApplyFinality, Finalize, Challenge, Decided
<1>2. /\ TypeOK /\ JobFits(h) /\ p \in Payments /\ a \in Attempt /\ job[h].reply \in Reply
      /\ a.status = "settled" /\ job[h].receipt \in Payments \cup {None}
  BY <1>1, HeldFacts DEF JobFits
<1>3. CASE Anchor(h)
  <2>1. FileShape(h)
    BY <1>3, SameShape DEF Anchor
  <2>2. CASE Goto(h, "binding")
    BY <1>1, <1>2, <2>1, <2>2, GotoShape, PlainPcs DEF Shaped
  <2>3. CASE job' = [job EXCEPT ![h].pc = "binding", ![h].receipt = AnchoredFor(p)]
    <3>1. /\ job'[h].pc = "binding" /\ job'[h].payment = p
          /\ job'[h].receipt = AnchoredFor(p) /\ Others(h)
      BY <1>2, <2>3, JobTypes DEF TypeOK, Job, Others
    <3>2. QED
      BY <1>2, <2>1, <3>1 DEF Shaped, JobShape
  <2>4. QED
    BY <1>3, <2>2, <2>3 DEF Anchor, AnchoredFor
<1>4. CASE Bind(h) \/ Respond(h)
  <2> DEFINE b == Settle(a, job[h].reply, job[h].receipt)
  <2>1. /\ b \in Attempt /\ b.status = "settled" /\ b.url = a.url
        /\ b.receipt = job[h].receipt /\ Update(p, b)
    BY <1>2, <1>4, SettleFacts DEF Bind, Respond
  <2>2. FileShape(h)
    BY <1>1, <1>2, <2>1, RecordShape
  <2>3. Done(h) \/ Goto(h, "responding") \/ Goto(h, "verifying")
    BY <1>4 DEF Bind, Respond
  <2>4. QED
    BY <1>1, <1>2, <2>2, <2>3, DoneShape, GotoShape, PlainPcs DEF Shaped
<1>5. CASE RecordUnidentified(h) \/ ApplyFinality(h)
  <2>1. PICK c \in Check : Update(p, RecordFinality(a, c))
    <3>1. CASE RecordUnidentified(h)
      BY <3>1 DEF RecordUnidentified, Check
    <3>2. CASE ApplyFinality(h)
      <4>1. job[h].answer \in Check
        BY <1>2, <3>2, JobTypes DEF ApplyFinality, JobFits
      <4>2. QED
        BY <3>2, <4>1 DEF ApplyFinality
    <3>3. QED
      BY <1>5, <3>1, <3>2
  <2>2. FileShape(h)
    BY <1>2, <2>1, RecordFacts, RecordShape
  <2>3. CASE AfterReconcile(h)
    BY <1>1, <1>2, <2>2, <2>3, AfterShape DEF Shaped
  <2>4. CASE Goto(h, "challenging")
    BY <1>1, <1>2, <2>2, <2>4, GotoShape, PlainPcs DEF Shaped
  <2>5. CASE Goto(h, "finalizing") /\ job[h].pc = "answered" /\ job[h].answer = "confirmed"
    <3>1. "finalizing" \in Pcs /\ MovesTo(h, "finalizing")
      BY <2>5 DEF Pcs, Held, MovesTo
    <3>2. QED
      BY <1>1, <1>2, <2>2, <2>5, <3>1, GotoShape DEF Shaped
  <2>6. QED
    BY <1>5, <2>3, <2>4, <2>5 DEF RecordUnidentified, ApplyFinality
<1>6. CASE Finalize(h) \/ Challenge(h)
  <2>1. (AfterReconcile(h) \/ Done(h)) /\ UNCHANGED attempts
    BY <1>6 DEF Finalize, Challenge
  <2>2. QED
    BY <1>1, <1>2, <2>1, SameShape, AfterShape, DoneShape DEF Shaped
<1>7. QED
  BY <1>3, <1>4, <1>5, <1>6

LEMMA CallShaped ==
  ASSUME IInv, NEW h \in Handlers, Call(h)
  PROVE  Shaped(h)
<1>1. PICK answer \in Check, reply \in Reply :
        /\ Answered(h, answer, reply)
        /\ job[h].payment \notin Facilitated \/ job[h].pc = "verifying"
             => answer \in {Verdict(TxOf[job[h].payment]), "unavailable"}
  BY AnswerCases
<1>2. /\ Others(h) /\ job'[h].answer = answer /\ job'[h].payment = job[h].payment
      /\ job'[h].receipt = job[h].receipt /\ job[h].pc \in {"settling", "verifying"}
      /\ job'[h].pc = IF job[h].pc = "settling" THEN "judged" ELSE "answered"
  BY <1>1, AnswerCases, AnsweredGood
<1>3. FileShape(h)
  BY AnswerCases, SameShape
<1>4. QED
  BY <1>1, <1>2, <1>3 DEF Shaped, JobShape

LEMMA HandlerShaped ==
  ASSUME IInv, NEW h \in Handlers, Handler(h)
  PROVE  Shaped(h)
BY NewShaped, PaidShaped, SettledShaped, CallShaped DEF Handler, Run, Resume

-------------------------------------------------------------------------------
(* Owners *)

LEMMA OwnerTypes ==
  ASSUME TypeOK, NEW t \in Txs
  PROVE  txOwner[t] \in Payments \cup {None, Torn}
BY DEF TypeOK

LEMMA FoundKept ==
  ASSUME NEW h \in Handlers, FileShape(h), NEW q \in Payments, Found(q)
  PROVE  Found(q)'
BY DEF FileShape, Says, FileMoves, StatusMoves, Found

\* A handler goes on and no file of an owner changes.
LEMMA OwnersKept ==
  ASSUME IInv, NEW h \in Handlers, Shaped(h), UNCHANGED txOwner,
         job'[h].pc # "naming",
         job'[h].pc = "settling" => job'[h].payment \in Facilitated \/ job' = job
  PROVE  PInv'
<1>0. TypeOK /\ PInv /\ JInv /\ Others(h) /\ JobShape(h) /\ FileShape(h)
  BY DEF IInv, Shaped
<1>1. OwnerFits'
  <2>1. SUFFICES ASSUME NEW t \in Txs, txOwner'[t] \in Payments
                 PROVE  /\ TxOf[txOwner'[t]] = t /\ txOwner'[t] \notin Facilitated
                        /\ Found(txOwner[t])'
    BY DEF OwnerFits
  <2>2. QED
    BY <1>0, <2>1, FoundKept DEF PInv, OwnerFits
<1>2. ASSUME NEW q \in Payments \ Facilitated,
             attempts'[q].status \in {"settled", "indeterminate"}
      PROVE  txOwner'[TxOf[q]] = q
  <2>1. CASE Says(q)
    BY <1>0, <1>2, <2>1 DEF Says, PInv, OwnsFirst
  <2>2. CASE FileMoves(h, q)
    BY <1>0, <1>2, <2>2 DEF FileMoves, PInv, OwnsFirst
  <2>3. QED
    BY <1>0, <2>1, <2>2 DEF FileShape
<1>3. ASSUME NEW g \in Handlers
      PROVE  /\ job'[g].pc = "owning" => txOwner[TxOf[job'[g].payment]] # job'[g].payment
             /\ job'[g].pc = "naming" => txOwner[TxOf[job'[g].payment]] = Torn
             /\ job'[g].pc \in {"settling", "judged"} /\ job'[g].payment \notin Facilitated
                  => txOwner[TxOf[job'[g].payment]] = job'[g].payment
  <2>1. CASE g # h \/ job' = job
    BY <1>0, <2>1 DEF Others, PInv, OwnsFirst
  <2>2. CASE g = h /\ job' # job
    <3>1. CASE job'[h].pc = "owning"
      <4>1. job[h].pc = "claiming" /\ job'[h].payment = job[h].payment
        BY <1>0, <2>2, <3>1 DEF JobShape, Moved, MovesTo
      <4>2. job[h].payment \in Payments /\ ~Found(job[h].payment)
        BY <1>0, <4>1 DEF JInv, JobFits, Found
      <4>3. txOwner[TxOf[job[h].payment]] # job[h].payment
        BY <1>0, <4>2, ConstantFacts DEF PInv, OwnerFits
      <4>4. QED
        BY <2>2, <3>1, <4>1, <4>3
    <3>2. CASE job'[h].pc = "judged"
      <4>1. job[h].pc = "settling" /\ job'[h].payment = job[h].payment
        BY <1>0, <2>2, <3>2 DEF JobShape, Moved, MovesTo
      <4>2. QED
        BY <1>0, <2>2, <3>2, <4>1 DEF PInv, OwnsFirst
    <3>3. QED
      BY <2>2, <3>1, <3>2
  <2>3. QED
    BY <2>1, <2>2
<1>4. OwnsFirst'
  BY <1>2, <1>3 DEF OwnsFirst
<1>5. QED
  BY <1>1, <1>4 DEF PInv

LEMMA CreatePaid ==
  ASSUME IInv, NEW h \in Handlers, CreateOwner(h)
  PROVE  PInv'
<1> DEFINE p == job[h].payment
           t == TxOf[p]
<1>0. /\ TypeOK /\ PInv /\ JInv /\ job[h].pc = "owning" /\ p \in Payments /\ t \in Txs
      /\ Others(h) /\ UNCHANGED attempts /\ job[h].pc \in Held
  BY HandlerShaped, HeldFacts, ConstantFacts
  DEF IInv, CreateOwner, Shaped, Handler, Run, Held
<1>1. /\ txOwner[t] = None /\ txOwner'[t] = Torn
      /\ \A u \in Txs \ {t} : txOwner'[u] = txOwner[u]
  BY <1>0 DEF CreateOwner, TypeOK
<1>2. job'[h].pc = "naming" /\ job'[h].payment = p
  BY <1>0, GotoJob DEF CreateOwner, Pcs, Held
<1>3. OwnerFits'
  BY <1>0, <1>1, ConstantFacts DEF PInv, OwnerFits, Found
<1>4. \A q \in Payments \ Facilitated :
        attempts'[q].status \in {"settled", "indeterminate"} => txOwner'[TxOf[q]] = q
  BY <1>0, <1>1, ConstantFacts DEF PInv, OwnsFirst
<1>5. ASSUME NEW g \in Handlers \ {h}
      PROVE  /\ job'[g].pc \notin {"owning", "naming"}
             /\ job'[g].pc \in {"settling", "judged"} /\ job'[g].payment \notin Facilitated
                  => txOwner'[TxOf[job'[g].payment]] = job'[g].payment
  <2>1. job'[g] = job[g] /\ job[g].pc \notin Held
    BY <1>0 DEF Others, JInv, OneRun
  <2>2. ASSUME job[g].pc \in {"settling", "judged"}, job[g].payment \notin Facilitated
        PROVE  txOwner'[TxOf[job[g].payment]] = job[g].payment
    <3>1. job[g].payment \in Payments /\ txOwner[TxOf[job[g].payment]] = job[g].payment
      BY <1>0, <2>2 DEF JInv, JobFits, PInv, OwnsFirst
    <3>2. QED
      BY <1>1, <3>1, ConstantFacts
  <2>3. QED
    BY <2>1, <2>2 DEF Held
<1>6. OwnsFirst'
  <2>1. ASSUME NEW g \in Handlers
        PROVE  /\ job'[g].pc = "owning" => txOwner'[TxOf[job'[g].payment]] # job'[g].payment
               /\ job'[g].pc = "naming" => txOwner'[TxOf[job'[g].payment]] = Torn
               /\ job'[g].pc \in {"settling", "judged"} /\ job'[g].payment \notin Facilitated
                    => txOwner'[TxOf[job'[g].payment]] = job'[g].payment
    BY <1>1, <1>2, <1>5
  <2>2. QED
    BY <1>4, <2>1 DEF OwnsFirst
<1>7. QED
  BY <1>3, <1>6 DEF PInv

LEMMA NamePaid ==
  ASSUME IInv, NEW h \in Handlers, NameOwner(h)
  PROVE  PInv'
<1> DEFINE p == job[h].payment
           t == TxOf[p]
<1>0. /\ TypeOK /\ PInv /\ JInv /\ job[h].pc = "naming" /\ p \in Payments /\ t \in Txs
      /\ Others(h) /\ UNCHANGED attempts /\ job[h].pc \in Held
  BY HandlerShaped, HeldFacts, ConstantFacts
  DEF IInv, NameOwner, Shaped, Handler, Run, Held
<1>1. /\ txOwner[t] = Torn /\ txOwner'[t] = p
      /\ \A u \in Txs \ {t} : txOwner'[u] = txOwner[u]
  BY <1>0 DEF NameOwner, TypeOK, PInv, OwnsFirst
<1>2. job'[h].pc = "settling" /\ job'[h].payment = p
  BY <1>0, GotoJob DEF NameOwner, Pcs, Await
<1>3. p \notin Facilitated /\ Found(p)
  BY <1>0 DEF JInv, JobFits, Found, Deciding
<1>4. OwnerFits'
  BY <1>0, <1>1, <1>3, ConstantFacts DEF PInv, OwnerFits, Found
<1>5. \A q \in Payments \ Facilitated :
        attempts'[q].status \in {"settled", "indeterminate"} => txOwner'[TxOf[q]] = q
  BY <1>0, <1>1, ConstantFacts DEF PInv, OwnsFirst
<1>6. ASSUME NEW g \in Handlers \ {h}
      PROVE  /\ job'[g].pc \notin {"owning", "naming"}
             /\ job'[g].pc \in {"settling", "judged"} /\ job'[g].payment \notin Facilitated
                  => txOwner'[TxOf[job'[g].payment]] = job'[g].payment
  <2>1. job'[g] = job[g] /\ job[g].pc \notin Held
    BY <1>0 DEF Others, JInv, OneRun
  <2>2. ASSUME job[g].pc \in {"settling", "judged"}, job[g].payment \notin Facilitated
        PROVE  txOwner'[TxOf[job[g].payment]] = job[g].payment
    <3>1. job[g].payment \in Payments /\ txOwner[TxOf[job[g].payment]] = job[g].payment
      BY <1>0, <2>2 DEF JInv, JobFits, PInv, OwnsFirst
    <3>2. QED
      BY <1>1, <3>1, ConstantFacts
  <2>3. QED
    BY <2>1, <2>2 DEF Held
<1>7. OwnsFirst'
  <2>1. ASSUME NEW g \in Handlers
        PROVE  /\ job'[g].pc = "owning" => txOwner'[TxOf[job'[g].payment]] # job'[g].payment
               /\ job'[g].pc = "naming" => txOwner'[TxOf[job'[g].payment]] = Torn
               /\ job'[g].pc \in {"settling", "judged"} /\ job'[g].payment \notin Facilitated
                    => txOwner'[TxOf[job'[g].payment]] = job'[g].payment
    BY <1>1, <1>2, <1>6
  <2>2. QED
    BY <1>5, <2>1 DEF OwnsFirst
<1>8. QED
  BY <1>4, <1>7 DEF PInv

\* Apart from those two steps.
LEMMA OwnerSteps ==
  ASSUME IInv, NEW h \in Handlers, Handler(h), ~CreateOwner(h), ~NameOwner(h)
  PROVE  /\ UNCHANGED txOwner /\ job'[h].pc # "naming"
         /\ job'[h].pc = "settling" => job'[h].payment \in Facilitated \/ job' = job
<1>0. TypeOK
  BY DEF IInv
<1> USE <1>0
<1>1. CASE \E p \in Payments, u \in Urls : Request(h, p, u)
  <2>1. PICK p \in Payments, u \in Urls : Request(h, p, u)
    BY <1>1
  <2>2. QED
    BY <2>1 DEF Request, Idle, TypeOK
<1>2. CASE \E p \in Payments : Poll(h, p)
  BY <1>2 DEF Poll, Idle, TypeOK
<1>3. CASE \/ AuthorizeFails(h) \/ OwnerUnreadable(h) \/ WriteFails(h) \/ RefuseUsed(h)
           \/ SettleRejected(h) \/ SettleUnknown(h) \/ Respond(h)
  BY <1>3, DoneJob DEF AuthorizeFails, OwnerUnreadable, WriteFails, RefuseUsed,
     SettleRejected, SettleUnknown, Respond, Idle
<1>4. CASE Claim(h) \/ SettleSucceeds(h) \/ Bind(h) \/ ApplyFinality(h)
           \/ RecordUnidentified(h) \/ Finalize(h) \/ Challenge(h)
  <2>1. \/ Done(h)
        \/ \E pc \in {"claiming", "anchoring", "responding", "verifying", "finalizing",
                      "challenging"} : Goto(h, pc)
    BY <1>4 DEF Claim, SettleSucceeds, Bind, ApplyFinality, RecordUnidentified, Finalize,
       Challenge, AfterReconcile
  <2>2. UNCHANGED txOwner
    BY <1>4 DEF Claim, SettleSucceeds, Bind, ApplyFinality, RecordUnidentified, Finalize,
       Challenge
  <2>3. QED
    BY <2>1, <2>2, DoneJob, GotoJob DEF Idle, Pcs, Held, Await
<1>5. CASE ClaimSynced(h)
  <2>1. /\ UNCHANGED txOwner
        /\ \/ job[h].payment \in Facilitated /\ Goto(h, "settling")
           \/ Goto(h, "owning")
    BY <1>5 DEF ClaimSynced
  <2>2. QED
    BY <2>1, GotoJob DEF Pcs, Held, Await
<1>6. CASE Anchor(h)
  BY <1>6, GotoJob DEF Anchor, Pcs, Held, TypeOK, Job
<1>7. CASE Call(h)
  <2>1. job'[h].pc \in {"judged", "answered"}
    BY <1>7, AnswerCases, AnsweredGood
  <2>2. QED
    BY <1>7, <2>1, AnswerCases
<1>8. QED
  BY <1>1, <1>2, <1>3, <1>4, <1>5, <1>6, <1>7 DEF Handler, Run, Resume

\* A step of the chain, a crash or a reset: no attempt and no owner changes.
Outer == Crash \/ Reset \/ \E t \in Txs : ChainAdvances(t)

LEMMA OuterFacts ==
  ASSUME IInv, Outer
  PROVE  /\ UNCHANGED <<attempts, txOwner, served>>
         /\ \A h \in Handlers : job'[h] = job[h] \/ job'[h].pc = "idle"
         /\ \A t \in Txs : Seen(t) => Seen(t)'
         /\ \A t \in Txs : chain[t] = "final" => chain'[t] = "final"
<1>1. CASE Crash
  BY <1>1 DEF Crash, Idle, outside, Seen
<1>2. CASE Reset
  BY <1>2 DEF Reset, outside, Seen
<1>3. CASE \E t \in Txs : ChainAdvances(t)
  BY <1>3 DEF ChainAdvances, Seen, IInv, TypeOK
<1>4. QED
  BY <1>1, <1>2, <1>3 DEF Outer

LEMMA OwnersOuter ==
  ASSUME IInv, Outer
  PROVE  PInv'
BY OuterFacts DEF IInv, PInv, OwnerFits, OwnsFirst, Found

LEMMA PaidKept ==
  ASSUME IInv, Next
  PROVE  PInv'
<1>1. CASE \E h \in Handlers : Handler(h)
  <2>1. PICK h \in Handlers : Handler(h)
    BY <1>1
  <2>2. CASE ~CreateOwner(h) /\ ~NameOwner(h)
    BY <2>1, <2>2, HandlerShaped, OwnerSteps, OwnersKept
  <2>3. QED
    BY <2>2, CreatePaid, NamePaid
<1>2. QED
  BY <1>1, OwnersOuter DEF Next, Outer

-------------------------------------------------------------------------------
(* What is settled, served and confirmed *)

LEMMA ChainKept ==
  ASSUME NEW h \in Handlers, Handler(h)
  PROVE  UNCHANGED chain
BY DEF Handler, Run, Resume, Call, Request, Poll, AuthorizeFails, Claim, ClaimSynced,
   CreateOwner, NameOwner, RefuseUsed, OwnerUnreadable, Anchor, Bind, Respond,
   RecordUnidentified, Finalize, Challenge, SettleSucceeds, SettleRejected, SettleUnknown,
   ApplyFinality, RpcAnswers, FacilitatorAnswers, WriteFails, outside

LEMMA VerdictFacts ==
  ASSUME TypeOK, NEW t \in Txs
  PROVE  /\ Verdict(t) \in {"confirmed", "pending"} => Seen(t)
         /\ Verdict(t) = "confirmed" => chain[t] = "final"
BY DEF TypeOK, Verdict, Seen, ChainState

LEMMA SettledSeenKept ==
  ASSUME IInv, Next
  PROVE  SettledSeen'
<1>0. TypeOK /\ JInv /\ SettledSeen
  BY DEF IInv
<1>1. CASE \E h \in Handlers : Handler(h)
  <2>1. PICK h \in Handlers : Handler(h)
    BY <1>1
  <2>2. Others(h) /\ JobShape(h) /\ FileShape(h) /\ UNCHANGED chain
    BY <2>1, HandlerShaped, ChainKept DEF Shaped
  <2>3. ASSUME NEW g \in Handlers, job'[g].pc = "judged", job'[g].payment \notin Facilitated,
               job'[g].answer \in {"confirmed", "pending"}
        PROVE  Seen(TxOf[job[g].payment])'
    <3>1. CASE job'[g] = job[g]
      BY <1>0, <2>2, <2>3, <3>1 DEF SettledSeen, Seen
    <3>2. CASE job'[g] # job[g]
      <4>1. g = h
        BY <2>2, <3>2 DEF Others
      <4>2. /\ job[h].pc = "settling" /\ job'[h].payment = job[h].payment
            /\ job'[h].answer \in {Verdict(TxOf[job[h].payment]), "unavailable"}
        BY <2>2, <2>3, <3>2, <4>1 DEF JobShape, Moved, MovesTo
      <4>3. TxOf[job[h].payment] \in Txs
        BY <1>0, <4>2, ConstantFacts DEF JInv, JobFits
      <4>4. QED
        BY <1>0, <2>2, <2>3, <4>1, <4>2, <4>3, VerdictFacts DEF Seen
    <3>3. QED
      BY <3>1, <3>2
  <2>4. ASSUME NEW q \in Payments \ Facilitated, attempts'[q].status = "settled"
        PROVE  Seen(TxOf[q])'
    BY <1>0, <2>2, <2>4 DEF FileShape, Says, FileMoves, SettledSeen, Seen
  <2>5. QED
    BY <2>3, <2>4 DEF SettledSeen
<1>2. CASE Outer
  <2>1. ASSUME NEW g \in Handlers, job'[g].pc = "judged"
        PROVE  job'[g] = job[g] /\ TxOf[job[g].payment] \in Txs
    BY <1>0, <1>2, <2>1, OuterFacts, ConstantFacts DEF JInv, JobFits
  <2>2. QED
    BY <1>0, <1>2, <2>1, OuterFacts, ConstantFacts DEF SettledSeen
<1>3. QED
  BY <1>1, <1>2 DEF Next, Outer

LEMMA SettledKept ==
  ASSUME NEW h \in Handlers, FileShape(h), NEW q \in Payments, attempts[q].status = "settled"
  PROVE  attempts'[q].status = "settled" /\ attempts'[q].url = attempts[q].url
BY DEF FileShape, Says, FileMoves, StatusMoves

\* A report goes out for a settled payment, to the request it is bound to.
Delivers(q, u) ==
  /\ attempts[q].status = "settled" /\ attempts[q].url = u
  /\ served' = served \cup {<<TxOf[q], u>>}

LEMMA ServeCases ==
  ASSUME IInv, NEW h \in Handlers, Handler(h)
  PROVE  served' = served \/ \E q \in Payments, u \in Urls : Delivers(q, u)
<1>0. TypeOK
  BY DEF IInv
<1>1. CASE \E p \in Payments, u \in Urls : Request(h, p, u)
  BY <1>1 DEF Request, ServeFor, Delivers
<1>2. CASE Claim(h) \/ RefuseUsed(h)
  <2>1. job[h].payment \in Payments /\ job[h].url \in Urls
    <3>1. job[h].pc \in {"authorizing", "owning"}
      BY <1>2 DEF Claim, RefuseUsed
    <3>2. QED
      BY <3>1 DEF IInv, JInv, JobFits, Paying
  <2>2. served' = served \/ \E q \in Payments : ServeFor(q, job[h].url)
    BY <1>2, <2>1 DEF Claim, RefuseUsed
  <2>3. QED
    BY <2>1, <2>2 DEF ServeFor, Delivers
<1>3. CASE Respond(h)
  <2>1. job[h].pc = "responding" /\ job[h].pc \notin {"idle", "authorizing"}
    BY <1>3 DEF Respond
  <2>2. /\ job[h].payment \in Payments /\ job[h].url \in Urls
        /\ attempts[job[h].payment].status = "settled"
        /\ attempts[job[h].payment].url = job[h].url
    BY <2>1, HeldFacts DEF JobFits, Paying, Decided
  <2>3. QED
    BY <1>3, <2>2 DEF Respond, Delivers
<1>4. CASE ~Claim(h) /\ ~RefuseUsed(h) /\ ~Respond(h)
           /\ ~\E p \in Payments, u \in Urls : Request(h, p, u)
  BY <1>4 DEF Handler, Run, Resume, Call, Poll, AuthorizeFails, ClaimSynced,
     CreateOwner, NameOwner, OwnerUnreadable, Anchor, Bind, RecordUnidentified, Finalize,
     Challenge, SettleSucceeds, SettleRejected, SettleUnknown, ApplyFinality, RpcAnswers,
     FacilitatorAnswers, WriteFails
<1>5. QED
  BY <1>1, <1>2, <1>3, <1>4

LEMMA ServedSettledKept ==
  ASSUME IInv, Next
  PROVE  ServedSettled'
<1>1. CASE \E h \in Handlers : Handler(h)
  <2>1. PICK h \in Handlers : Handler(h)
    BY <1>1
  <2>2. FileShape(h)
    BY <2>1, HandlerShaped DEF Shaped
  <2>3. ASSUME NEW x \in served'
        PROVE  \E p \in Payments : TxOf[p] = x[1] /\ attempts'[p].status = "settled"
    <3>1. CASE x \in served
      <4>1. PICK p \in Payments : TxOf[p] = x[1] /\ attempts[p].status = "settled"
        BY <3>1 DEF IInv, ServedSettled
      <4>2. QED
        BY <2>2, <4>1, SettledKept
    <3>2. CASE x \notin served
      <4>1. PICK q \in Payments, u \in Urls : Delivers(q, u)
        BY <2>1, <2>3, <3>2, ServeCases
      <4>2. x = <<TxOf[q], u>> /\ attempts[q].status = "settled"
        BY <2>3, <3>2, <4>1 DEF Delivers
      <4>3. QED
        BY <2>2, <4>2, SettledKept
    <3>3. QED
      BY <3>1, <3>2
  <2>4. QED
    BY <2>3 DEF ServedSettled
<1>2. CASE Outer
  BY <1>2, OuterFacts DEF IInv, ServedSettled
<1>3. QED
  BY <1>1, <1>2 DEF Next, Outer

LEMMA ReceiptFitsKept ==
  ASSUME IInv, Next
  PROVE  ReceiptFits'
<1>0. TypeOK /\ JInv /\ ReceiptFits
  BY DEF IInv
<1>1. CASE \E h \in Handlers : Handler(h)
  <2>1. PICK h \in Handlers : Handler(h)
    BY <1>1
  <2>2. Others(h) /\ JobShape(h) /\ FileShape(h)
    BY <2>1, HandlerShaped DEF Shaped
  <2>3. ASSUME NEW q \in Payments, attempts'[q].receipt # None
        PROVE  TxOf[attempts'[q].receipt] = TxOf[q]
    BY <1>0, <2>2, <2>3 DEF FileShape, ReceiptFits
  <2>4. ASSUME NEW g \in Handlers, job'[g].pc # "idle", job'[g].receipt # None
        PROVE  TxOf[job'[g].receipt] = TxOf[job'[g].payment]
    <3>1. CASE job'[g] = job[g]
      BY <1>0, <2>4, <3>1 DEF ReceiptFits
    <3>2. CASE job'[g] # job[g]
      <4>1. g = h
        BY <2>2, <3>2 DEF Others
      <4>2. CASE job'[h].payment \in Payments
                 /\ job'[h].receipt = attempts[job'[h].payment].receipt
        BY <1>0, <2>4, <4>1, <4>2 DEF ReceiptFits
      <4>3. CASE job'[h].payment = job[h].payment /\ job'[h].payment \in Payments
                 /\ job'[h].receipt = AnchoredFor(job[h].payment)
        BY <4>1, <4>3, AnchoredForFacts
      <4>4. CASE job[h].pc # "idle" /\ job'[h].payment = job[h].payment
                 /\ job'[h].receipt = job[h].receipt
        BY <1>0, <2>4, <4>1, <4>4 DEF ReceiptFits
      <4>5. QED
        BY <2>2, <2>4, <3>2, <4>1, <4>2, <4>3, <4>4 DEF JobShape, Moved
    <3>3. QED
      BY <3>1, <3>2
  <2>5. QED
    BY <2>3, <2>4 DEF ReceiptFits
<1>2. CASE Outer
  BY <1>0, <1>2, OuterFacts DEF ReceiptFits
<1>3. QED
  BY <1>1, <1>2 DEF Next, Outer

LEMMA FinalAnswersKept ==
  ASSUME IInv, Next
  PROVE  FinalAnswers'
<1>0. TypeOK /\ JInv /\ FinalAnswers
  BY DEF IInv
<1>1. CASE \E h \in Handlers : Handler(h)
  <2>1. PICK h \in Handlers : Handler(h)
    BY <1>1
  <2>2. Others(h) /\ JobShape(h) /\ UNCHANGED chain
    BY <2>1, HandlerShaped, ChainKept DEF Shaped
  <2>3. SUFFICES ASSUME NEW g \in Handlers,
                        \/ job'[g].pc = "answered" /\ job'[g].answer = "confirmed"
                        \/ job'[g].pc = "finalizing"
                 PROVE  chain[TxOf[job'[g].payment]] = "final"
    BY <2>2 DEF FinalAnswers
  <2>4. CASE job'[g] = job[g]
    BY <1>0, <2>3, <2>4 DEF FinalAnswers
  <2>5. CASE job'[g] # job[g]
    <3>1. g = h
      BY <2>2, <2>5 DEF Others
    <3>2. CASE job'[h].pc = "answered"
      <4>1. /\ job[h].pc = "verifying" /\ job'[h].payment = job[h].payment
            /\ job'[h].answer \in {Verdict(TxOf[job[h].payment]), "unavailable"}
        BY <2>2, <2>5, <3>1, <3>2 DEF JobShape, Moved, MovesTo
      <4>2. TxOf[job[h].payment] \in Txs
        BY <1>0, <4>1, ConstantFacts DEF JInv, JobFits
      <4>3. QED
        BY <1>0, <2>3, <3>1, <3>2, <4>1, <4>2, VerdictFacts
    <3>3. CASE job'[h].pc = "finalizing"
      <4>1. /\ job[h].pc = "answered" /\ job[h].answer = "confirmed"
            /\ job'[h].payment = job[h].payment
        BY <2>2, <2>5, <3>1, <3>3 DEF JobShape, Moved, MovesTo
      <4>2. QED
        BY <1>0, <3>1, <4>1 DEF FinalAnswers
    <3>4. QED
      BY <2>3, <3>1, <3>2, <3>3
  <2>6. QED
    BY <2>4, <2>5
<1>2. CASE Outer
  <2>1. ASSUME NEW g \in Handlers, job'[g].pc # "idle"
        PROVE  job'[g] = job[g] /\ TxOf[job[g].payment] \in Txs
    BY <1>0, <1>2, <2>1, OuterFacts, ConstantFacts DEF JInv, JobFits
  <2>2. QED
    BY <1>0, <1>2, <2>1, OuterFacts DEF FinalAnswers
<1>3. QED
  BY <1>1, <1>2 DEF Next, Outer

-------------------------------------------------------------------------------
(* Receipts and revenue *)

LEMMA FinalizedCount ==
  ASSUME TypeOK, CountedOnceWhenFinal, NEW r \in Payments, CanFinalize(registry, r),
         chain[TxOf[r]] = "final", UNCHANGED chain,
         registry' = Finalized(registry, r), credits' = CreditedBy(credits, registry, r),
         PersistProof(r, "finalized")
  PROVE  CountedOnceWhenFinal'
<1>1. registry'[r] = "finalized" /\ \A q \in Payments \ {r} : registry'[q] = registry[q]
  BY DEF TypeOK, Finalized
<1>2. \A q \in Payments : proofFile'[q] = proofFile[q] \/ q = r
  BY DEF TypeOK, PersistProof
<1>3. \A q \in Payments : credits'[q] = IF registry'[q] = "finalized" THEN 1 ELSE 0
  <2>1. CASE registry[r] = "anchored"
    <3>1. credits[r] = 0
      BY <2>1 DEF CountedOnceWhenFinal
    <3>2. credits' = [credits EXCEPT ![r] = 1]
      BY <2>1, <3>1 DEF TypeOK, CreditedBy
    <3>3. QED
      BY <1>1, <3>2 DEF TypeOK, CountedOnceWhenFinal
  <2>2. CASE registry[r] # "anchored"
    BY <1>1, <2>2 DEF CanFinalize, CountedOnceWhenFinal, CreditedBy
  <2>3. QED
    BY <2>1, <2>2
<1>4. registry[r] # "none"
  BY DEF CanFinalize
<1>5. \A p, q \in Payments :
        registry'[p] # "none" /\ registry'[q] # "none" /\ TxOf[p] = TxOf[q] => p = q
  BY <1>1, <1>4 DEF CountedOnceWhenFinal
<1>6. QED
  BY <1>1, <1>2, <1>3, <1>5 DEF CountedOnceWhenFinal

LEMMA ChallengedCount ==
  ASSUME TypeOK, CountedOnceWhenFinal, NEW r \in Payments, CanChallenge(registry, r),
         registry' = Challenged(registry, r), UNCHANGED <<credits, chain>>,
         PersistProof(r, registry'[r])
  PROVE  CountedOnceWhenFinal'
<1>1. /\ registry'[r] = IF registry[r] = "finalized" THEN "finalized" ELSE "challenged"
      /\ \A q \in Payments \ {r} : registry'[q] = registry[q]
  BY DEF TypeOK, Challenged
<1>2. \A q \in Payments : proofFile'[q] \in {proofFile[q], registry'[q]}
  BY DEF TypeOK, PersistProof
<1>3. registry[r] # "none"
  BY DEF CanChallenge
<1>4. QED
  BY <1>1, <1>2, <1>3 DEF CountedOnceWhenFinal

LEMMA AnchoredCount ==
  ASSUME TypeOK, CountedOnceWhenFinal, NEW p \in Payments, UNCHANGED <<credits, chain>>,
         registry' = IF AnchoredFor(p) = p /\ registry[p] = "none"
                       THEN Anchored(registry, p) ELSE registry,
         PersistProof(AnchoredFor(p), registry'[AnchoredFor(p)])
  PROVE  CountedOnceWhenFinal'
<1> DEFINE r == AnchoredFor(p)
<1>0. r \in Payments
  BY AnchoredForFacts
<1>1. \A q \in Payments : proofFile'[q] \in {proofFile[q], registry'[q]}
  BY <1>0 DEF TypeOK, PersistProof
<1>2. CASE registry' = registry
  BY <1>1, <1>2 DEF CountedOnceWhenFinal
<1>3. CASE r = p /\ registry[p] = "none" /\ registry' = Anchored(registry, p)
  <2>1. SameTx(registry, p) = {}
    BY <1>3 DEF AnchoredFor, SameTx
  <2>2. registry'[p] = "anchored" /\ \A q \in Payments \ {p} : registry'[q] = registry[q]
    BY <1>3 DEF TypeOK, Anchored
  <2>3. \A q \in Payments : TxOf[q] = TxOf[p] => registry[q] = "none"
    BY <2>1 DEF SameTx
  <2>4. QED
    BY <1>1, <1>3, <2>2, <2>3 DEF CountedOnceWhenFinal
<1>4. QED
  BY <1>2, <1>3

LEMMA CountKept ==
  ASSUME IInv, Next
  PROVE  CountedOnceWhenFinal'
<1>0. TypeOK /\ JInv /\ CountedOnceWhenFinal
  BY DEF IInv
<1>1. CASE \E h \in Handlers : Handler(h)
  <2>1. PICK h \in Handlers : Handler(h)
    BY <1>1
  <2>2. UNCHANGED chain
    BY <2>1, ChainKept
  <2>3. CASE Finalize(h) \/ Challenge(h)
    <3>1. /\ job[h].pc \in {"finalizing", "challenging"}
          /\ job[h].pc \notin {"idle", "authorizing"}
      BY <2>3 DEF Finalize, Challenge
    <3>2. /\ job[h].receipt \in Payments
          /\ TxOf[job[h].receipt] = TxOf[job[h].payment]
      BY <3>1, HeldFacts DEF JobFits, IInv, ReceiptFits
    <3>3. CASE Finalize(h) /\ CanFinalize(registry, job[h].receipt)
      <4>1. chain[TxOf[job[h].payment]] = "final"
        BY <3>3 DEF IInv, FinalAnswers, Finalize
      <4>2. QED
        BY <1>0, <2>2, <3>2, <3>3, <4>1, FinalizedCount DEF Finalize
    <3>4. CASE Challenge(h) /\ CanChallenge(registry, job[h].receipt)
      BY <1>0, <2>2, <3>2, <3>4, ChallengedCount DEF Challenge
    <3>5. CASE UNCHANGED receipts
      BY <1>0, <2>2, <3>5 DEF receipts, CountedOnceWhenFinal
    <3>6. QED
      BY <2>3, <3>3, <3>4, <3>5 DEF Finalize, Challenge, receipts
  <2>4. CASE Anchor(h)
    <3>1. job[h].pc = "anchoring" /\ job[h].pc \notin {"idle", "authorizing"}
      BY <2>4 DEF Anchor
    <3>2. job[h].payment \in Payments
      BY <3>1, HeldFacts
    <3>3. CASE job[h].reply # "full"
      BY <1>0, <2>2, <2>4, <3>3 DEF Anchor, CountedOnceWhenFinal
    <3>4. CASE job[h].reply = "full"
      BY <1>0, <2>2, <2>4, <3>2, <3>4, AnchoredCount DEF Anchor, AnchoredFor
    <3>5. QED
      BY <3>3, <3>4
  <2>5. CASE ~Finalize(h) /\ ~Challenge(h) /\ ~Anchor(h)
    <3>1. UNCHANGED receipts
      BY <2>1, <2>5 DEF Handler, Run, Resume, Call, Request, Poll, AuthorizeFails, Claim,
         ClaimSynced, CreateOwner, NameOwner, RefuseUsed, OwnerUnreadable, Bind, Respond,
         RecordUnidentified, SettleSucceeds, SettleRejected, SettleUnknown, ApplyFinality,
         RpcAnswers, FacilitatorAnswers, WriteFails
    <3>2. QED
      BY <1>0, <2>2, <3>1 DEF receipts, CountedOnceWhenFinal
  <2>6. QED
    BY <2>3, <2>4, <2>5
<1>2. CASE Crash
  <2>1. PICK S \in SUBSET Payments :
          /\ Restorable(proofFile, S) /\ registry' = Restored(proofFile, S)
          /\ credits' = RestoredCredits(proofFile, S)
    BY <1>2 DEF Crash
  <2>2. \A p \in Payments :
          /\ registry'[p] = IF p \in S THEN proofFile[p] ELSE "none"
          /\ credits'[p] = IF p \in S /\ proofFile[p] = "finalized" THEN 1 ELSE 0
    BY <2>1 DEF Restored, RestoredCredits
  <2>3. \A p, q \in S : TxOf[p] = TxOf[q] => p = q
    BY <2>1 DEF Restorable
  <2>4. UNCHANGED <<proofFile, chain>>
    BY <1>2 DEF Crash, outside
  <2>5. QED
    BY <1>0, <2>2, <2>3, <2>4 DEF CountedOnceWhenFinal
<1>3. CASE Reset
  <2>1. \A p \in Payments : registry'[p] = "none" /\ credits'[p] = 0
    BY <1>3 DEF Reset, NoReceipts, NoCredits
  <2>2. UNCHANGED <<proofFile, chain>>
    BY <1>3 DEF Reset, outside
  <2>3. QED
    BY <1>0, <2>1, <2>2 DEF CountedOnceWhenFinal
<1>4. CASE \E t \in Txs : ChainAdvances(t)
  <2>1. UNCHANGED receipts
    BY <1>4 DEF ChainAdvances
  <2>2. \A p \in Payments : chain[TxOf[p]] = "final" => chain'[TxOf[p]] = "final"
    BY <1>4, OuterFacts, ConstantFacts DEF Outer
  <2>3. QED
    BY <1>0, <2>1, <2>2 DEF receipts, CountedOnceWhenFinal
<1>5. QED
  BY <1>1, <1>2, <1>3, <1>4 DEF Next

-------------------------------------------------------------------------------
(* The invariant *)

LEMMA InitInv == Init => IInv
<1> SUFFICES ASSUME Init PROVE IInv
  OBVIOUS
<1>1. Idle \in Job /\ NoAttempt \in Attempt
  BY DEF Idle, Job, Reply, Check, NoAttempt, Attempt, Status, Finality
<1>2. TypeOK
  BY <1>1 DEF Init, TypeOK, NoReceipts, NoCredits, ReceiptStatus, ChainState
<1>3. \A h \in Handlers : job[h].pc = "idle" /\ ~job[h].asked
  BY DEF Init, Idle
<1>4. JInv
  BY <1>3 DEF JInv, OneRun, JobFits, OneClaim, Claimed, Held, Paying, Deciding, Decided
<1>5. \A p \in Payments : attempts[p].status = "absent" /\ attempts[p].receipt = None
  BY DEF Init, NoAttempt
<1>6. PInv
  BY <1>3, <1>5, ConstantFacts DEF Init, PInv, OwnerFits, OwnsFirst
<1>7. SettledSeen /\ ServedSettled /\ ReceiptFits /\ FinalAnswers
  BY <1>3, <1>5 DEF Init, SettledSeen, ServedSettled, ReceiptFits, FinalAnswers
<1>8. CountedOnceWhenFinal
  BY DEF Init, CountedOnceWhenFinal, NoReceipts, NoCredits
<1>9. QED
  BY <1>2, <1>4, <1>6, <1>7, <1>8 DEF IInv

LEMMA Stutters ==
  ASSUME IInv, UNCHANGED vars
  PROVE  IInv'
BY DEF vars, IInv, TypeOK, JInv, OneRun, JobFits, OneClaim, Claimed, PInv, OwnerFits,
   OwnsFirst, Found, SettledSeen, Seen, ServedSettled, ReceiptFits, FinalAnswers,
   CountedOnceWhenFinal

LEMMA NextInv == IInv /\ [Next]_vars => IInv'
<1>1. ASSUME IInv, Next
      PROVE  IInv'
  BY <1>1, NextGood, PaidKept, SettledSeenKept, ServedSettledKept, ReceiptFitsKept,
     FinalAnswersKept, CountKept DEF IInv, Good
<1>2. QED
  BY <1>1, Stutters

\* The inductive invariant holds in every reachable state.
THEOREM RpcInvariance == Spec => []IInv
BY InitInv, NextInv, PTL DEF Spec

\* Every reachable state of the paid NEAR and QIE routes is well typed; the one part
\* that is not bookkeeping is that no receipt is credited twice (credits stay in 0..1).
THEOREM RpcTypes == Spec => []TypeOK
<1>1. IInv => TypeOK
  BY DEF IInv
<1>2. QED
  BY <1>1, RpcInvariance, PTL

\* A NEAR report goes out only for a transfer that RPC has seen, whichever of the
\* proofs that encode it was presented (replay, claimTransaction and settle).
THEOREM RpcServedIsPaid == Spec => []ServedIsPaid
<1>1. ASSUME IInv
      PROVE  ServedIsPaid
  <2>1. SUFFICES ASSUME NEW x \in served, NEW q \in Payments \ Facilitated, TxOf[q] = x[1]
                 PROVE  chain[x[1]] \in {"seen", "final"}
    BY DEF ServedIsPaid
  <2>2. PICK p \in Payments : TxOf[p] = x[1] /\ attempts[p].status = "settled"
    BY <1>1 DEF IInv, ServedSettled
  <2>3. p \notin Facilitated
    BY <2>1, <2>2, ConstantFacts
  <2>4. QED
    BY <1>1, <2>2, <2>3 DEF IInv, SettledSeen, Seen
<1>2. QED
  BY <1>1, RpcInvariance, PTL

\* Revenue is counted once per transaction, for its finalized receipt, and only when
\* the transfer is deep enough, whatever polls, restarts and resets do in between
\* (recordFinality, finalizeExternalReceipt, restoreExternalReceiptProofs).
THEOREM RpcCountedOnceWhenFinal == Spec => []CountedOnceWhenFinal
<1>1. IInv => CountedOnceWhenFinal
  BY DEF IInv
<1>2. QED
  BY <1>1, RpcInvariance, PTL

-------------------------------------------------------------------------------
(* One report per transfer *)

\* What the payer's file says is what is promised for the transaction.
Promised ==
  /\ outcome = [t \in Txs |-> outcome[t]] /\ boundTo = [t \in Txs |-> boundTo[t]]
  /\ \A t \in Txs :
       /\ \A p \in Payments : IsPayer(p, t) /\ Found(p) =>
            outcome[t] = OutcomeOf(attempts[p].status) /\ boundTo[t] = attempts[p].url
       /\ (\A p \in Payments : IsPayer(p, t) => ~Found(p)) =>
            outcome[t] = "open" /\ boundTo[t] = None

LEMMA OnePayer ==
  ASSUME NEW t \in Txs, NEW p \in Payments, NEW q \in Payments, IsPayer(p, t), IsPayer(q, t)
  PROVE  p = q
BY ConstantFacts DEF IsPayer

LEMMA PromisedMeans == Promised
<1>1. outcome = [t \in Txs |-> outcome[t]] /\ boundTo = [t \in Txs |-> boundTo[t]]
  BY DEF outcome, boundTo
<1>2. ASSUME NEW t \in Txs, NEW p \in Payments, IsPayer(p, t), Found(p)
      PROVE  outcome[t] = OutcomeOf(attempts[p].status) /\ boundTo[t] = attempts[p].url
  <2>1. Payer(t) \in Payments /\ IsPayer(Payer(t), t)
    BY <1>2 DEF Payer
  <2>2. Payer(t) = p
    BY <1>2, <2>1, OnePayer
  <2>3. HasPayer(t)
    BY <1>2 DEF HasPayer
  <2>4. QED
    BY <2>2, <2>3 DEF outcome, boundTo
<1>3. ASSUME NEW t \in Txs, \A p \in Payments : IsPayer(p, t) => ~Found(p)
      PROVE  outcome[t] = "open" /\ boundTo[t] = None
  <2>1. ~HasPayer(t)
    BY <1>3 DEF HasPayer
  <2>2. QED
    BY <2>1 DEF outcome, boundTo
<1>4. QED
  BY <1>1, <1>2, <1>3 DEF Promised

LEMMA PromisedNext == Promised'
BY PromisedMeans, PTL

\* A step that means nothing to the payer of t.
Quiet(t) ==
  \A q \in Payments :
    /\ (TxOf[q] = t /\ (q \in Facilitated \/ txOwner'[t] = q)) <=> IsPayer(q, t)
    /\ IsPayer(q, t) => /\ Found(q)' <=> Found(q)
                        /\ Found(q) => Says(q)

LEMMA QuietFacts ==
  ASSUME NEW t \in Txs, Quiet(t)
  PROVE  outcome'[t] = outcome[t] /\ boundTo'[t] = boundTo[t]
<1>0. Promised /\ Promised'
  BY PromisedMeans, PromisedNext
<1>1. \A q \in Payments : IsPayer(q, t)' <=> IsPayer(q, t)
  BY DEF Quiet, IsPayer
<1>2. CASE \E p \in Payments : IsPayer(p, t) /\ Found(p)
  <2>1. PICK p \in Payments : IsPayer(p, t) /\ Found(p)
    BY <1>2
  <2>2. IsPayer(p, t)' /\ Found(p)' /\ Says(p)
    BY <1>1, <2>1 DEF Quiet
  <2>3. outcome[t] = OutcomeOf(attempts[p].status) /\ boundTo[t] = attempts[p].url
    BY <1>0, <2>1 DEF Promised
  <2>4. outcome'[t] = OutcomeOf(attempts'[p].status) /\ boundTo'[t] = attempts'[p].url
    BY <1>0, <2>2 DEF Promised
  <2>5. QED
    BY <2>2, <2>3, <2>4 DEF Says
<1>3. CASE \A p \in Payments : IsPayer(p, t) => ~Found(p)
  <2>1. \A p \in Payments : IsPayer(p, t)' => ~Found(p)'
    BY <1>1, <1>3 DEF Quiet
  <2>2. outcome[t] = "open" /\ boundTo[t] = None
    BY <1>0, <1>3 DEF Promised
  <2>3. outcome'[t] = "open" /\ boundTo'[t] = None
    BY <1>0, <2>1 DEF Promised
  <2>4. QED
    BY <2>2, <2>3
<1>4. QED
  BY <1>2, <1>3

\* Nothing changes but, perhaps, what was delivered.
LEMMA QuietStep ==
  ASSUME IInv, \A t \in Txs : Quiet(t),
         served' = served \/ \E q \in Payments, u \in Urls : Delivers(q, u)
  PROVE  [Promise!Next]_(Promise!vars)
<1>0. Promised /\ Promised'
  BY PromisedMeans, PromisedNext
<1>1. UNCHANGED <<outcome, boundTo>>
  <2>1. \A t \in Txs : outcome'[t] = outcome[t] /\ boundTo'[t] = boundTo[t]
    BY QuietFacts
  <2>2. QED
    BY <1>0, <2>1 DEF Promised
<1>2. CASE served' = served
  BY <1>1, <1>2 DEF Promise!vars
<1>3. CASE \E q \in Payments, u \in Urls : Delivers(q, u)
  <2>1. PICK q \in Payments, u \in Urls : Delivers(q, u)
    BY <1>3
  <2>2. /\ TxOf[q] \in Txs /\ attempts[q].status = "settled" /\ attempts[q].url = u
        /\ served' = served \cup {<<TxOf[q], u>>}
    BY <2>1, ConstantFacts DEF Delivers
  <2>3. IsPayer(q, TxOf[q]) /\ Found(q)
    BY <2>2 DEF IInv, PInv, OwnsFirst, IsPayer, Found
  <2>4. outcome[TxOf[q]] = "paid" /\ boundTo[TxOf[q]] = u
    BY <1>0, <2>2, <2>3 DEF Promised, OutcomeOf
  <2>5. Promise!Deliver(TxOf[q])
    BY <1>1, <2>2, <2>4 DEF Promise!Deliver
  <2>6. QED
    BY <2>2, <2>5 DEF Promise!Next
<1>4. QED
  BY <1>2, <1>3

\* Only the transaction of p changes, and p is its payer.
LEMMA ChangeStep ==
  ASSUME NEW p \in Payments, IsPayer(p, TxOf[p])', Found(p)',
         \A t \in Txs \ {TxOf[p]} : Quiet(t), UNCHANGED served,
         \/ /\ attempts'[p].status = "settling" /\ attempts'[p].url \in Urls
            /\ \A q \in Payments : IsPayer(q, TxOf[p]) => ~Found(q)
         \/ /\ IsPayer(p, TxOf[p]) /\ attempts[p].status = "settling"
            /\ attempts'[p].status \in {"settled", "failed", "indeterminate"}
            /\ attempts'[p].url = attempts[p].url
  PROVE  [Promise!Next]_(Promise!vars)
<1> DEFINE t == TxOf[p]
           o == OutcomeOf(attempts'[p].status)
           u == attempts'[p].url
<1>0. Promised /\ Promised' /\ t \in Txs
  BY PromisedMeans, PromisedNext, ConstantFacts
<1>1. outcome'[t] = o /\ boundTo'[t] = u
  BY <1>0 DEF Promised
<1>2. \A s \in Txs \ {t} : outcome'[s] = outcome[s] /\ boundTo'[s] = boundTo[s]
  BY QuietFacts
<1>3. /\ outcome' = [outcome EXCEPT ![t] = o]
      /\ boundTo' = [boundTo EXCEPT ![t] = u]
  <2>1. /\ outcome = [s \in Txs |-> outcome[s]] /\ outcome' = [s \in Txs |-> outcome'[s]]
        /\ boundTo = [s \in Txs |-> boundTo[s]] /\ boundTo' = [s \in Txs |-> boundTo'[s]]
    BY <1>0 DEF Promised
  <2>2. QED
    BY <1>0, <1>1, <1>2, <2>1
<1>4. CASE /\ attempts'[p].status = "settling" /\ attempts'[p].url \in Urls
           /\ \A q \in Payments : IsPayer(q, t) => ~Found(q)
  <2>1. outcome[t] = "open" /\ o = "charged"
    BY <1>0, <1>4 DEF Promised, OutcomeOf
  <2>2. Promise!Charge(t, u)
    BY <1>3, <2>1 DEF Promise!Charge
  <2>3. QED
    BY <1>0, <1>4, <2>2 DEF Promise!Next
<1>5. CASE /\ IsPayer(p, t) /\ attempts[p].status = "settling"
           /\ attempts'[p].status \in {"settled", "failed", "indeterminate"}
           /\ attempts'[p].url = attempts[p].url
  <2>1. outcome[t] = "charged" /\ boundTo[t] = attempts[p].url
    BY <1>0, <1>5 DEF Promised, OutcomeOf, Found
  <2>2. o \in {"paid", "refused", "unknown"}
    BY <1>5 DEF OutcomeOf
  <2>3. boundTo' = boundTo
    BY <1>0, <1>3, <1>5, <2>1 DEF Promised
  <2>4. Promise!Resolve(t)
    BY <1>3, <2>1, <2>2, <2>3 DEF Promise!Resolve
  <2>5. QED
    BY <1>0, <2>4 DEF Promise!Next
<1>6. QED
  BY <1>4, <1>5

LEMMA NoServe ==
  ASSUME NEW h \in Handlers, Handler(h), job[h].pc \in {"claiming", "naming", "judged"}
  PROVE  UNCHANGED served
BY DEF Handler, Run, Resume, Call, Request, Poll, AuthorizeFails, Claim, ClaimSynced,
   CreateOwner, NameOwner, RefuseUsed, OwnerUnreadable, Anchor, Bind, Respond,
   RecordUnidentified, Finalize, Challenge, SettleSucceeds, SettleRejected, SettleUnknown,
   ApplyFinality, RpcAnswers, FacilitatorAnswers, WriteFails

\* A proof that pays for nothing, whose file says the same or nothing yet.
Undisturbed(q) ==
  IsPayer(q, TxOf[q]) =>
    Says(q) \/ {attempts[q].status, attempts'[q].status} \subseteq {"absent", "torn"}

LEMMA PromiseHandler ==
  ASSUME IInv, IInv', NEW h \in Handlers, Handler(h)
  PROVE  [Promise!Next]_(Promise!vars)
<1> DEFINE p == job[h].payment
<1>0. /\ TypeOK /\ PInv /\ JInv /\ JobFits(h) /\ Others(h) /\ FileShape(h)
      /\ served' = served \/ \E q \in Payments, u \in Urls : Delivers(q, u)
  BY HandlerShaped, ServeCases DEF IInv, Shaped, JInv
<1>1. CASE NameOwner(h)
  <2>1. /\ job[h].pc = "naming" /\ p \in Payments /\ p \notin Facilitated
        /\ attempts[p].status = "settling" /\ attempts[p].url \in Urls
        /\ txOwner[TxOf[p]] = Torn /\ UNCHANGED <<attempts, served>>
        /\ txOwner' = [txOwner EXCEPT ![TxOf[p]] = p] /\ TxOf[p] \in Txs
    BY <1>0, <1>1, ConstantFacts
    DEF NameOwner, JobFits, Deciding, Paying, PInv, OwnsFirst
  <2>2. txOwner'[TxOf[p]] = p /\ \A t \in Txs \ {TxOf[p]} : txOwner'[t] = txOwner[t]
    BY <1>0, <2>1 DEF TypeOK
  <2>3. \A t \in Txs \ {TxOf[p]} : Quiet(t)
    BY <2>1, <2>2 DEF Quiet, IsPayer, Found, Says
  <2>4. \A q \in Payments : ~IsPayer(q, TxOf[p])
    BY <2>1, ConstantFacts DEF IsPayer
  <2>5. PICK q \in Payments : q = p
    BY <2>1
  <2>6. IsPayer(q, TxOf[q])' /\ Found(q)'
    BY <2>1, <2>2, <2>5 DEF IsPayer, Found
  <2>7. QED
    BY <2>1, <2>3, <2>4, <2>5, <2>6, ChangeStep
<1>2. CASE CreateOwner(h)
  <2>1. /\ job[h].pc = "owning" /\ p \in Payments /\ txOwner[TxOf[p]] = None
        /\ txOwner' = [txOwner EXCEPT ![TxOf[p]] = Torn] /\ UNCHANGED attempts
        /\ TxOf[p] \in Txs
    BY <1>0, <1>2, ConstantFacts DEF CreateOwner, JobFits
  <2>2. txOwner'[TxOf[p]] = Torn /\ \A t \in Txs \ {TxOf[p]} : txOwner'[t] = txOwner[t]
    BY <1>0, <2>1 DEF TypeOK
  <2>3. \A t \in Txs : Quiet(t)
    BY <2>1, <2>2, ConstantFacts DEF Quiet, IsPayer, Found, Says
  <2>4. QED
    BY <1>0, <2>3, QuietStep
<1>3. CASE ~NameOwner(h) /\ ~CreateOwner(h)
  <2>1. UNCHANGED txOwner
    BY <1>3, OwnerSteps
  <2>2. \A q \in Payments, t \in Txs :
          (TxOf[q] = t /\ (q \in Facilitated \/ txOwner'[t] = q)) <=> IsPayer(q, t)
    BY <2>1 DEF IsPayer
  <2>3. \A q \in Payments : Says(q) => (Found(q)' <=> Found(q))
    BY DEF Says, Found
  <2>4. CASE \A q \in Payments : Undisturbed(q)
    <3>1. \A t \in Txs : Quiet(t)
      BY <2>2, <2>3, <2>4 DEF Quiet, IsPayer, Undisturbed, Found
    <3>2. QED
      BY <1>0, <3>1, QuietStep
  <2>5. ASSUME NEW q \in Payments, ~Undisturbed(q)
        PROVE  [Promise!Next]_(Promise!vars)
    <3>0. IsPayer(q, TxOf[q]) /\ ~Says(q) /\ (Found(q) \/ Found(q)')
      BY <2>5 DEF Undisturbed, Found
    <3>1. FileMoves(h, q) /\ q = p /\ TxOf[q] \in Txs
      BY <1>0, <3>0, ConstantFacts DEF FileShape, FileMoves
    <3>2. \A r \in Payments \ {q} : Says(r)
      BY <1>0, <3>1 DEF FileShape, FileMoves
    <3>3. \A t \in Txs \ {TxOf[q]} : Quiet(t)
      BY <2>2, <2>3, <3>2 DEF Quiet, IsPayer
    <3>4. IsPayer(q, TxOf[q])'
      BY <2>1, <3>0, <3>1 DEF IsPayer
    <3>5. CASE attempts'[q].status = "settling"
      <4>1. job[h].pc = "claiming" /\ attempts[q].status = "torn"
        BY <3>1, <3>5 DEF FileMoves, StatusMoves
      <4>2. ClaimSynced(h) \/ attempts' = attempts
        BY <4>1 DEF Handler, Run, Resume, Call, Request, Poll, AuthorizeFails, Claim,
           CreateOwner, NameOwner, RefuseUsed, OwnerUnreadable, Anchor, Bind, Respond,
           RecordUnidentified, Finalize, Challenge, SettleSucceeds, SettleRejected,
           SettleUnknown, ApplyFinality, RpcAnswers, FacilitatorAnswers, WriteFails
      <4>3. attempts'[q] = NewAttempt(job[h].url) /\ job[h].url \in Urls
        <5>1. job[h].url \in Urls
          BY <1>0, <4>1 DEF JobFits, Paying
        <5>2. Update(q, NewAttempt(job[h].url))
          BY <3>1, <3>5, <4>1, <4>2 DEF ClaimSynced
        <5>3. QED
          BY <1>0, <3>1, <5>1, <5>2, UpdateFile, AttemptTypes
      <4>4. attempts'[q].url \in Urls
        BY <4>3, AttemptFields
      <4>5. \A r \in Payments : IsPayer(r, TxOf[q]) => ~Found(r)
        <5>1. ~Found(q)
          BY <4>1 DEF Found
        <5>2. QED
          BY <3>0, <3>1, <5>1, OnePayer
      <4>6. UNCHANGED served /\ Found(q)'
        BY <3>5, <4>1, NoServe DEF Found
      <4>7. QED
        BY <3>1, <3>3, <3>4, <3>5, <4>4, <4>5, <4>6, ChangeStep
    <3>6. CASE attempts'[q].status # "settling"
      <4>1. attempts[q].status = "settling"
            /\ attempts'[q].status \in {"settled", "failed", "indeterminate"}
        BY <3>0, <3>1, <3>6 DEF FileMoves, StatusMoves, Found
      <4>2. job[h].pc = "judged"
        <5>1. job[h].pc # "owning"
          BY <1>0, <3>0, <3>1 DEF JobFits, PInv, OwnsFirst, IsPayer
        <5>2. QED
          BY <3>1, <4>1, <5>1 DEF FileMoves
      <4>3. attempts'[q].url = attempts[q].url
        <5>1. Resume(h) \/ attempts' = attempts
          BY <4>2 DEF Handler, Run, Call, Request, Poll, AuthorizeFails, Claim, ClaimSynced,
             CreateOwner, NameOwner, RefuseUsed, OwnerUnreadable, Anchor, Bind, Respond,
             RecordUnidentified, Finalize, Challenge, RpcAnswers, FacilitatorAnswers,
             WriteFails
        <5>2. \/ \E b \in {MarkFailed(attempts[q]), MarkIndeterminate(attempts[q]),
                           Settle(attempts[q], job[h].reply, None)} : Update(q, b)
          BY <3>1, <4>1, <4>2, <5>1 DEF Resume, SettleSucceeds, SettleRejected,
             SettleUnknown, ApplyFinality
        <5>3. attempts[q] \in Attempt /\ job[h].reply \in Reply
          BY <1>0, <3>1, FileTypes, JobTypes
        <5>4. /\ MarkFailed(attempts[q]) \in Attempt
              /\ MarkFailed(attempts[q]).url = attempts[q].url
              /\ MarkIndeterminate(attempts[q]) \in Attempt
              /\ MarkIndeterminate(attempts[q]).url = attempts[q].url
          BY <5>3, AttemptTypes, AttemptFields
        <5>5. /\ Settle(attempts[q], job[h].reply, None) \in Attempt
              /\ Settle(attempts[q], job[h].reply, None).url = attempts[q].url
          BY <5>3, SettleFacts
        <5>6. QED
          BY <1>0, <5>2, <5>4, <5>5, UpdateFile
      <4>4. UNCHANGED served /\ Found(q)'
        BY <4>1, <4>2, NoServe DEF Found
      <4>5. /\ IsPayer(q, TxOf[q]) /\ attempts[q].status = "settling"
            /\ attempts'[q].status \in {"settled", "failed", "indeterminate"}
            /\ attempts'[q].url = attempts[q].url
        BY <3>0, <4>1, <4>3
      <4>6. QED
        BY <3>3, <3>4, <4>4, <4>5, ChangeStep
    <3>7. QED
      BY <3>5, <3>6
  <2>6. QED
    BY <2>4, <2>5
<1>4. QED
  BY <1>1, <1>2, <1>3

LEMMA PromiseOuter ==
  ASSUME IInv, Outer
  PROVE  [Promise!Next]_(Promise!vars)
<1>1. UNCHANGED <<attempts, txOwner, served>>
  BY OuterFacts
<1>2. \A t \in Txs : Quiet(t)
  BY <1>1 DEF Quiet, IsPayer, Found, Says
<1>3. QED
  BY <1>1, <1>2, QuietStep

LEMMA PromiseStep ==
  ASSUME IInv, IInv', [Next]_vars
  PROVE  [Promise!Next]_(Promise!vars)
<1>1. CASE UNCHANGED vars
  <2>1. UNCHANGED <<attempts, txOwner, served>>
    BY <1>1 DEF vars
  <2>2. \A t \in Txs : Quiet(t)
    BY <2>1 DEF Quiet, IsPayer, Found, Says
  <2>3. QED
    BY <2>1, <2>2, QuietStep
<1>2. CASE Next
  BY <1>2, PromiseHandler, PromiseOuter DEF Next, Outer
<1>3. QED
  BY <1>1, <1>2

LEMMA PromiseInit ==
  ASSUME Init
  PROVE  Promise!Init
<1>1. \A p \in Payments : ~Found(p)
  BY DEF Init, NoAttempt, Found
<1>2. outcome = [t \in Txs |-> "open"] /\ boundTo = [t \in Txs |-> None]
  BY <1>1, PromisedMeans DEF Promised
<1>3. QED
  BY <1>2 DEF Promise!Init, Init

\* However many proofs encode a transfer, however their requests race and whatever
\* crashes in between, a transaction pays for one resource request, its known outcome
\* stays, and the report goes to that request only (claim, claimTransaction, replay).
THEOREM RpcKeepsPromise == Spec => TransferOncePromise
<1>1. Init => Promise!Init
  BY PromiseInit
<1>2. IInv /\ IInv' /\ [Next]_vars => [Promise!Next]_(Promise!vars)
  BY PromiseStep
<1>3. QED
  BY <1>1, <1>2, RpcInvariance, PTL DEF Spec, TransferOncePromise, Promise!Spec

-------------------------------------------------------------------------------
(* Receipts follow attempts *)

Recording == {"anchoring", "binding"}

\* Some handler is about to do this for p.
Working(p, pc) == \E h \in Handlers : job[h].payment = p /\ job[h].pc \in pc

Denied(h) ==
  (job[h].pc = "answered" /\ job[h].answer = "mismatch") \/ job[h].pc = "challenging"

\* Without faults a handler past the outcome carries what its attempt says, and its own
\* receipt from the anchoring on.
JobFollows(h) ==
  LET p == job[h].payment IN
  /\ job[h].receipt \in {None, p}
  /\ job[h].pc \in Decided => attempts[p].reply = job[h].reply
  /\ job[h].pc \in Recording => attempts[p].finality = "open"
  /\ job[h].pc \in Decided \ {"anchoring"} /\ job[h].reply = "full" =>
       job[h].receipt = p /\ registry[p] # "none"
  /\ job[h].pc = "unidentified" => job[h].reply # "full"
  /\ Denied(h) => chain[TxOf[p]] = "wrong"

\* A settlement that is recorded has its receipt, and a check that is recorded has
\* reached the receipt or its handler is about to.
FileFollows(p) ==
  LET a == attempts[p] IN
  /\ a.receipt \in {None, p}
  /\ a.status # "settled" => a.finality = "open"
  /\ a.status = "settled" /\ a.reply = "full" /\ ~Working(p, Recording) =>
       /\ a.receipt = p /\ registry[p] # "none"
       /\ a.finality = "confirmed" => registry[p] = "finalized" \/ Working(p, {"finalizing"})
       /\ a.finality = "mismatch"  => registry[p] = "challenged" \/ Working(p, {"challenging"})

\* Only the owner of a transaction has a receipt; a challenged one was denied for good.
Registered(p) ==
  /\ registry[p] # "none" => p \in Facilitated \/ txOwner[TxOf[p]] = p
  /\ registry[p] = "challenged" => chain[TxOf[p]] = "wrong"

FollowInv ==
  /\ \A h \in Handlers : JobFollows(h)
  /\ \A p \in Payments : FileFollows(p) /\ Registered(p)

RInv == IInv /\ (faults = 0 => FollowInv)

\* A handler that may write has the thread to itself.
LEMMA NobodyRecords ==
  ASSUME IInv, NEW h \in Handlers, job[h].pc \in Held \/ ThreadFree
  PROVE  \A g \in Handlers \ {h} : job[g].pc \notin Recording
BY DEF IInv, JInv, OneRun, ThreadFree, Recording, Held

\* What the other handlers rely on, when one moves.
LEMMA OthersFollow ==
  ASSUME IInv, FollowInv, NEW h \in Handlers, Others(h), UNCHANGED chain,
         attempts' = attempts \/ job[h].pc \in Held \/ ThreadFree,
         \A q \in Payments :
           /\ registry[q] # "none" => registry'[q] # "none"
           /\ attempts[q].status = "settled" => attempts'[q].reply = attempts[q].reply,
         JobFollows(h)'
  PROVE  \A g \in Handlers : JobFollows(g)'
<1> SUFFICES ASSUME NEW g \in Handlers \ {h} PROVE JobFollows(g)'
  OBVIOUS
<1> DEFINE p == job[g].payment
<1>1. job'[g] = job[g] /\ JobFollows(g) /\ JobFits(g)
  BY DEF Others, FollowInv, IInv, JInv
<1>2. job[g].pc \in Decided => p \in Payments /\ attempts[p].status = "settled"
  BY <1>1 DEF JobFits, Decided
<1>3. job[g].pc \in Recording => attempts' = attempts
  BY NobodyRecords
<1>4. Denied(g)' <=> Denied(g)
  BY <1>1 DEF Denied
<1>5. QED
  BY <1>1, <1>2, <1>3, <1>4 DEF JobFollows, Recording, Decided

\* Handlers at work on a payment stay at work, when another one moves.
LEMMA WorkingStays ==
  ASSUME NEW h \in Handlers, Others(h), NEW q, NEW pc,
         ~(job[h].payment = q /\ job[h].pc \in pc)
  PROVE  Working(q, pc) => Working(q, pc)'
BY DEF Working, Others

\* The file and the receipt of q as they were.
LEMMA FileStays ==
  ASSUME FollowInv, NEW h \in Handlers, Others(h), NEW q \in Payments,
         attempts'[q] = attempts[q], registry'[q] = registry[q],
         job[h].payment = q => job[h].pc \notin Recording \cup {"finalizing", "challenging"}
  PROVE  FileFollows(q)'
<1>1. /\ Working(q, Recording) => Working(q, Recording)'
      /\ Working(q, {"finalizing"}) => Working(q, {"finalizing"})'
      /\ Working(q, {"challenging"}) => Working(q, {"challenging"})'
  BY WorkingStays
<1>2. FileFollows(q)
  BY DEF FollowInv
<1>3. QED
  BY <1>1, <1>2 DEF FileFollows

\* An attempt that is not settled yet.
LEMMA FileOpen ==
  ASSUME NEW q \in Payments, attempts'[q].status # "settled", attempts'[q].finality = "open",
         attempts'[q].receipt \in {None, q}
  PROVE  FileFollows(q)'
BY DEF FileFollows

\* A receipt as it was, whose owner and chain stay.
LEMMA RegisteredStays ==
  ASSUME FollowInv, NEW q \in Payments, registry'[q] = registry[q],
         txOwner[TxOf[q]] = q => txOwner'[TxOf[q]] = q,
         chain[TxOf[q]] = "wrong" => chain'[TxOf[q]] = "wrong"
  PROVE  Registered(q)'
<1>1. Registered(q)
  BY DEF FollowInv
<1>2. QED
  BY <1>1 DEF Registered

\* Owners stay.
LEMMA OwnersStay ==
  ASSUME IInv, NEW h \in Handlers, Handler(h), NEW q \in Payments, txOwner[TxOf[q]] = q
  PROVE  txOwner'[TxOf[q]] = q
<1>1. CASE ~CreateOwner(h) /\ ~NameOwner(h)
  BY <1>1, OwnerSteps
<1>2. CASE CreateOwner(h)
  BY <1>2, ConstantFacts DEF CreateOwner, IInv, TypeOK
<1>3. CASE NameOwner(h)
  BY <1>3, ConstantFacts DEF NameOwner, IInv, TypeOK, PInv, OwnsFirst
<1>4. QED
  BY <1>1, <1>2, <1>3

\* New records have no check, and an outcome records none.
LEMMA FieldsOpen ==
  /\ TornAttempt.finality = "open"
  /\ \A u \in Urls : NewAttempt(u).finality = "open"
  /\ \A a \in Attempt : MarkFailed(a).finality = a.finality
                        /\ MarkIndeterminate(a).finality = a.finality
BY DEF TornAttempt, NewAttempt, NoAttempt, MarkFailed, MarkIndeterminate, Attempt

\* The handler that moves, ended ...
LEMMA IdleFollows ==
  ASSUME TypeOK, NEW h \in Handlers, Done(h)
  PROVE  Others(h) /\ JobFollows(h)'
<1>1. job'[h] = Idle /\ Others(h)
  BY DoneJob DEF Others
<1>2. QED
  BY <1>1 DEF Idle, JobFollows, Denied, Decided, Recording

\* ... short of an outcome ...
LEMMA EarlyFollows ==
  ASSUME TypeOK, NEW h \in Handlers, JobFollows(h), NEW pc \in Pcs, pc \notin Decided, Goto(h, pc)
  PROVE  Others(h) /\ JobFollows(h)'
<1>1. /\ Others(h) /\ job'[h].pc = pc /\ job'[h].payment = job[h].payment
      /\ job'[h].receipt = job[h].receipt
  BY GotoJob DEF Others
<1>2. QED
  BY <1>1 DEF JobFollows, Denied, Decided, Recording

\* ... and past it.
LEMMA LateFollows ==
  ASSUME TypeOK, NEW h \in Handlers, NEW pc \in Decided, Goto(h, pc),
         pc \notin Recording \cup {"unidentified"},
         LET p == job[h].payment IN
         /\ job[h].receipt \in {None, p}
         /\ attempts'[p].reply = job[h].reply
         /\ job[h].reply = "full" => job[h].receipt = p /\ registry'[p] # "none"
         /\ pc = "challenging" => chain'[TxOf[p]] = "wrong"
  PROVE  Others(h) /\ JobFollows(h)'
<1>1. pc \in Pcs
  BY PcCases
<1>2. /\ Others(h) /\ job'[h].pc = pc /\ job'[h].payment = job[h].payment
      /\ job'[h].receipt = job[h].receipt /\ job'[h].reply = job[h].reply
      /\ job'[h].answer = "none"
  BY <1>1, GotoJob DEF Others
<1>3. QED
  BY <1>2 DEF JobFollows, Denied

\* A handler that returns from reconciliation.
LEMMA AfterFollows ==
  ASSUME TypeOK, NEW h \in Handlers, AfterReconcile(h),
         LET p == job[h].payment IN
         /\ job[h].receipt \in {None, p}
         /\ attempts'[p].reply = job[h].reply
         /\ job[h].reply = "full" => job[h].receipt = p /\ registry'[p] # "none"
  PROVE  Others(h) /\ JobFollows(h)'
<1>1. "responding" \in Decided /\ "responding" \notin Recording \cup {"unidentified"}
  BY DEF Decided, Recording
<1>2. QED
  BY <1>1, IdleFollows, LateFollows DEF AfterReconcile

\* A step of h concerns one proof at most.
LEMMA FollowStep ==
  ASSUME IInv, FollowInv, NEW h \in Handlers, Handler(h), Others(h), NEW p \in Payments,
         attempts' = attempts \/ job[h].pc \in Held \/ ThreadFree,
         \A q \in Payments \ {p} : attempts'[q] = attempts[q] /\ registry'[q] = registry[q],
         job[h].payment = p \/ job[h].pc \notin Recording \cup {"finalizing", "challenging"},
         registry[p] # "none" => registry'[p] # "none",
         attempts[p].status = "settled" => attempts'[p].reply = attempts[p].reply,
         JobFollows(h)', FileFollows(p)', Registered(p)'
  PROVE  FollowInv'
<1>1. UNCHANGED chain
  BY ChainKept
<1>2. \A g \in Handlers : JobFollows(g)'
  <2>1. \A q \in Payments :
          /\ registry[q] # "none" => registry'[q] # "none"
          /\ attempts[q].status = "settled" => attempts'[q].reply = attempts[q].reply
    OBVIOUS
  <2>2. QED
    BY <1>1, <2>1, OthersFollow
<1>3. ASSUME NEW q \in Payments
      PROVE  FileFollows(q)' /\ Registered(q)'
  <2>1. CASE q = p
    BY <2>1
  <2>2. CASE q # p
    <3>1. attempts'[q] = attempts[q] /\ registry'[q] = registry[q]
      BY <2>2
    <3>2. job[h].payment = q => job[h].pc \notin Recording \cup {"finalizing", "challenging"}
      BY <2>2
    <3>3. FileFollows(q)'
      BY <3>1, <3>2, FileStays
    <3>4. QED
      BY <1>1, <3>1, <3>3, OwnersStay, RegisteredStays
  <2>3. QED
    BY <2>1, <2>2
<1>4. QED
  BY <1>2, <1>3 DEF FollowInv

\* Nothing is written.
LEMMA QuietFollows ==
  ASSUME IInv, FollowInv, NEW h \in Handlers, Handler(h), Others(h),
         UNCHANGED <<attempts, registry>>,
         job[h].pc \notin Recording \cup {"finalizing", "challenging"},
         JobFollows(h)'
  PROVE  FollowInv'
<1>1. UNCHANGED chain
  BY ChainKept
<1>2. \A g \in Handlers : JobFollows(g)'
  BY <1>1, OthersFollow
<1>3. \A q \in Payments : FileFollows(q)' /\ Registered(q)'
  BY <1>1, FileStays, OwnersStay, RegisteredStays
<1>4. QED
  BY <1>2, <1>3 DEF FollowInv

\* A file is written.
LEMMA WrittenFollows ==
  ASSUME IInv, FollowInv, NEW h \in Handlers, Handler(h), Others(h), NEW p \in Payments,
         p = job[h].payment, NEW b \in Attempt, Update(p, b), UNCHANGED registry,
         job[h].pc \in Held \/ ThreadFree,
         attempts[p].status = "settled" => b.reply = attempts[p].reply,
         JobFollows(h)', FileFollows(p)'
  PROVE  FollowInv'
<1>1. attempts'[p] = b /\ \A q \in Payments \ {p} : attempts'[q] = attempts[q]
  BY UpdateFile DEF IInv
<1>2. UNCHANGED chain
  BY ChainKept
<1>3. Registered(p)'
  BY <1>2, OwnersStay, RegisteredStays
<1>4. QED
  BY <1>1, <1>3, FollowStep

\* An attempt that is not settled yet is written.
LEMMA OpenFollows ==
  ASSUME IInv, FollowInv, NEW h \in Handlers, Handler(h), Others(h), NEW p \in Payments,
         p = job[h].payment, NEW b \in Attempt, Update(p, b), UNCHANGED registry,
         job[h].pc \in Held \/ ThreadFree, attempts[p].status # "settled",
         b.status # "settled", b.finality = "open", b.receipt \in {None, p},
         JobFollows(h)'
  PROVE  FollowInv'
<1>1. attempts'[p] = b
  BY UpdateFile DEF IInv
<1>2. FileFollows(p)'
  BY <1>1, FileOpen
<1>3. QED
  BY <1>2, WrittenFollows

\* What the invariant says of the handler that moves.
LEMMA FollowFacts ==
  ASSUME IInv, FollowInv, NEW h \in Handlers
  PROVE  /\ TypeOK /\ JInv /\ JobFits(h) /\ JobFollows(h)
         /\ \A p \in Payments : FileFollows(p) /\ Registered(p)
BY DEF IInv, JInv, FollowInv

LEMMA PollFollows ==
  ASSUME IInv, FollowInv, NEW h \in Handlers, NEW p \in Payments, Poll(h, p)
  PROVE  FollowInv'
<1> DEFINE a == attempts[p]
           j == [Idle EXCEPT !.pc = IF a.reply = "noTx" THEN "unidentified" ELSE "verifying",
                             !.payment = p, !.reply = a.reply, !.receipt = a.receipt]
<1>0. TypeOK /\ FileFollows(p)
  BY FollowFacts
<1>1. /\ job[h].pc = "idle" /\ a.status = "settled" /\ ThreadFree
      /\ UNCHANGED <<attempts, registry, chain>> /\ job' = [job EXCEPT ![h] = j]
  BY DEF Poll, receipts, outside
<1>2. /\ j.pc = IF a.reply = "noTx" THEN "unidentified" ELSE "verifying"
      /\ j.payment = p /\ j.reply = a.reply /\ j.receipt = a.receipt
  BY DEF Idle
<1>3. job'[h] = j /\ Others(h)
  BY <1>0, <1>1 DEF TypeOK, Others
<1> HIDE DEF j
<1>4. ~Working(p, Recording)
  BY <1>1 DEF Working, Recording, ThreadFree, Held
<1>5. JobFollows(h)'
  BY <1>0, <1>1, <1>2, <1>3, <1>4 DEF FileFollows, JobFollows, Denied, Recording
<1>6. Handler(h) /\ job[h].pc \notin Recording \cup {"finalizing", "challenging"}
  BY <1>1 DEF Handler, Recording
<1>7. QED
  BY <1>1, <1>3, <1>5, <1>6, QuietFollows

LEMMA CallFollows ==
  ASSUME IInv, FollowInv, NEW h \in Handlers, Call(h)
  PROVE  FollowInv'
<1>1. PICK answer \in Check, reply \in Reply :
        /\ Answered(h, answer, reply)
        /\ job[h].payment \notin Facilitated \/ job[h].pc = "verifying"
             => answer \in {Verdict(TxOf[job[h].payment]), "unavailable"}
  BY AnswerCases
<1>2. /\ job[h].pc \in {"settling", "verifying"} /\ UNCHANGED <<attempts, registry, chain>>
      /\ job[h].pc = "verifying" => reply = job[h].reply
  <2>1. /\ job[h].pc \in {"settling", "verifying"}
        /\ UNCHANGED <<attempts, registry, chain>>
    BY AnswerCases DEF receipts, outside
  <2>2. CASE job[h].pc = "verifying"
    <3>1. RpcAnswers(h)
      BY <2>2 DEF Call, FacilitatorAnswers
    <3>2. \E x : Answered(h, x, job[h].reply)
      BY <2>2, <3>1 DEF RpcAnswers
    <3>3. job'[h].reply = job[h].reply /\ job'[h].reply = reply
      BY <1>1, <3>2, JobTypes DEF Answered, Job, IInv, TypeOK
    <3>4. QED
      BY <2>1, <3>3
  <2>3. QED
    BY <2>1, <2>2
<1>3. /\ Others(h) /\ job'[h].answer = answer /\ job'[h].payment = job[h].payment
      /\ job'[h].receipt = job[h].receipt
      /\ job'[h].pc = IF job[h].pc = "settling" THEN "judged" ELSE "answered"
  BY <1>1, AnswerCases, AnsweredGood
<1>4. TypeOK /\ JobFollows(h) /\ job[h].payment \in Payments
  BY <1>2, FollowFacts, HeldFacts
<1>5. CASE job[h].pc = "settling"
  <2>1. JobFollows(h)'
    BY <1>2, <1>3, <1>4, <1>5 DEF JobFollows, Denied, Decided, Recording
  <2>2. Handler(h) /\ job[h].pc \notin Recording \cup {"finalizing", "challenging"}
    BY <1>5 DEF Handler, Recording
  <2>3. QED
    BY <1>2, <1>3, <2>1, <2>2, QuietFollows
<1>6. CASE job[h].pc = "verifying"
  <2>1. job'[h].reply = job[h].reply
    BY <1>1, <1>2, <1>4, <1>6, JobTypes DEF Answered, Job, TypeOK
  <2>2. answer = "mismatch" => chain[TxOf[job[h].payment]] = "wrong"
    <3>1. TxOf[job[h].payment] \in Txs
      BY <1>4, ConstantFacts
    <3>2. QED
      BY <1>1, <1>4, <1>6, <3>1 DEF Verdict, TypeOK, ChainState
  <2>3. "verifying" \in Decided \ {"anchoring"}
    BY DEF Decided
  <2>4. JobFollows(h)'
    BY <1>2, <1>3, <1>4, <1>6, <2>1, <2>2, <2>3 DEF JobFollows, Denied, Recording
  <2>5. Handler(h) /\ job[h].pc \notin Recording \cup {"finalizing", "challenging"}
    BY <1>6 DEF Handler, Recording
  <2>6. QED
    BY <1>2, <1>3, <2>4, <2>5, QuietFollows
<1>7. QED
  BY <1>2, <1>5, <1>6

LEMMA NewFollows ==
  ASSUME IInv, FollowInv, NEW h \in Handlers,
         \/ \E p \in Payments, u \in Urls : Request(h, p, u)
         \/ AuthorizeFails(h) \/ OwnerUnreadable(h) \/ CreateOwner(h) \/ NameOwner(h)
         \/ Claim(h)
  PROVE  FollowInv'
<1>1. /\ TypeOK /\ JobFollows(h) /\ Handler(h)
  BY FollowFacts DEF Handler, Run
<1>2. /\ UNCHANGED registry
      /\ job[h].pc \notin Recording \cup {"finalizing", "challenging"}
  BY DEF Request, AuthorizeFails, OwnerUnreadable, CreateOwner, NameOwner, Claim, receipts,
     Recording
<1>3. CASE \E p \in Payments, u \in Urls : Request(h, p, u)
  <2>1. PICK p \in Payments, u \in Urls : Request(h, p, u)
    BY <1>3
  <2>2. CASE UNCHANGED job
    <3>1. UNCHANGED <<attempts, chain>>
      BY <2>1 DEF Request, outside
    <3>2. Others(h) /\ JobFollows(h)'
      BY <1>1, <1>2, <2>2, <3>1 DEF Others, JobFollows, Denied
    <3>3. QED
      BY <1>1, <1>2, <3>1, <3>2, QuietFollows
  <2>3. CASE job' = [job EXCEPT ![h] = [Idle EXCEPT !.pc = "authorizing", !.asked = TRUE,
                                          !.payment = p, !.url = u]]
    <3>1. /\ Others(h) /\ job'[h].pc = "authorizing" /\ job'[h].receipt = None
      BY <1>1, <2>3 DEF Others, Idle, TypeOK
    <3>2. JobFollows(h)'
      BY <3>1 DEF JobFollows, Denied, Decided, Recording
    <3>3. UNCHANGED attempts
      BY <2>1 DEF Request
    <3>4. QED
      BY <1>1, <1>2, <3>1, <3>2, <3>3, QuietFollows
  <2>4. QED
    BY <2>1, <2>2, <2>3 DEF Request
<1>4. CASE \/ AuthorizeFails(h) \/ OwnerUnreadable(h)
           \/ Claim(h) /\ Done(h) /\ UNCHANGED attempts
  <2>1. Done(h) /\ UNCHANGED attempts
    BY <1>4 DEF AuthorizeFails, OwnerUnreadable
  <2>2. QED
    BY <1>1, <1>2, <2>1, IdleFollows, QuietFollows
<1>5. CASE CreateOwner(h) \/ NameOwner(h)
  <2>1. PICK pc \in {"naming", "settling"} : Goto(h, pc) /\ UNCHANGED attempts
    BY <1>5 DEF CreateOwner, NameOwner
  <2>2. pc \in Pcs /\ pc \notin Decided
    BY DEF Pcs, Held, Await, Decided
  <2>3. QED
    BY <1>1, <1>2, <2>1, <2>2, EarlyFollows, QuietFollows
<1>6. CASE Claim(h) /\ ~(Done(h) /\ UNCHANGED attempts)
  <2> DEFINE p == job[h].payment
  <2>1. /\ attempts[p].status = "absent" /\ Update(p, TornAttempt) /\ Goto(h, "claiming")
        /\ ThreadFree /\ job[h].pc = "authorizing"
    BY <1>6 DEF Claim
  <2>2. p \in Payments
    BY <2>1, FollowFacts DEF JobFits
  <2>3. "claiming" \in Pcs /\ "claiming" \notin Decided
    BY DEF Pcs, Held, Decided
  <2>4. JobFollows(h)' /\ Others(h)
    BY <1>1, <2>1, <2>3, EarlyFollows
  <2>5. /\ TornAttempt \in Attempt /\ TornAttempt.status = "torn"
        /\ TornAttempt.receipt = None /\ TornAttempt.finality = "open"
    BY AttemptTypes, AttemptFields, FieldsOpen
  <2>6. attempts[p].status # "settled" /\ TornAttempt.status # "settled"
        /\ (job[h].pc \in Held \/ ThreadFree)
    BY <2>1, <2>5
  <2> HIDE DEF p
  <2>7. QED
    BY <1>1, <1>2, <2>1, <2>2, <2>4, <2>5, <2>6, OpenFollows DEF p
<1>7. QED
  BY <1>3, <1>4, <1>5, <1>6

LEMMA PaidFollows ==
  ASSUME IInv, FollowInv, NEW h \in Handlers,
         ClaimSynced(h) \/ RefuseUsed(h) \/ SettleRejected(h) \/ SettleUnknown(h)
  PROVE  FollowInv'
<1> DEFINE p == job[h].payment
           a == attempts[p]
<1>1. /\ job[h].pc \in {"claiming", "owning", "judged"} /\ UNCHANGED registry
      /\ job[h].pc \in Held \/ ThreadFree
  BY DEF ClaimSynced, RefuseUsed, SettleRejected, SettleUnknown, receipts, Held
<1>2. /\ TypeOK /\ JobFits(h) /\ JobFollows(h) /\ p \in Payments /\ a \in Attempt
      /\ FileFollows(p) /\ Handler(h) /\ job[h].asked /\ job[h].url \in Urls
  <2>1. job[h].pc \notin {"idle", "authorizing"} /\ job[h].pc \in Paying
    BY <1>1 DEF Paying
  <2>2. QED
    BY <2>1, FollowFacts, HeldFacts DEF Handler, Run, Resume, JobFits
<1>3. a.status # "settled"
  BY <1>1, <1>2 DEF JobFits, Deciding
<1>4. CASE ClaimSynced(h)
  <2> DEFINE b == NewAttempt(job[h].url)
             pc == IF p \in Facilitated THEN "settling" ELSE "owning"
  <2>1. /\ b \in Attempt /\ b.status = "settling" /\ b.receipt = None /\ b.finality = "open"
        /\ Update(p, b) /\ Goto(h, pc)
    BY <1>2, <1>4, AttemptTypes, AttemptFields, FieldsOpen DEF ClaimSynced
  <2>2. pc \in Pcs /\ pc \notin Decided
    BY DEF Pcs, Held, Await, Decided
  <2>3. JobFollows(h)' /\ Others(h)
    BY <1>2, <2>1, <2>2, EarlyFollows
  <2>4. QED
    BY <1>1, <1>2, <1>3, <2>1, <2>3, OpenFollows
<1>5. CASE ~ClaimSynced(h)
  <2>1. PICK b \in {MarkFailed(a), MarkIndeterminate(a)} : Update(p, b) /\ Done(h)
    BY <1>5 DEF RefuseUsed, SettleRejected, SettleUnknown
  <2>2. /\ b \in Attempt /\ b.status # "settled" /\ b.receipt = a.receipt
        /\ b.finality = a.finality
    BY <1>2, AttemptTypes, AttemptFields, FieldsOpen
  <2>3. a.finality = "open" /\ a.receipt \in {None, p}
    BY <1>2, <1>3 DEF FileFollows
  <2>4. JobFollows(h)' /\ Others(h)
    BY <1>2, <2>1, IdleFollows
  <2>5. QED
    BY <1>1, <1>2, <1>3, <2>1, <2>2, <2>3, <2>4, OpenFollows
<1>6. QED
  BY <1>4, <1>5

\* Where a handler past the outcome stands.
LEMMA PastFacts ==
  ASSUME IInv, FollowInv, NEW h \in Handlers, job[h].pc \in Decided
  PROVE  LET p == job[h].payment IN
         /\ TypeOK /\ JobFits(h) /\ JobFollows(h) /\ p \in Payments
         /\ FileFollows(p) /\ Registered(p)
         /\ attempts[p] \in Attempt /\ attempts[p].status = "settled"
         /\ attempts[p].reply = job[h].reply /\ job[h].reply \in Reply
         /\ job[h].receipt \in {None, p} /\ job[h].receipt \in Payments \cup {None}
         /\ job[h].reply = "full" /\ job[h].pc # "anchoring" =>
              job[h].receipt = p /\ registry[p] # "none"
<1>1. job[h].pc \notin {"idle", "authorizing"}
  BY DEF Decided
<1>2. QED
  BY <1>1, HeldFacts, FollowFacts DEF JobFits, JobFollows

LEMMA SettleFollows ==
  ASSUME IInv, FollowInv, NEW h \in Handlers, SettleSucceeds(h)
  PROVE  FollowInv'
<1>0. job[h].pc = "judged" /\ job[h].pc \notin {"idle", "authorizing"}
  BY DEF SettleSucceeds
<1>p. PICK p \in Payments : p = job[h].payment
  BY <1>0, HeldFacts
<1> DEFINE a == attempts[p]
           b == Settle(a, job[h].reply, None)
<1>1. /\ job[h].pc = "judged" /\ ThreadFree /\ UNCHANGED registry
      /\ Update(p, b) /\ Goto(h, "anchoring")
  BY <1>p DEF SettleSucceeds, receipts
<1>2. /\ TypeOK /\ JobFits(h) /\ JobFollows(h) /\ p \in Payments /\ a \in Attempt
      /\ FileFollows(p) /\ Handler(h) /\ job[h].reply \in Reply
  BY <1>0, <1>p, FollowFacts, HeldFacts DEF Handler, Resume
<1>3. a.status = "settling" /\ a.finality = "open"
  BY <1>1, <1>2, <1>p DEF JobFits, Deciding, FileFollows
<1>4. /\ b \in Attempt /\ b.status = "settled" /\ b.receipt = None
      /\ b.reply = job[h].reply /\ b.finality = "open"
  <2>1. b.reply = job[h].reply /\ b.finality = a.finality
    BY <1>2 DEF Settle, Attempt
  <2>2. QED
    BY <1>2, <1>3, <2>1, SettleFacts
<1>5. attempts'[p] = b
  BY <1>1, <1>2, <1>4, UpdateFile
<1>6. /\ Others(h) /\ job'[h].pc = "anchoring" /\ job'[h].payment = p
      /\ job'[h].receipt = job[h].receipt /\ job'[h].reply = job[h].reply
  <2>1. "anchoring" \in Pcs
    BY DEF Pcs, Held
  <2>2. QED
    BY <1>1, <1>2, <1>p, <2>1, GotoJob DEF Others
<1> HIDE DEF b
<1>7. JobFollows(h)'
  BY <1>2, <1>4, <1>5, <1>6, <1>p DEF JobFollows, Denied, Recording
<1>8. FileFollows(p)'
  <2>1. Working(p, Recording)'
    BY <1>6 DEF Working, Recording
  <2>2. QED
    BY <1>4, <1>5, <2>1 DEF FileFollows
<1>9. QED
  BY <1>1, <1>2, <1>3, <1>4, <1>6, <1>7, <1>8, <1>p, WrittenFollows

LEMMA BindFollows ==
  ASSUME IInv, FollowInv, NEW h \in Handlers, Bind(h) \/ Respond(h)
  PROVE  FollowInv'
<1>0. job[h].pc \in {"binding", "responding"} /\ job[h].pc \in Decided
  BY DEF Bind, Respond, Decided
<1>p. PICK p \in Payments : p = job[h].payment
  BY <1>0, PastFacts
<1> DEFINE a == attempts[p]
           b == Settle(a, job[h].reply, job[h].receipt)
<1>1. /\ UNCHANGED registry /\ Update(p, b) /\ job[h].pc \in Held /\ Handler(h)
  BY <1>p DEF Bind, Respond, receipts, Held, Handler, Run
<1>2. /\ TypeOK /\ JobFollows(h) /\ p \in Payments /\ FileFollows(p)
      /\ a \in Attempt /\ a.status = "settled" /\ a.reply = job[h].reply
      /\ job[h].reply \in Reply /\ job[h].receipt \in {None, p}
      /\ job[h].receipt \in Payments \cup {None}
      /\ job[h].reply = "full" => job[h].receipt = p /\ registry[p] # "none"
  BY <1>0, <1>p, PastFacts
<1>3. /\ b \in Attempt /\ b.status = "settled" /\ b.receipt = job[h].receipt
      /\ b.reply = a.reply /\ b.finality = a.finality
  <2>1. b.reply = job[h].reply /\ b.finality = a.finality
    BY <1>2 DEF Settle, Attempt
  <2>2. QED
    BY <1>2, <2>1, SettleFacts
<1>4. attempts'[p] = b
  BY <1>1, <1>2, <1>3, UpdateFile
<1> HIDE DEF b
<1>5. JobFollows(h)' /\ Others(h)
  <2>1. CASE Done(h)
    BY <1>2, <2>1, IdleFollows
  <2>2. CASE \E pc \in {"responding", "verifying"} : Goto(h, pc)
    <3>1. PICK pc \in {"responding", "verifying"} : Goto(h, pc)
      BY <2>2
    <3>2. pc \in Decided /\ pc \notin Recording \cup {"unidentified"} /\ pc # "challenging"
      BY DEF Decided, Recording
    <3>3. QED
      BY <1>1, <1>2, <1>3, <1>4, <1>p, <3>1, <3>2, LateFollows
  <2>3. QED
    BY <2>1, <2>2 DEF Bind, Respond
<1>6. FileFollows(p)'
  <2>1. CASE job[h].pc = "binding"
    <3>1. a.finality = "open"
      BY <1>2, <1>p, <2>1 DEF JobFollows, Recording
    <3>2. QED
      BY <1>1, <1>2, <1>3, <1>4, <3>1 DEF FileFollows
  <2>2. CASE job[h].pc = "responding"
    <3>1. /\ Working(p, Recording) => Working(p, Recording)'
          /\ Working(p, {"finalizing"}) => Working(p, {"finalizing"})'
          /\ Working(p, {"challenging"}) => Working(p, {"challenging"})'
      BY <1>5, <2>2, WorkingStays DEF Recording
    <3>2. QED
      BY <1>1, <1>2, <1>3, <1>4, <3>1 DEF FileFollows
  <2>3. QED
    BY <1>0, <2>1, <2>2
<1>7. QED
  BY <1>1, <1>2, <1>3, <1>5, <1>6, <1>p, WrittenFollows

LEMMA ApplyFollows ==
  ASSUME IInv, FollowInv, NEW h \in Handlers, RecordUnidentified(h) \/ ApplyFinality(h)
  PROVE  FollowInv'
<1>0. job[h].pc \in {"unidentified", "answered"} /\ job[h].pc \in Decided
  BY DEF RecordUnidentified, ApplyFinality, Decided
<1>p. PICK p \in Payments : p = job[h].payment
  BY <1>0, PastFacts
<1> DEFINE a == attempts[p]
<1>1. /\ UNCHANGED <<registry, chain>>
      /\ (job[h].pc \in Held \/ ThreadFree) /\ Handler(h)
      /\ job[h].pc \notin Recording \cup {"finalizing", "challenging"}
  BY DEF RecordUnidentified, ApplyFinality, receipts, outside, Held, Handler, Run,
     Resume, Recording
<1>2. /\ TypeOK /\ JobFits(h) /\ JobFollows(h) /\ p \in Payments /\ FileFollows(p)
      /\ a \in Attempt /\ a.status = "settled" /\ a.reply = job[h].reply
      /\ job[h].receipt \in {None, p} /\ p # None
      /\ job[h].reply = "full" => job[h].receipt = p /\ registry[p] # "none"
  BY <1>0, <1>p, PastFacts, ConstantFacts
<1>3. PICK c \in Check : /\ Update(p, RecordFinality(a, c))
                         /\ c = IF job[h].pc = "unidentified" THEN "mismatch"
                                                              ELSE job[h].answer
  <2>1. CASE RecordUnidentified(h)
    BY <1>p, <2>1 DEF RecordUnidentified, Check
  <2>2. CASE ApplyFinality(h)
    <3>1. job[h].answer \in Check /\ job[h].pc = "answered"
      BY <1>2, <2>2, JobTypes DEF ApplyFinality, JobFits
    <3>2. QED
      BY <1>p, <2>2, <3>1 DEF ApplyFinality
  <2>3. QED
    BY <2>1, <2>2
<1> DEFINE b == RecordFinality(a, c)
<1>4. /\ b \in Attempt /\ b.status = "settled" /\ b.receipt = a.receipt
      /\ b.reply = a.reply /\ b.finality = IF c \in Finality THEN c ELSE "open"
  <2>1. b.reply = a.reply /\ b.finality = IF c \in Finality THEN c ELSE "open"
    BY <1>2 DEF RecordFinality, Attempt
  <2>2. QED
    BY <1>2, <2>1, RecordFacts
<1>5. attempts'[p] = b
  BY <1>2, <1>3, <1>4, UpdateFile
<1> HIDE DEF b
<1>6. /\ JobFollows(h)' /\ Others(h)
      /\ job[h].reply = "full" /\ c = "confirmed" => Working(p, {"finalizing"})'
      /\ job[h].reply = "full" /\ c = "mismatch" => Working(p, {"challenging"})'
  <2>1. CASE /\ AfterReconcile(h)
             /\ job[h].reply = "full" => c \notin {"confirmed", "mismatch"}
    BY <1>1, <1>2, <1>4, <1>5, <1>p, <2>1, AfterFollows
  <2>2. CASE /\ job[h].pc = "answered" /\ job[h].answer = c
             /\ \/ Goto(h, "finalizing") /\ c = "confirmed"
                \/ Goto(h, "challenging") /\ c = "mismatch"
    <3>1. PICK pc \in {"finalizing", "challenging"} :
            Goto(h, pc) /\ c = IF pc = "finalizing" THEN "confirmed" ELSE "mismatch"
      BY <2>2
    <3>2. pc \in Decided /\ pc \in Pcs /\ pc \notin Recording \cup {"unidentified"}
      BY DEF Decided, Pcs, Held, Recording
    <3>3. pc = "challenging" => chain[TxOf[p]] = "wrong"
      BY <1>2, <1>p, <2>2, <3>1 DEF JobFollows, Denied
    <3>4. JobFollows(h)' /\ Others(h)
      BY <1>1, <1>2, <1>4, <1>5, <1>p, <3>1, <3>2, <3>3, LateFollows
    <3>5. job'[h].pc = pc /\ job'[h].payment = p
      BY <1>2, <1>p, <3>1, <3>2, GotoJob
    <3>6. QED
      BY <3>1, <3>4, <3>5 DEF Working
  <2>3. QED
    <3>1. CASE RecordUnidentified(h)
      <4>1. job[h].reply # "full" /\ AfterReconcile(h)
        BY <1>2, <3>1 DEF RecordUnidentified, JobFollows
      <4>2. QED
        BY <2>1, <4>1
    <3>2. CASE ApplyFinality(h)
      <4>1. job[h].pc = "answered" /\ job[h].answer = c
        BY <1>3, <3>2 DEF ApplyFinality
      <4>2. QED
        BY <1>2, <2>1, <2>2, <3>2, <4>1 DEF ApplyFinality
    <3>3. QED
      BY <3>1, <3>2
<1>7. FileFollows(p)'
  <2>1. Working(p, Recording) => Working(p, Recording)'
    BY <1>1, <1>6, WorkingStays
  <2>2. b.finality = "confirmed" => c = "confirmed"
    BY <1>4
  <2>3. b.finality = "mismatch" => c = "mismatch"
    BY <1>4
  <2>4. QED
    BY <1>1, <1>2, <1>4, <1>5, <1>6, <2>1, <2>2, <2>3 DEF FileFollows
<1>8. QED
  BY <1>1, <1>2, <1>3, <1>4, <1>6, <1>7, <1>p, WrittenFollows DEF b

\* A settled proof anchors a receipt of its own.
LEMMA OwnReceipt ==
  ASSUME IInv, FollowInv, NEW p \in Payments, attempts[p].status = "settled"
  PROVE  AnchoredFor(p) = p
<1>1. p \in Facilitated \/ txOwner[TxOf[p]] = p
  BY DEF IInv, PInv, OwnsFirst
<1>2. ASSUME NEW q \in SameTx(registry, p)
      PROVE  q = p
  <2>1. q \in Payments /\ registry[q] # "none" /\ TxOf[q] = TxOf[p]
    BY DEF SameTx
  <2>2. q \in Facilitated \/ txOwner[TxOf[q]] = q
    BY <2>1 DEF FollowInv, Registered
  <2>3. QED
    BY <1>1, <2>1, <2>2, ConstantFacts
<1>3. QED
  BY <1>2 DEF AnchoredFor

LEMMA AnchorFollows ==
  ASSUME IInv, FollowInv, NEW h \in Handlers, Anchor(h)
  PROVE  FollowInv'
<1>0. job[h].pc = "anchoring" /\ job[h].pc \in Decided
  BY DEF Anchor, Decided
<1>1. PICK p \in Payments : p = job[h].payment
  BY <1>0, PastFacts
<1>2. /\ TypeOK /\ JobFollows(h) /\ FileFollows(p) /\ Registered(p)
      /\ attempts[p].status = "settled" /\ attempts[p].reply = job[h].reply
      /\ attempts[p].finality = "open" /\ attempts[p].receipt \in {None, p}
      /\ job[h] \in Job /\ job[h].receipt \in {None, p} /\ Handler(h)
  BY <1>0, <1>1, PastFacts, JobTypes DEF JobFollows, FileFollows, Recording, Handler, Run
<1>3. AnchoredFor(p) = p
  BY <1>2, OwnReceipt
<1>4. /\ Others(h) /\ job'[h].pc = "binding" /\ job'[h].payment = p
      /\ job'[h].reply = job[h].reply /\ job'[h].receipt \in {None, p}
      /\ job[h].reply = "full" => job'[h].receipt = p
  <2>1. CASE Goto(h, "binding") /\ job[h].reply # "full"
    <3>1. "binding" \in Pcs
      BY DEF Pcs, Held
    <3>2. QED
      BY <1>1, <1>2, <2>1, <3>1, GotoJob DEF Others
  <2>2. CASE job' = [job EXCEPT ![h].pc = "binding", ![h].receipt = AnchoredFor(job[h].payment)]
    BY <1>1, <1>2, <1>3, <2>2 DEF Others, TypeOK, Job
  <2>3. QED
    BY <2>1, <2>2 DEF Anchor, AnchoredFor
<1>5. /\ UNCHANGED <<attempts, chain>> /\ \A q \in Payments \ {p} : registry'[q] = registry[q]
      /\ registry[p] # "none" => registry'[p] = registry[p]
      /\ registry'[p] \in {registry[p], "anchored"}
      /\ job[h].reply = "full" => registry'[p] # "none"
  <2>1. CASE job[h].reply # "full"
    BY <2>1 DEF Anchor, outside
  <2>2. CASE job[h].reply = "full"
    <3>1. registry' = IF registry[p] = "none" THEN Anchored(registry, p) ELSE registry
      BY <1>1, <1>3, <2>2 DEF Anchor, AnchoredFor
    <3>2. QED
      BY <1>2, <2>2, <3>1 DEF Anchor, outside, Anchored, TypeOK
  <2>3. QED
    BY <2>1, <2>2
<1>6. JobFollows(h)'
  BY <1>2, <1>4, <1>5 DEF JobFollows, Denied, Recording
<1>7. FileFollows(p)'
  <2>1. Working(p, Recording)'
    BY <1>4 DEF Working, Recording
  <2>2. QED
    BY <1>2, <1>5, <2>1 DEF FileFollows
<1>8. Registered(p)'
  <2>1. p \in Facilitated \/ txOwner'[TxOf[p]] = p
    BY <1>2, OwnersStay DEF IInv, PInv, OwnsFirst
  <2>2. registry'[p] = "challenged" => registry[p] = "challenged"
    BY <1>5
  <2>3. QED
    BY <1>2, <1>5, <2>1, <2>2 DEF Registered
<1>9. job[h].payment = p /\ (registry[p] # "none" => registry'[p] # "none")
  BY <1>1, <1>5
<1>10. QED
  BY <1>2, <1>4, <1>5, <1>6, <1>7, <1>8, <1>9, FollowStep

LEMMA FinalFollows ==
  ASSUME IInv, FollowInv, NEW h \in Handlers, Finalize(h) \/ Challenge(h)
  PROVE  FollowInv'
<1>0. job[h].pc \in {"finalizing", "challenging"} /\ job[h].pc \in Decided
  BY DEF Finalize, Challenge, Decided
<1>1. PICK p \in Payments : p = job[h].payment
  BY <1>0, PastFacts
<1>2. /\ TypeOK /\ JInv /\ JobFits(h) /\ JobFollows(h) /\ FileFollows(p) /\ Registered(p)
      /\ attempts[p].status = "settled" /\ attempts[p].reply = job[h].reply
      /\ job[h].receipt = p /\ Handler(h) /\ job[h].pc \in Held
      /\ job[h].reply = "full" => registry[p] # "none"
  <2>1. job[h].receipt # None /\ job[h].pc \in Held /\ Handler(h)
    BY <1>0, PastFacts DEF JobFits, Held, Handler, Run
  <2>2. QED
    BY <1>0, <1>1, <2>1, PastFacts DEF IInv
<1>3. /\ registry[p] = "challenged" => chain[TxOf[p]] = "wrong"
      /\ registry[p] = "finalized" => chain[TxOf[p]] = "final"
      /\ job[h].pc = "finalizing" => chain[TxOf[p]] = "final"
      /\ job[h].pc = "challenging" => chain[TxOf[p]] = "wrong"
  BY <1>1, <1>2 DEF Registered, JobFollows, Denied, IInv, FinalAnswers, CountedOnceWhenFinal
<1>4. /\ UNCHANGED <<attempts, chain>> /\ \A q \in Payments \ {p} : registry'[q] = registry[q]
      /\ registry'[p] = IF registry[p] = "none" THEN "none"
                        ELSE IF job[h].pc = "finalizing" THEN "finalized" ELSE "challenged"
      /\ Done(h) \/ AfterReconcile(h)
  <2>0. registry[p] \in ReceiptStatus /\ registry \in [Payments -> ReceiptStatus]
    BY <1>2 DEF TypeOK
  <2>1. CASE Finalize(h)
    <3>1. job[h].pc = "finalizing"
      BY <2>1 DEF Finalize
    <3>2. CASE registry[p] = "none"
      BY <1>2, <2>1, <3>2 DEF Finalize, CanFinalize, receipts, outside
    <3>3. CASE registry[p] # "none"
      <4>1. CanFinalize(registry, p)
        BY <1>3, <2>0, <3>1, <3>3 DEF CanFinalize, ReceiptStatus
      <4>2. registry' = Finalized(registry, p)
        BY <1>2, <2>1, <4>1 DEF Finalize
      <4>3. QED
        BY <2>0, <2>1, <3>1, <3>3, <4>2 DEF Finalize, Finalized, outside
    <3>4. QED
      BY <3>2, <3>3
  <2>2. CASE Challenge(h)
    <3>1. job[h].pc = "challenging"
      BY <2>2 DEF Challenge
    <3>2. CASE registry[p] = "none"
      BY <1>2, <2>2, <3>2 DEF Challenge, CanChallenge, outside
    <3>3. CASE registry[p] # "none"
      <4>1. registry' = Challenged(registry, p) /\ registry[p] # "finalized"
        BY <1>2, <1>3, <2>2, <3>1, <3>3 DEF Challenge, CanChallenge
      <4>2. QED
        BY <2>0, <2>2, <3>1, <3>3, <4>1 DEF Challenge, Challenged, outside
    <3>4. QED
      BY <3>2, <3>3
  <2>3. QED
    BY <2>1, <2>2
<1>5. JobFollows(h)' /\ Others(h)
  <2>1. CASE Done(h)
    BY <1>2, <2>1, IdleFollows
  <2>2. CASE AfterReconcile(h)
    <3>1. job[h].reply = "full" => registry'[p] # "none"
      BY <1>2, <1>4
    <3>2. QED
      BY <1>1, <1>2, <1>4, <2>2, <3>1, AfterFollows
  <2>3. QED
    BY <1>4, <2>1, <2>2
<1>6. FileFollows(p)'
  <2>1. Working(p, Recording) => Working(p, Recording)'
    BY <1>0, <1>5, WorkingStays DEF Recording
  <2>2. \A g \in Handlers \ {h} : job[g].pc \notin Held
    BY <1>2 DEF JInv, OneRun
  <2>3. /\ Working(p, {"finalizing"}) => job[h].pc = "finalizing"
        /\ Working(p, {"challenging"}) => job[h].pc = "challenging"
    BY <2>2 DEF Working, Held
  <2>4. ASSUME attempts[p].reply = "full", ~Working(p, Recording)
        PROVE  /\ attempts[p].receipt = p /\ registry'[p] # "none"
               /\ attempts[p].finality = "confirmed" => registry'[p] = "finalized"
               /\ attempts[p].finality = "mismatch" => registry'[p] = "challenged"
    <3>1. /\ attempts[p].receipt = p /\ registry[p] # "none"
          /\ attempts[p].finality = "confirmed" =>
               registry[p] = "finalized" \/ job[h].pc = "finalizing"
          /\ attempts[p].finality = "mismatch" =>
               registry[p] = "challenged" \/ job[h].pc = "challenging"
      BY <1>2, <2>3, <2>4 DEF FileFollows
    <3>2. /\ job[h].pc = "finalizing" => chain[TxOf[p]] = "final"
          /\ job[h].pc = "challenging" => chain[TxOf[p]] = "wrong"
          /\ "final" # "wrong"
      BY <1>3
    <3>3. QED
      BY <1>0, <1>3, <1>4, <3>1, <3>2
  <2>5. QED
    BY <1>2, <1>4, <2>1, <2>4 DEF FileFollows
<1>7. Registered(p)'
  <2>1. registry'[p] # "none" => registry[p] # "none"
    BY <1>4
  <2>2. registry'[p] = "challenged" => chain[TxOf[p]] = "wrong"
    BY <1>0, <1>3, <1>4
  <2>3. QED
    BY <1>2, <1>4, <2>1, <2>2, OwnersStay DEF Registered
<1>8. registry[p] # "none" => registry'[p] # "none"
  BY <1>4
<1>9. QED
  BY <1>1, <1>2, <1>4, <1>5, <1>6, <1>7, <1>8, FollowStep

-------------------------------------------------------------------------------

\* Faults are counted, and never forgotten.
LEMMA HandlerFaults ==
  ASSUME IInv, NEW h \in Handlers, Handler(h), faults' = 0
  PROVE  faults = 0
<1>1. faults \in Nat
  BY DEF IInv, TypeOK
<1>2. faults' = faults \/ faults' = faults + 1
  BY DEF Handler, Run, Resume, Call, Request, Poll, AuthorizeFails, Claim, ClaimSynced,
     CreateOwner, NameOwner, RefuseUsed, OwnerUnreadable, Anchor, Bind, Respond,
     RecordUnidentified, Finalize, Challenge, SettleSucceeds, SettleRejected, SettleUnknown,
     ApplyFinality, RpcAnswers, FacilitatorAnswers, WriteFails, PersistProof
<1>3. QED
  BY <1>1, <1>2

LEMMA HandlerFollows ==
  ASSUME IInv, FollowInv, NEW h \in Handlers, Handler(h), faults = 0, faults' = 0
  PROVE  FollowInv'
<1>1. ~WriteFails(h)
  BY DEF WriteFails
<1>2. QED
  BY <1>1, NewFollows, PollFollows, CallFollows, PaidFollows, SettleFollows, BindFollows,
     ApplyFollows, AnchorFollows, FinalFollows DEF Handler, Run, Resume

LEMMA ChainFollows ==
  ASSUME IInv, FollowInv, NEW t \in Txs, ChainAdvances(t)
  PROVE  FollowInv'
<1>1. /\ UNCHANGED <<attempts, txOwner, registry, job>>
      /\ \A s \in Txs : chain[s] = "wrong" => chain'[s] = "wrong"
  BY DEF ChainAdvances, receipts, IInv, TypeOK
<1>2. \A p \in Payments : TxOf[p] \in Txs
  BY ConstantFacts
<1>3. ASSUME NEW h \in Handlers
      PROVE  JobFollows(h)'
  <2>1. JobFollows(h) /\ (Denied(h) => job[h].payment \in Payments)
    BY FollowFacts DEF JobFits, Denied
  <2>2. QED
    BY <1>1, <1>2, <2>1 DEF JobFollows, Denied
<1>4. ASSUME NEW p \in Payments
      PROVE  FileFollows(p)' /\ Registered(p)'
  BY <1>1, <1>2 DEF FollowInv, FileFollows, Working, Registered
<1>5. QED
  BY <1>3, <1>4 DEF FollowInv

LEMMA FollowNext == RInv /\ [Next]_vars => RInv'
<1> SUFFICES ASSUME RInv, [Next]_vars PROVE RInv'
  OBVIOUS
<1>1. IInv /\ IInv' /\ (faults = 0 => FollowInv)
  BY NextInv DEF RInv
<1>2. CASE UNCHANGED vars
  BY <1>1, <1>2 DEF vars, RInv, FollowInv, JobFollows, FileFollows, Registered, Working, Denied
<1>3. CASE Next /\ faults' = 0
  <2>1. CASE \E h \in Handlers : Handler(h)
    <3>1. PICK h \in Handlers : Handler(h)
      BY <2>1
    <3>2. faults = 0
      BY <1>1, <1>3, <3>1, HandlerFaults
    <3>3. QED
      BY <1>1, <1>3, <3>1, <3>2, HandlerFollows DEF RInv
  <2>2. CASE \E t \in Txs : ChainAdvances(t)
    BY <1>1, <1>3, <2>2, ChainFollows DEF RInv, ChainAdvances
  <2>3. CASE Crash \/ Reset
    BY <1>1, <1>3, <2>3 DEF Crash, Reset, IInv, TypeOK
  <2>4. QED
    BY <1>3, <2>1, <2>2, <2>3 DEF Next
<1>4. CASE faults' # 0
  BY <1>1, <1>4 DEF RInv
<1>5. QED
  BY <1>2, <1>3, <1>4

LEMMA FollowInit == Init => RInv
<1> SUFFICES ASSUME Init PROVE RInv
  OBVIOUS
<1>1. IInv
  BY InitInv
<1>2. \A h \in Handlers : job[h] = Idle
  BY DEF Init
<1>3. \A h \in Handlers : JobFollows(h)
  BY <1>2 DEF JobFollows, Idle, Denied, Decided, Recording
<1>4. \A p \in Payments : FileFollows(p) /\ Registered(p)
  BY DEF Init, FileFollows, Registered, NoAttempt, NoReceipts
<1>5. QED
  BY <1>1, <1>3, <1>4 DEF RInv, FollowInv

\* Without faults every settled payment with a payer and a transaction has a receipt of
\* its own, and a recorded confirmation or mismatch has reached it, however polls and
\* the request itself interleave (the three settle() calls, recordFinality, finalize,
\* challenge).
THEOREM RpcReceiptsFollow == Spec => []ReceiptsFollowAttempts
<1>1. RInv => ReceiptsFollowAttempts
  <2> SUFFICES ASSUME RInv, faults = 0, ThreadFree, NEW p \in Payments,
                      attempts[p].status = "settled", attempts[p].reply = "full"
               PROVE  /\ attempts[p].receipt = p
                      /\ attempts[p].finality = "confirmed" => registry[p] = "finalized"
                      /\ attempts[p].finality = "mismatch" => registry[p] = "challenged"
    BY DEF ReceiptsFollowAttempts
  <2>1. FileFollows(p)
    BY DEF RInv, FollowInv
  <2>2. /\ ~Working(p, Recording) /\ ~Working(p, {"finalizing"})
        /\ ~Working(p, {"challenging"})
    BY DEF Working, Recording, ThreadFree, Held
  <2>3. QED
    BY <2>1, <2>2 DEF FileFollows
<1>2. QED
  BY <1>1, FollowInit, FollowNext, PTL DEF Spec
===============================================================================
