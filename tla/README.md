# Cred402: a TLA+ verification project

Cred402 gives software agents credit against revenue they earn over x402
(HTTP 402) payments. This directory models its core protocols, checks them with
TLC on small instances and proves the main results with TLAPS for every
instance. Paths are relative to the repository root.

## 1. The system

| Component | State it keeps | Operations | Interacts with | What is hard | Correctness |
|---|---|---|---|---|---|
| Algorand x402 payments: `api/algorand_x402_routes.ts`, `lib/x402/algorand_payment_attempt_store.ts`, `scripts/algorand_x402_refunds.ts` | one attempt record per payment proof, in memory and in a file | paid request, status poll, reconciliation loop, refund command | facilitator and Indexer (remote), receipt registry | handlers interleave at every `await`; three durable writes per request; crashes, failed writes; a second process writes the same files | a proof is charged once, for one request; what is counted was confirmed; outcomes are acted on |
| External receipts: `external_receipt_registry.ts`, `ledger.ts`, `external_receipt_proof_store.ts`, `api/algorand_receipt_anchor.ts` | live registry, nonces, durable copies, seller revenue | anchor, finalize, challenge, restore | payment paths of every chain; demo reset | copies are written after the fact and failures swallowed; restore order | one live receipt per transaction, revenue once, finality is not taken back |
| NEAR and QIE x402 payments: `api/near_x402_routes.ts`, `api/qie_x402_routes.ts`, their attempt stores | attempt files; NEAR also a file per transaction | paid request, status poll | chain RPC, QIE facilitator, receipt registry | two exclusive creates with a window between, an unreadable owner file, polls racing the request | one transfer pays for one request; reports for real transfers only |
| SpendGuard (`contracts-near/spend_guard`) | exposure book, agents, keys, dispute counts | authorize, spend, repay, top up, freeze | NEAR promises (key, account, transfer) | a promise may fail after the state changed | reserved + outstanding never exceed the cap; a frozen agent does not spend |
| Exposure, credit notes and satellites: `global_exposure_manager.ts`, `credit_authorization_notes.ts`, `casper_root_relayer.ts`, the EVM and Flare vaults and adapters, `lib/flare/satellite.ts` | exposure per agent, notes, vault balances and debts, event logs, checkpoints | issue, revoke, draw, repay, relay, freeze | root, vaults, relayer, price feed, execution service | draws happen before the root hears of them; awaits inside Flare requests; syncs that end half-way | exposure below the cap, reservations backed, root and vaults agree |
| Credit pool, stake, slashing, disputes: `agent_credit_pool.ts`, `slashing_vault.ts`, `dispute_court.ts`, `credit_offers.ts`, the credit, treasury and watchdog agents | liquidity, lines, offers, stakes, reserves, verdicts | deposit, open, review, draw, repay, liquidate, slash, verdict | watchdog, API, juries | reopening after default, old offers, repeated verdicts, rounding, an await inside an audit | books balance, free cash is cash, the accused does not draw |
| Governance, upgrades, dispute jury, risk policy | proposals, votes, parameters | propose, vote, execute | ledger contracts | thresholds and deadlines | decided once, by the votes cast |
| Gateway (`lib/gateway`) | idempotency entries, webhook subscriptions, rate buckets | request, replay, deliver, retry | every route | two requests with one key in flight | a key runs one request |
| KeeperHub, Flare automations, collateral | schedules, positions, audit trail | schedule, execute, retry | external keepers | retries of what was done | an order executes once |
| Multi-relayer and reconciliation | attestations, reports | attest, compare | satellite chains | quorum, late attestations | a published root has its quorum |
| Casper bridge, services, on-chain contracts, reports, CLI, SDKs, front end | - | I/O, clients, other languages' versions of the ledger contracts | - | - | not modelled |

`PROJECT.json` lists all of them with their status, and the hazards of the code
at the lines where they bite.

### How a paid Algorand request runs

A request carries a signed payment (its SHA-256 is the *payment proof*). The
handler looks the proof up, has the facilitator authorize it, *claims* it (an
exclusive file create), has it settled, and then, without yielding: records the
settlement, anchors a provisional receipt, records the receipt in the attempt.
It asks the Indexer for the transfer (*reconciliation*), records the finality and
acts on it - finalize the receipt and credit the seller, or challenge it and send
the attempt to refund review - stores the final report and sends it. Status polls
and a background loop reconcile settled attempts that are not final. The operator
lists refunds and records the executed ones from a command of its own.

### How SpendGuard lends

The admin authorizes an agent on metrics it verified: the policy computes a line,
the book raises the agent's cap to it and reserves it, and a function-call key on
the contract's own account is scheduled. Whoever signs with that key draws:
the reservation becomes outstanding and a transfer to the seller is scheduled. The
admin reports repayments, tops the reservation up to the cap (which re-mints the
key), and freezes an agent at once or at a number of disputes (which schedules the
deletion of the key). Calls are atomic; what they schedule runs later and may fail.

### How a NEAR or QIE request runs

The same way, with these differences. On NEAR the payer has already sent the
transfer and names it in the proof: `settle` looks it up over RPC. Since many proofs
can encode one transfer, a proof that has claimed its own file must create the file
of its transaction too; the loser is marked failed and served only if the winner
settled for the same request. On QIE a facilitator submits the transfer. Neither has
a background loop or refunds: finality is checked in the request and when the payer
polls the attempt.

### How credit spreads over chains

The Casper root holds each agent's exposure and reserves it when it signs a *credit
authorization note*. A vault on an EVM chain lends once on a note and logs the draw;
the relayer reads the log from its checkpoint and books event after event on the root
(draw: reservation becomes outstanding; repayment: outstanding falls), and moves the
checkpoint when all are booked. The Flare satellite does everything in one request:
price the FXRP, reserve its value in dollars, check the vault, await a second price,
lend, await the execution, then book - or undo the loan and release the reservation.
A repayment releases exposure in proportion to the debt it pays.

### How the pool lends and punishes

Depositors fund the pool. A line is opened by an underwriting, a review or an
accepted offer; draws need an active line, headroom, free liquidity, no open dispute
and no governance pause. Repayments pay interest first. The watchdog writes off
overdue lines, slashes the borrower's stake into the slashing vault, and audits
evidence: an audit opens a dispute, awaits an independent reading, issues a verdict
and enforces it. The API and juries can give verdicts on the same disputes.

## 2. Modules

| Module | Models | Role |
|---|---|---|
| `ExternalReceipts` | `external_receipt_registry.ts`, `ledger.ts:114-158`, the proof store | operators on the registry, the durable copies and the credits |
| `AlgorandAttempts` | `algorand_payment_attempt_store.ts` | the attempt record and the store's mutations as operators |
| `AlgorandPayments` | `algorand_x402_routes.ts`, the anchor, finality check, refund command, start-up and reset in `state.ts` | the state machine: workers, faults, properties, fairness |
| `PaymentOnce` | - | what the paid endpoint promises the payer: the abstract specification |
| `MCAlgorandPayments` | - | constants for TLC |
| `AlgorandPayments_proofs` | - | the invariant, the safety theorems, the refinement of `PaymentOnce`, published finality, acting on checks |
| `RpcPayments` | `near_x402_routes.ts`, `qie_x402_routes.ts`, their attempt stores | the state machine of both routes beside each other; properties, fairness |
| `MCRpcPayments` | - | constants for TLC: two NEAR proofs of one transfer, one QIE proof |
| `RpcPayments_proofs` | - | the invariant, the safety theorems, the refinement of `PaymentOnce`, receipts follow attempts |
| `ExposureBook` | `spend_guard/src/exposure.rs`, whose operations `global_exposure_manager.ts` shares | operators on one agent's entry of the book |
| `ExposureBook_proofs` | - | lemmas on those operators, for both users |
| `SpendGuard` | `spend_guard/src/lib.rs`, `scam_detection.rs`, `spend_key.rs` | the state machine: calls, key receipts, transfers; properties |
| `CreditBudget` | - | what a credit line promises the lender: the abstract specification |
| `MCSpendGuard` | - | constants for TLC |
| `SpendGuard_proofs` | - | the invariant, the safety theorems and the refinement of `CreditBudget` |
| `OmnichainCredit` | `global_exposure_manager.ts`, `credit_authorization_notes.ts`, `casper_root_relayer.ts`, EVM and Flare vaults and adapters, `satellite.ts` | root, vaults, relayer and Flare requests composed |
| `MCOmnichainCredit` | - | constants for TLC |
| `OmnichainCredit_proofs` | - | the cap, the Flare vault, the refinement of `CreditBudget` |
| `OmnichainBooks_proofs` | - | vaults, reservations, the root's books, settling on Flare |
| `SetSums` | - | lemmas on sums over finite sets, for the books of both users |
| `LendingPool` | - | what the pool promises its depositors: the abstract specification |
| `CreditLines` | `agent_credit_pool.ts`, `slashing_vault.ts`, `dispute_court.ts`, `credit_offers.ts`, `watchdog_agent.ts` and the other agents and routes that call them | the state machine; properties, fairness |
| `MCCreditLines` | - | constants for TLC |
| `CreditLines_proofs` | - | the invariant, the safety theorems, the refinement of `LendingPool`, the outstanding debt |

`ExternalReceipts` is shared by `AlgorandPayments` and `RpcPayments`, `ExposureBook` and
`CreditBudget` by `SpendGuard` and `OmnichainCredit`, `PaymentOnce` by both payment
modules: there per payment proof, in `RpcPayments` per transaction.

### From code to model: Algorand payments

- `mem` / `disk` are the store's map and its files. `Update` is `update()` with
  `persist()`: computed from memory, renamed over the file, remembered. The file
  of a fresh claim is `torn` between the exclusive create and its synced content.
- `registry`, `proofFile`, `credits` are the live receipts, the durable copies and
  the revenue credited. A receipt id is a hash over an envelope that includes the
  report and the time, so a receipt is named by the payment that anchored it.
- `job[w]` is what a handler or the loop is doing, with the local variables it
  carries across awaits: that it uses `receipt` and `settlement` read before the
  Indexer call is in the model. `Await` are the points where it yields; between
  them it owns the thread (`Held`), and only a crash or the refund process can
  come in between its durable steps.
- The early return for a terminal finality is the guard of `StartReconcile` and is
  not repeated in `ApplyFinality`, as in the code. The reconciliation interval is
  time: a worker may always decline to start.
- `Anchor` has the code's three outcomes: none (no identity or amount, or a live
  receipt of the transaction that differs), the existing receipt, a new one.
- The finality outcomes `pending`, `unavailable` and `not_found` leave the attempt
  open and are told apart by the miss counter alone, which saturates at the
  threshold. The grace period is a Boolean that may go either way.
- The facilitator's success may omit transaction or payer (`partial`) or report an
  amount that is not a number (`badAmount`). `valid()` rejects a stored settlement
  of the latter kind, so it is `Loaded` as absent.
- `indexer[t]` is external: a submitted transfer is unknown, then seen, then deep
  enough - or it turns out wrong. An invalid transaction id is one way of being wrong.
- `Crash` restarts the process from its files; which of two conflicting receipt
  copies survives depends on the directory order, so any maximal set may. `Reset`
  is the demo endpoint. Writes may fail, and a failed proof copy is swallowed.
- The refund command loads, then writes: two steps, with the API running between.
  One command runs at a time.

Left out: wording and headers of responses, logs, the usage aggregate (a pure
read), HTTP validation, the `CRED402_DATA_DIR`-less development mode.

### From code to model: SpendGuard

- One action per entry point; its guards are the `require!`s and assertions on the
  way, since a panic undoes the whole call. `Cargo.toml` turns overflow checks on, so
  amounts are numbers: an overflow is a panic.
- `exposure`, `agents`, `keysByPubkey`, `disputes` are the four maps. An agent's
  exposure record and agent record are created by one call, so `Known` is both. The
  dispute count saturates at the threshold, from where on every report freezes again.
- `receipts` are the promises the contract sends to its own account, which run in the
  order sent: same sender, same receiver. `accessKeys` are the keys on the account.
  AddKey fails on a key that is there, DeleteKey on one that is not; both leave the
  contract's records as they are. `inFlight` are transfers, which arrive or fail.
- The line a policy grants is any member of `Lines`, zero being a refusal. The same
  public key may be named for two agents. A draw needs the key to be known to the
  contract, not to be on the account: the contract looks only at who signed.
- `sent`, `bounced` and `repaid` are history.

Left out: the key's gas allowance, which bounds calls and not amounts, the identity
sub-account, the balance of the contract, timestamps, views.

An agent's record is inactive only before its first authorization and after a freeze,
and a freeze is for good (`FrozenForGood`). So no agent is ever authorized twice,
although the refusals at `lib.rs:111` ("wait for it to be revoked or exhausted before
re-authorizing") and `lib.rs:251` say a revoked one can be.

### From code to model: NEAR and QIE payments

- One module, because the handlers are line by line the same but for the settlement;
  `Facilitated` are the QIE proofs. `routes` are those the deployment configured.
- `attempts` are the attempt files. The stores write a file and remember it in one
  synchronous run, so their memory is a copy of the readable files and is left out.
  An attempt's file and a transaction's owner file are both created first (`torn`,
  `Torn`) and written then.
- `Held`, `Await` and `ThreadFree` are as in `AlgorandPayments`. NEAR's `settle` is an
  RPC look-up and answers with the same verdicts as reconciliation; QIE's is the
  facilitator's, which may leave out payer or transaction.
- `asked` tells a handler that owes a report from a poll; both run the same
  reconciliation, with the receipt read before the await.
- Of a check's five outcomes the record keeps whether it is final.

Left out: the store without a data directory (it remembers nothing over a restart), two
proofs of one transfer that name different payers, facilitator amounts that are no
numbers, the usage routes. Two QIE proofs are assumed never to share a transaction
(`RpcConstants`): each is its own signed transfer.

An attempt whose settlement is `indeterminate` is never looked at again, since polls
reconcile settled attempts only. The texts of both routes and `docs/near_x402.md` promise
that polling does reconcile it: that is `OutcomeBecomesKnown`, which the run `rpc_stuck`
refutes. `ClaimsEnd` says less, that the request answers: a claim leaves `settling`. The
Algorand route promises and does the same (`algorand_x402_routes.ts:211`, `:358` and `:403`
against `:43`); the finding names both.

A *settled* payment is checked once in its request and once per poll, by nothing else
(`near_x402_routes.ts:104` and `:329`), although `docs/near_x402.md:100-105` speaks of the
"same periodic-reconciliation pattern as the Algorand/QIE routes": one whose transfer was
not deep enough at its last check stays provisional until somebody polls.

### From code to model: credit on many chains

- `exposure` and `notes` are the root, `liquidity`, `debt`, `drawn` the vaults, `log`,
  `checkpoint` and `sync` the relayer of each chain, `request` the Flare requests. All
  is in memory: a restart loses the ledger and the vaults alike, so there is no crash.
- A sync is a snapshot of the log that is booked one event at a time, with everything
  else in between. One sync of a chain at a time. The proofs the relayer attaches to
  its own batch always verify and are left out.
- A Flare draw is `AuthorizeDraw` (after the first price: cap, reservation, note, the
  vault's checks), `CommitDraw` (after the second), `DrawExecuted` or `DrawFailed`,
  `BookDraw`; a repayment is `StartRepay`, `RepayExecuted` or `RepayFailed`, `BookRepay`.
  The execution is any of its outcomes: refused, reverted, timed out, done.
- Expiry stops a vault from lending; nothing releases an expired note's reservation,
  nor the rest of a note drawn for less than its limit.
- `loose`, `flareUsd` and `overlapped` are history: agents whose books the code is known
  to part (four ways, listed at `BooksAgree`), what Flare requests activated, and agents
  whose Flare requests overlapped. Without the first, `BooksAgree` would be false; with
  it, it says those four ways are all.

Left out: signatures and nonces of notes, collateral, other chains' adapters (they follow
the EVM one), relayed receipts.

### From code to model: the pool and its lines

- One action per call; only an evidence audit awaits, so it is `StartAudit` and then
  `Judged`. The reading it awaits is cached once fetched, so in a warm process only what is
  already queued can come in between; the model lets any call come in, which makes its
  safety results stronger than that window needs. The judge of a missed repayment
  answers at once.
- Reputation, scores, compliance and fraud decide whether a line is opened and how
  large: any limit of `Limits`, at any time, unless the code also asks for no open
  dispute. So the model opens lines at least whenever the code does.
- A line's clock is its age in periods; interest is `drawn * age \div InterestPeriod`, the
  code's integer division. It is not reset when interest is paid.
- `OpenCreditLine` replaces whatever line there is and keeps what was drawn on it.
  `Liquidate` writes the loss off and leaves the debt on the line.
- `Slash` takes at most the stake and credits the vault in full, in rounded shares whose
  dust goes to the treasury. `reserves.others` are the three other reserves together.
- `taken`, `uncovered` and `revived` are history. `ReservesBacked` speaks until a slash
  exceeds the stake, `OutstandingIsOwed` until a defaulted line with a debt is used
  again: from there on the code's books are off, as the definitions of both say.

Left out: the registry's reputation and revenue, evidence submissions, credit history.

## 3. Runs

Bounds: `MaxFaults` (crashes, failed writes and resets together), `MaxRefunds`
(refunds executed by hand per payment), `MissThreshold = 2` (two misses are the
least number that exercises counting and resetting), and the sets below. One
payment with two handlers and the loop gives every overlap of two checks of one
payment; more payments interact only through a shared transaction, which the
second run has. One fault reaches each single-fault outcome; the second run takes
two since it needs a lost copy and then a restart.

| Run | Instance | Shows |
|---|---|---|
| `algorand_safety` | 1 payment, 2 requests, 2 handlers + loop, all replies, 1 fault, 1 refund | charged once, for one request; only confirmed transfers are finalized; without faults finality is acted on; the files implement `PaymentOnce` |
| `algorand_shared` | 2 payments, 1 transaction, 1 handler + loop, 2 faults | one live receipt and one credit per transaction; published finality stays |
| `algorand_liveness` | 1 payment, 1 handler + loop, 1 fault, fair | good payments are confirmed across faults; claims do not linger |
| `algorand_finality_crash` | 1 fault | **violated**: a crash between recording a terminal finality and acting on it loses the action |
| `algorand_refund_counted` | no fault, 2 handlers | **violated**: a late check sends a counted payment to refund review |
| `algorand_refund_race` | no fault, 1 refund | **violated**: the API overwrites a recorded refund |
| `spend_guard_safety` | 2 agents, 2 keys, lines 0 and 2, amounts 1 and 2 | cap, bookings, keys, freezes; the contract implements `CreditBudget` |
| `rpc_payments` | 2 NEAR proofs of one transfer or 1 QIE proof, 2 requests, 2 handlers, 3 replies, 1 fault, fair | a transfer pays for one request (`PaymentOnce`), reports are for real transfers, revenue once and when final, receipts follow attempts, claims leave `settling` |
| `rpc_stuck` | 1 NEAR or 1 QIE proof, no fault, fair, polled | **violated**: a settlement that could not be heard is never reconciled |
| `omnichain_safety` | 1 agent, 1 relay chain, 1 note, 2 Flare requests, cap 4, amounts and prices 1 and 2, liquidity 2 | cap, reservations, books, vaults; the root implements `CreditBudget` |
| `credit_lines` | 1 borrower, offer, dispute and audit; limits and amounts 1 and 2, stake 2, slash 1, term 1, fair | the pool implements `LendingPool`; outstanding is owed; reserves backed; the accused draws nothing; audits end |
| `spend_guard_bounce` | 1 agent, 1 key | **violated**: a draw whose transfer failed stays owed |

SpendGuard: `MaxReceipts = 2` key receipts under way (a mint and a deletion of one key,
or a re-mint and a deletion, of one agent or two), `MaxRepaid = 1` repayment per agent
(enough to draw, repay, top up and draw again, and to report a repayment of nothing
owed), `SpikeThreshold = 2` (the code's 3; reached in one report or in two).

NEAR and QIE: `MaxFaults = 1` reaches every single-fault outcome, the torn owner file
among them; `Deployments` has one route on at a time, since the two share only the
thread and the registry, whose receipts no transaction of the other touches. With
`MaxFaults = 2` (440,843 states) and with both routes on (631,927) the run finds no
error either.

Many chains: `MaxEvents = 2` is a draw and its repayment, or two repayments, in one sync or
two; a log is never shortened, so it also bounds a chain's life. Cap 4 lets a note of 2 and
a Flare draw of 1 FXRP at 2 dollars meet the cap together, and 2 FXRP at 2 dollars
exhaust it alone; liquidity 2 lets two overlapping draws overdraw the vault. The two
prices differ by the factor that refuses a second pricing. One agent: the books of two
agents meet only in a vault's liquidity. Two notes (5 million states) and three requests
at one price (2 million) find no error either.

The pool: `MaxCash` bounds the free cash, `MaxAge` the age of a line (2 is overdue by one
period and at twice the interest), `MaxStake` and `MaxVault` stake and slashing vault (two
slashes, or one and a claim), `MaxLoss` what defaults write off beyond what is
outstanding, which only revived lines reach. These bounds are what makes the instance
stop, so the run does not check for deadlock. Slashes of 3, stakes of 3 and more cash
(1.9 million states) break no invariant either.

Symmetry is used in the safety runs only: handlers are interchangeable, and so
are payments of the same transaction; SpendGuard's agents and its keys are, and Flare
requests.

**Fairness.** A handler between awaits is run to its next await (WF). Facilitator and
Indexer calls return or time out; their callbacks are served even when other
handlers keep taking the thread, so these are SF, as is the loop's visit to a
pending attempt: `setInterval` lists every settled, non-final attempt and checks
them in turn (up to 100 a round; the instance has one). That the Indexer is not
unavailable for ever (SF of `IndexerAnswers`) is an assumption about the
environment. Nothing is assumed of requests, refunds, faults.

NEAR and QIE: a handler's run (WF), its turn on the thread once its answer is in (SF), and
its calls to RPC and facilitator, which return or time out (WF). In `rpc_payments` nothing
is assumed of requests, polls, the chain or faults, so `ClaimsEnd` says that a claim leaves
`settling`, not that a payment is confirmed. `rpc_stuck` assumes surroundings that do all
they can (`GoodSurroundings`): authorize returns, RPC is heard about each payment now and
then (SF), a transfer gets deep enough or turns out wrong (WF), and payers poll whatever
polling can change (SF), as the answers tell them to. These are assumptions about others
than the program, made so that what fails under them is the program's doing: even so an
indeterminate attempt is not resolved, since polling it changes nothing. The
counterexample exists on either route alone.
The pool: an audit's reading arrives or its stand-in does (WF of `Judged`:
`fetchSolarReadings` aborts after six seconds and falls back to a model); everything else is somebody's
choice. SpendGuard and the chains state no fairness and no liveness: draws,
repayments and syncs are their callers' to make.

**Disagreements met.** The five violated runs are described in `PROJECT.json`
("findings") with the lines of the code and of the documents they disagree with.

## 4. Proofs

All theorems are about the `Spec` of their module, for every value of the constants
the assumptions allow.

### Algorand payments

From `TxOfType`, `ThresholdType`, `NoneFresh` and `ConstantsType` (no bound on
payments, handlers, faults or refunds):

| Theorem | Statement |
|---|---|
| `TypeCorrect` | `Spec => []TypeOK` |
| `ChargedAtMostOnce` | `Spec => []SubmittedOnce` |
| `ReportBound` | `Spec => []ReportForOneRequest` |
| `ConfirmedOnly` | `Spec => []OnlyConfirmedCounts` |
| `CreditedOnce` | `Spec => []RevenueOncePerTransaction` |
| `Invariance` | `Spec => []IInv` |
| `PromiseKept` | `Spec => ChargedOncePromise` (refinement) |
| `PublishedStays` | `Spec => PublishedFinalityStays` |
| `UndisturbedApplied` | `Spec => []UndisturbedFinalityApplied` |

None of the safety invariants is inductive by itself. `IInv` adds:

- `OneThread`: at most one worker is between awaits, so what it read is current;
- `OneSettler`: at most one worker is past the claim of a payment, and it is the
  only one that may settle it - the heart of `SubmittedOnce`;
- `WorkerInv`: what each point of a handler may rely on (a claimed file is torn, a
  settling one is bound to the worker's request, a worker that will answer has
  durably settled, an answer `confirmed` was given by a chain that stays final);
- `StoreInv`: memory agrees with disk where it remembers an attempt, a torn file
  is not remembered, a settlement implies one submission;
- `CliInv`: the refund command's copy has the identity of the file it will replace;
- `ServedInv`: a report sent belongs to the request the file is bound to;
- `UnclaimedUnbound`, `PublishInv` (for the refinement and published finality): an
  open file has no request; a finalized copy is live-finalized or not live.

Preservation is one lemma per action, and under it one step per conjunct the
action can disturb.

`UndisturbedFinalityApplied` speaks of moments at which nobody holds the thread; its
strengthening `ChecksInv` speaks of all, as long as there was no fault: a recorded check
has been acted on *or* its handler is about to (`CheckFollowed`), and that handler acts on
the right receipt (`JobFollows`: it carries the receipt its attempt names, every receipt
carried is in the registry, and between an outcome and the binding of its receipt no other
handler works on the payment and no check is recorded). The last part is what keeps the
three `settle()` calls, which each write the receipt anew, from undoing a check that came
in between. Only a crash, a failed write and a reset break it, and those are counted.

### SpendGuard

From `SpendGuardConstants` (any sets of agents and keys, any lines and amounts):

| Theorem | Statement |
|---|---|
| `GuardTypeCorrect` | `Spec => []TypeOK` |
| `GuardWithinCap` | `Spec => []WithinCap` |
| `GuardDrawsBooked` | `Spec => []DrawsBooked` |
| `GuardKeysFollow` | `Spec => []KeysFollowRecords` |
| `GuardInvariance` | `Spec => []IInv` |
| `GuardFrozenForGood` | `Spec => FrozenForGood` |
| `GuardKeepsPromise` | `Spec => BudgetPromise` (refinement) |

`KeysFollowRecords` speaks of the moment no receipt is under way. Its strengthening
`KeyQueue` speaks of all: for a key that no agent lives by, a deletion comes behind
every receipt about it, and if it is on the account. It holds because receipts run in
order and the call that ends the last agent living by a key sends its deletion last.
`FrozenIdle` (a frozen agent has no reservation and no live key) and `ActiveKnown` (a
live key is a key) are what a freeze leaves and a re-mint needs. The lemmas on the book
(`EnsureFacts` to `FreezeFacts`) say what each operation does to one entry.

The lemmas on the book (`ExposureBook_proofs`) are cited for the root's book below too.

### NEAR and QIE payments

From `RpcConstants` and `TxOfType` (any proofs, requests, handlers, deployments, faults):

| Theorem | Statement |
|---|---|
| `RpcTypes` | `Spec => []TypeOK` |
| `RpcServedIsPaid` | `Spec => []ServedIsPaid` |
| `RpcCountedOnceWhenFinal` | `Spec => []CountedOnceWhenFinal` |
| `RpcInvariance` | `Spec => []IInv` |
| `RpcKeepsPromise` | `Spec => TransferOncePromise` (refinement, per transaction) |
| `RpcReceiptsFollow` | `Spec => []ReceiptsFollowAttempts` |

`IInv` adds to the types: `OneRun` (one handler between awaits), `JobFits` (what a
handler may rely on at each point), `OneClaim` (one handler past the claim of a proof),
`OwnerFits` and `OwnsFirst` (the owner of a transaction encodes it, and no other NEAR proof
of it gets past owning: what makes a transaction's outcome that of one proof),
`SettledSeen` (a NEAR proof is settled only for a transfer RPC has seen),
`ServedSettled` (a report sent is for a transaction one of whose proofs settled), `ReceiptFits` (a receipt bound is one of the
same transaction) and `FinalAnswers` (an answer `confirmed` stays true). For the
refinement, each step maps to a step of the transaction's promise or to a stutter: a
proof that fails to own its transaction is one that never was its payer.

`RpcReceiptsFollow` is proved from `RInv`, which adds to `IInv`, for as long as there was
no fault: `JobFollows` (a handler past the outcome carries the reply and the receipt of its
attempt; one whose check was denied names a transaction that is wrong), `FileFollows` (a
recorded settlement has its receipt unless its handler is still recording, a recorded check
has reached the receipt or its handler is about to) and `Registered` (only the owner of a
transaction has a receipt, so a transaction has room for it; a challenged receipt is of a
wrong transfer, so no later check confirms it).

### Credit on many chains

From `OmnichainConstants` (any agents, chains, notes, requests, amounts, prices, logs) and, for
the sums, `FiniteWorld` (the four sets are finite: they are maps of a running process):

| Theorem | Statement |
|---|---|
| `OmnichainTypes` | `Spec => []TypeOK` |
| `OmnichainCap` | `Spec => []CommittedWithinCap` |
| `OmnichainInvariance` | `Spec => []IInv` |
| `OmnichainKeepsPromise` | `Spec => BudgetPromise` (refinement) |
| `OmnichainFlareSolvent` | `Spec => []FlareSolvent` |
| `OmnichainVaults` | `Spec => []VaultsConserve` |
| `OmnichainReservations` | `Spec => []ReservationsBacked` |
| `OmnichainBooks` | `Spec => []BooksAgree` |
| `OmnichainFlareSettles` | `Spec => []FlareSettlesTogether` |

The cap is inductive with the types once `SyncsInLog` says that a sync walks within its
log, so that what it books is an event. The refinement follows from it, since every
operation on an entry keeps reserved + outstanding, lowers it, or adds to it below the cap. The Flare vault needs
`OneAtATime`: until two requests overlap, at most one is under way, and it is *backed* - what
it is about to lend is there and what it will give back it has taken.

The books are equations between sums. Each builds on the one before:

- `VaultsConserve` needs the types only: a step moves one agent's debt and the liquidity of
  one vault against each other.
- `ReservationsBacked`, from `NotesInv`: a note lends at most its limit, once, and a consumed
  one did lend (`NotesSound`); the event of a draw names the note and what was drawn
  (`LogFits`), so that booking it releases what the note reserved; a repayment under way
  reserves nothing (`RepaysReserveNothing`).
- `BooksAgree`, from `LogInv`: a sync is ahead of its checkpoint (`SyncsForward`), so that no
  event is booked twice or skipped; what an issued note drew is still to be booked
  (`DrawsLogged`), so that no reservation the booking needs is gone; and a chain never took
  back more than it lent, at any point of its log (`DebtsSound`), so that no repayment is cut
  off at zero. The last holds outside `loose`, the agents whose books the code parts.
- `FlareSettlesTogether`, from `SettleInv`: requests that do not overlap are alone (`Alone`),
  and `Stage` says, for each point of a request, what debt and exposure will be when it is
  done. The rounding matters here: a repayment in full releases all of the exposure and a
  partial one neither all nor, by the quotient, more than all.

`SetSums` proves what these need of `SumFunctionOnSet`: one element taken out, one changed,
equal and smaller functions, subsets, fibres, injections. The library's induction over
finite sets takes an operator, which the provers cannot instantiate; the lemmas go instead
to the recursion behind the definition and take a smallest subset for which a claim fails.

### The pool and its lines

From `CreditConstants` (any finite set of agents, any limits, amounts, terms):

| Theorem | Statement |
|---|---|
| `CreditTypes` | `Spec => []TypeOK` |
| `CreditReservesBacked` | `Spec => []ReservesBacked` |
| `CreditAccusedDrawsNothing` | `Spec => []AccusedDrawsNothing` |
| `CreditInvariance` | `Spec => []IInv` |
| `CreditOutstandingIsOwed` | `Spec => []OutstandingIsOwed` |
| `PoolKeepsPromise` | `Spec => PoolPromise` (refinement) |

`IInv` adds `Free >= 0` (the pool lends and pays out of free cash only) and
`WatchedOpened` (an audit's dispute was opened, so it is nobody else's to open). With it
`OutstandingIsOwed` is inductive: a step changes what one line owes the pool (`Owes`), and
the sum over the lines changes by that much (`SetSums`).

### Only model-checked

Liveness (`GoodPaymentsConfirmed`, `ClaimsDoNotLinger`, `ClaimsEnd`, `AuditsEnd`): fairness
and ENABLED are beyond the prover. And the violated runs, whose properties do not hold.
Every invariant, action property and refinement of a passing run is a theorem. No module
uses `RECURSIVE`.

## 5. Not modelled, and what would come next

- *Gateway*: idempotency keys (`idempotency.ts:32`: two requests with one key in flight)
  and webhook delivery (`webhooks.ts:115`: the retries of one subscriber delay the next). The
  next modules to write: both keep state over awaits; the first is a hazard without a property.
- *KeeperHub and Flare automations*: the executor's polling and retries, scheduled
  automations, the keeper. Only the outcome of an execution is modelled. A confirmation
  that times out (`executor.ts:195`) is a failure in the code although the transaction may
  still land; the vaults are the program's own records, so the model's books agree with it.
- *Collateral vault, risk policy*: arithmetic over prices and factors without a state
  machine; a reference definition over bounded inputs would be the form.
- *Multi-relayer quorum, reconciliation reports, proposals, upgrades, juries*: small state
  machines called by the demo; what they decide enters the models as a free choice.
- *Agents, services, demo state*: the scenes the demo plays, processes of other languages.
- *On-chain contracts of other chains*: the TypeScript ledger is the reference the tests run.
- *Reports, CLI, MCP server, SDKs, front end*: pure reads and clients.

Five further hazards have no property: the public usage total after a reset
(`algorand_receipt_anchor.ts:146`), a read; a key whose AddKey failed while the record
says it is active (`spend_guard/src/lib.rs:131`), about which the contract does nothing;
Flare draws that overlap (`FlareSatelliteVault.ts:70`), which overdraw the in-memory vault
(`FlareSolvent` exempts them); an indeterminate Algorand payment
(`algorand_x402_routes.ts:43`), as on NEAR and QIE; and a settled NEAR payment that nobody
polls (`near_x402_routes.ts:104`).
