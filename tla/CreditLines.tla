----------------------------- MODULE CreditLines -----------------------------
(***************************************************************************)
(* The ledger's own credit: the pool and its credit lines                  *)
(* (AgentCreditPool), who opens them (CreditAgent, CreditOffers,           *)
(* reviewCreditLine), who draws and repays (TreasuryAgent), and what       *)
(* happens to an agent that cheats or does not pay: disputes               *)
(* (DisputeCourt), stake slashed into the SlashingVault, lines frozen or   *)
(* liquidated (WatchdogAgent), by hand through the API as well.            *)
(*                                                                         *)
(* Every call runs to its end but the watchdog's: between opening a        *)
(* dispute and enforcing its verdict it awaits an independent reading. The *)
(* reading is cached after the first one, so what can come in between is   *)
(* what is already queued; here it is any call.                            *)
(* Reputation, scores, fraud and compliance decide whether a line is       *)
(* opened and how large; here either may be anything.                      *)
(***************************************************************************)
EXTENDS Integers, FiniteSets, Functions

CONSTANTS
  Agents,
  Disputes,       \* disputes, each opened once
  Offers,         \* credit offers, each issued once
  Watchers,       \* evidence audits under way at a time
  NoDispute,
  Limits,         \* max_credit an underwriting may come to
  Amounts,        \* amounts deposited, drawn, repaid
  Slashes,        \* what a verdict may slash
  Stakes,         \* amounts staked
  Term,           \* periods until a line is due
  InterestPeriod, \* periods in which a debt accrues itself once more
  MaxAge,         \* bound on the age of a line
  MaxCash,        \* bound on the pool's cash
  MaxStake,       \* bound on what an agent stakes
  MaxVault,       \* bound on what the slashing vault holds
  MaxLoss         \* bound on what is written off beyond what is outstanding

ASSUME CreditConstants ==
  /\ Agents # {} /\ IsFiniteSet(Agents) /\ NoDispute \notin Disputes
  /\ Limits \subseteq Nat /\ Amounts \subseteq Nat \ {0}
  /\ Slashes \subseteq Nat /\ Stakes \subseteq Nat
  /\ Term \in Nat \ {0} /\ InterestPeriod \in Nat \ {0}
  /\ {MaxAge, MaxCash, MaxStake, MaxVault, MaxLoss} \subseteq Nat

VARIABLES
  pool,       \* total_liquidity and outstanding_credit
  lines,      \* credit lines
  offers,
  disputes,
  stake,
  reserves,   \* the slashing vault: the insurance reserve and the others together
  paused,     \* governance pauses credit draws
  watcher,    \* audits waiting for the independent reading
  \* history
  taken,      \* stake taken, less the insurance claims paid,
  uncovered,  \* until a slash exceeds the stake it is taken from
  revived     \* agents whose line was used after its default

book  == <<pool, lines>>
court == <<disputes, watcher>>
slash == <<stake, reserves, taken, uncovered>>
vars  == <<book, offers, court, slash, paused, revived>>

Line ==
  [status: {"none", "active", "frozen", "defaulted"}, max_credit: Nat, drawn: Nat,
   age: Nat, term: Nat]

NoLine == [status |-> "none", max_credit |-> 0, drawn |-> 0, age |-> 0, term |-> 0]

Offer ==
  [status: {"none", "pending", "over"}, agent: Agents, max_credit: Nat]

Dispute == [status: {"none", "opened", "resolved", "closed"}, respondent: Agents]

Idle == [dispute |-> NoDispute, drawn |-> 0]

Anyone == CHOOSE a \in Agents : TRUE

Init ==
  /\ pool = [total |-> 0, outstanding |-> 0]
  /\ lines = [a \in Agents |-> NoLine]
  /\ offers = [o \in Offers |-> [status |-> "none", agent |-> Anyone, max_credit |-> 0]]
  /\ disputes = [d \in Disputes |-> [status |-> "none", respondent |-> Anyone]]
  /\ stake = [a \in Agents |-> 0]
  /\ reserves = [insurance |-> 0, others |-> 0]
  /\ paused = FALSE
  /\ watcher = [w \in Watchers |-> Idle]
  /\ taken = 0
  /\ uncovered = FALSE
  /\ revived = {}

Lesser(m, n) == IF m < n THEN m ELSE n

-------------------------------------------------------------------------------
(* The pool *)

Free == pool.total - pool.outstanding

Deposit(n) ==
  /\ Free + n <= MaxCash
  /\ pool' = [pool EXCEPT !.total = @ + n]
  /\ UNCHANGED <<lines, offers, court, slash, paused, revived>>

\* Broken variant: what is lent is taken for free.
WithdrawLent(n) ==
  /\ n <= pool.total
  /\ pool' = [pool EXCEPT !.total = @ - n]
  /\ UNCHANGED <<lines, offers, court, slash, paused, revived>>

Withdraw(n) ==
  /\ n <= Free
  /\ pool' = [pool EXCEPT !.total = @ - n]
  /\ UNCHANGED <<lines, offers, court, slash, paused, revived>>

\* Simple interest on what is drawn now, since the line was opened - or its debt last
\* paid off, but not since the interest was last paid.
AccruedInterest(l) == (l.drawn * l.age) \div InterestPeriod

IsOverdue(l) == l.drawn > 0 /\ l.age > l.term

\* A period passes.
Tick ==
  /\ \E a \in Agents : lines[a].status # "none" /\ lines[a].age < MaxAge
  /\ lines' = [a \in Agents |->
       IF lines[a].status = "none" THEN lines[a]
       ELSE [lines[a] EXCEPT !.age = Lesser(@ + 1, MaxAge)]]
  /\ UNCHANGED <<pool, offers, court, slash, paused, revived>>

Revives(a) ==
  revived' = IF lines[a].status = "defaulted" /\ lines[a].drawn > 0
               THEN revived \cup {a} ELSE revived

\* open_credit_line replaces whatever line there is, frozen or defaulted too, and keeps
\* what was drawn on it.
OpenCreditLine(a, max, term) ==
  /\ lines' = [lines EXCEPT ![a] =
       [status |-> "active", max_credit |-> max, drawn |-> @.drawn, age |-> 0,
        term |-> term]]
  /\ Revives(a)

-------------------------------------------------------------------------------
(* Credit decisions *)

OpenDisputes(a) ==
  {d \in Disputes : disputes[d].status = "opened" /\ disputes[d].respondent = a}

\* underwrite, after the gates on reputation, compliance and fraud.
Underwrite(a, max) ==
  /\ OpenDisputes(a) = {}
  /\ OpenCreditLine(a, max, Term)
  /\ UNCHANGED <<pool, offers, court, slash, paused>>

\* reviewCreditLine only raises, and keeps the due date, which is at least a second away.
Review(a, max) ==
  LET l == lines[a] IN
  /\ l.status # "none"
  /\ OpenDisputes(a) = {}
  /\ max > l.max_credit
  /\ OpenCreditLine(a, max, IF l.term > l.age THEN l.term - l.age ELSE 1)
  /\ UNCHANGED <<pool, offers, court, slash, paused>>

IssueOffer(o, a, max) ==
  /\ offers[o].status = "none"
  /\ OpenDisputes(a) = {}
  /\ offers' = [offers EXCEPT ![o] =
       [status |-> "pending", agent |-> a, max_credit |-> max]]
  /\ UNCHANGED <<book, court, slash, paused, revived>>

\* accept does not look again at what the offer was issued on.
AcceptOffer(o) ==
  /\ offers[o].status = "pending"
  /\ OpenCreditLine(offers[o].agent, offers[o].max_credit, Term)
  /\ offers' = [offers EXCEPT ![o].status = "over"]
  /\ UNCHANGED <<pool, court, slash, paused>>

\* Declined, or its deadline passes and whoever looks next sees it expired.
EndOffer(o) ==
  /\ offers[o].status = "pending"
  /\ offers' = [offers EXCEPT ![o].status = "over"]
  /\ UNCHANGED <<book, court, slash, paused, revived>>

-------------------------------------------------------------------------------
(* Borrowing *)

\* Broken variant: a dispute does not stop draws.
DrawInDispute(a, n) ==
  LET l == lines[a] IN
  /\ ~paused
  /\ l.status = "active"
  /\ l.drawn + n <= l.max_credit
  /\ n <= Free
  /\ lines' = [lines EXCEPT ![a].drawn = @ + n]
  /\ pool' = [pool EXCEPT !.outstanding = @ + n]
  /\ UNCHANGED <<offers, court, slash, paused, revived>>

\* fundDraw and the pool's draw.
Draw(a, n) ==
  LET l == lines[a] IN
  /\ ~paused
  /\ OpenDisputes(a) = {}
  /\ l.status = "active"
  /\ l.drawn + n <= l.max_credit
  /\ n <= Free
  /\ lines' = [lines EXCEPT ![a].drawn = @ + n]
  /\ pool' = [pool EXCEPT !.outstanding = @ + n]
  /\ UNCHANGED <<offers, court, slash, paused, revived>>

\* Broken variant: what exceeds the interest is principal, however little is owed.
RepayUncapped(a, n) ==
  LET l         == lines[a]
      principal == IF n > AccruedInterest(l) THEN n - AccruedInterest(l) ELSE 0
  IN
  /\ l.status # "none"
  /\ Free + n <= MaxCash
  /\ lines' = [lines EXCEPT ![a].drawn = @ - principal]
  /\ pool' = [total |-> pool.total + (n - principal),
              outstanding |-> pool.outstanding - principal]
  /\ Revives(a)
  /\ UNCHANGED <<offers, court, slash, paused>>

\* Interest first, then principal; what is left over counts as interest. A line that is
\* paid off starts its term anew, an active one only.
Repay(a, n) ==
  LET l         == lines[a]
      interest  == AccruedInterest(l)
      principal == IF n > interest THEN Lesser(n - interest, l.drawn) ELSE 0
      left      == l.drawn - principal
  IN
  /\ l.status # "none"
  /\ Free + n <= MaxCash
  /\ lines' = [lines EXCEPT ![a].drawn = left,
                            ![a].age = IF left = 0 /\ l.status = "active" THEN 0 ELSE @]
  /\ pool' = [total |-> pool.total + (n - principal),
              outstanding |-> pool.outstanding - principal]
  /\ Revives(a)
  /\ UNCHANGED <<offers, court, slash, paused>>

Frozen(a) == [lines EXCEPT ![a].status = IF @ = "none" THEN @ ELSE "frozen"]

\* freezeLine, TreasuryAgent.freeze: whatever the line's status.
Freeze(a) ==
  /\ lines' = Frozen(a)
  /\ Revives(a)
  /\ UNCHANGED <<pool, offers, court, slash, paused>>

Pause(b) ==
  /\ paused # b
  /\ paused' = b
  /\ UNCHANGED <<book, offers, court, slash, revived>>

-------------------------------------------------------------------------------
(* Stake and the slashing vault *)

Stake(a, n) ==
  /\ stake[a] + n <= MaxStake
  /\ stake' = [stake EXCEPT ![a] = @ + n]
  /\ UNCHANGED <<book, offers, court, reserves, paused, taken, uncovered, revived>>

\* Broken variant: the others get their share by its percentage, and the rounding is lost.
SlashRoundingDown(a, n, percent) ==
  LET taking == Lesser(n, stake[a]) IN
  /\ reserves.insurance + reserves.others + n <= MaxVault
  /\ stake' = [stake EXCEPT ![a] = @ - taking]
  /\ reserves' = [insurance |-> reserves.insurance + (n * percent) \div 100,
                  others |-> reserves.others + (n * (100 - percent)) \div 100]
  /\ uncovered' = (uncovered \/ taking < n)
  /\ taken' = IF uncovered' THEN 0 ELSE taken + taking

\* The registry takes at most the stake; the vault is credited with the whole amount, in
\* shares rounded down whose dust goes to the treasury.
Slash(a, n, percent) ==
  LET taking  == Lesser(n, stake[a])
      insured == (n * percent) \div 100
  IN
  /\ reserves.insurance + reserves.others + n <= MaxVault
  /\ stake' = [stake EXCEPT ![a] = @ - taking]
  /\ reserves' = [insurance |-> reserves.insurance + insured,
                  others |-> reserves.others + (n - insured)]
  /\ uncovered' = (uncovered \/ taking < n)
  /\ taken' = IF uncovered' THEN 0 ELSE taken + taking

ClaimInsurance(n) ==
  /\ n > 0
  /\ n <= reserves.insurance
  /\ reserves' = [reserves EXCEPT !.insurance = @ - n]
  /\ taken' = IF uncovered THEN 0 ELSE taken - n
  /\ UNCHANGED <<book, offers, court, stake, uncovered, paused, revived>>

\* coverDefault claims what the reserve has of the loss.
CoverDefault(loss) == ClaimInsurance(Lesser(loss, reserves.insurance))

-------------------------------------------------------------------------------
(* Disputes *)

Opened(d, a) == [disputes EXCEPT ![d] = [status |-> "opened", respondent |-> a]]

OpenDispute(d, a) ==
  /\ disputes[d].status = "none"
  /\ disputes' = Opened(d, a)
  /\ UNCHANGED <<book, offers, slash, paused, watcher, revived>>

\* A verdict may be issued on a dispute in any state, one already closed included.
\* The API enforces it and closes the dispute; a jury's tally only issues it.
ResolveDispute(d, n) ==
  LET a == disputes[d].respondent IN
  /\ disputes[d].status # "none"
  /\ disputes' = [disputes EXCEPT ![d].status = "closed"]
  /\ \/ n > 0 /\ Slash(a, n, 30)
     \/ UNCHANGED slash
  /\ UNCHANGED <<book, offers, watcher, paused, revived>>

JuryVerdict(d) ==
  /\ disputes[d].status # "none"
  /\ disputes' = [disputes EXCEPT ![d].status = "resolved"]
  /\ UNCHANGED <<book, offers, slash, watcher, paused, revived>>

\* An audit finds a deviation and opens a dispute; then it awaits the judge.
StartAudit(w, d, a) ==
  /\ watcher[w].dispute = NoDispute
  /\ disputes[d].status = "none"
  /\ disputes' = Opened(d, a)
  /\ watcher' = [watcher EXCEPT ![w] = [dispute |-> d, drawn |-> lines[a].drawn]]
  /\ UNCHANGED <<book, offers, slash, paused, revived>>

EndAudit(w, status) ==
  /\ watcher[w].dispute # NoDispute
  /\ disputes' = [disputes EXCEPT ![watcher[w].dispute].status = status]
  /\ watcher' = [watcher EXCEPT ![w] = Idle]
  /\ UNCHANGED <<offers, paused>>

\* The agent is at fault: its stake is slashed and its line frozen.
PunishFault(w, n) ==
  LET a == disputes[watcher[w].dispute].respondent IN
  /\ EndAudit(w, "closed")
  /\ Slash(a, n, 30)
  /\ lines' = Frozen(a)
  /\ Revives(a)
  /\ UNCHANGED pool

FindNoFault(w) ==
  /\ EndAudit(w, "closed")
  /\ UNCHANGED <<book, slash, revived>>

\* Broken variant: the audit ends before it has issued the verdict.
ForgetVerdict(w) ==
  /\ watcher[w].dispute # NoDispute
  /\ watcher' = [watcher EXCEPT ![w] = Idle]
  /\ UNCHANGED <<book, offers, disputes, slash, paused, revived>>

\* The agent is at fault, but the receipt is unknown to the registry: disputing it throws
\* after the verdict, and nothing is enforced.
FailToEnforce(w) ==
  /\ EndAudit(w, "resolved")
  /\ UNCHANGED <<book, slash, revived>>

Judged(w) ==
  \/ \E n \in Slashes : PunishFault(w, n)
  \/ FindNoFault(w)
  \/ FailToEnforce(w)

\* Broken variant: what the borrower owes is forgotten with the loss.
LiquidateForgiving(a) ==
  LET l == lines[a] IN
  /\ l.status = "active"
  /\ IsOverdue(l)
  /\ l.drawn - pool.outstanding <= MaxLoss
  /\ lines' = [lines EXCEPT ![a].status = "defaulted", ![a].drawn = 0]
  /\ pool' = [total |-> pool.total - l.drawn,
              outstanding |-> pool.outstanding]
  /\ Slash(a, l.max_credit, 70)
  /\ UNCHANGED <<offers, court, paused, revived>>

\* monitorRepayments, for one line: a dispute is opened, judged - by a judge that answers
\* at once - and closed and the loss written off, with nothing in between; the line keeps
\* what was drawn on it.
Liquidate(a) ==
  LET l == lines[a] IN
  /\ l.status = "active"
  /\ IsOverdue(l)
  /\ l.drawn - pool.outstanding <= MaxLoss
  /\ lines' = [lines EXCEPT ![a].status = "defaulted"]
  /\ pool' = [total |-> pool.total - l.drawn,
              outstanding |-> pool.outstanding - l.drawn]
  /\ Slash(a, l.max_credit, 70)
  /\ UNCHANGED <<offers, court, paused, revived>>

-------------------------------------------------------------------------------
Lending ==
  \/ \E n \in Amounts : Deposit(n) \/ Withdraw(n)
  \/ Tick
  \/ \E b \in BOOLEAN : Pause(b)
  \/ \E a \in Agents :
       \/ \E n \in Amounts : Draw(a, n) \/ Repay(a, n)
       \/ Freeze(a)

Underwriting ==
  \/ \E a \in Agents, max \in Limits :
       \/ Underwrite(a, max) \/ Review(a, max)
       \/ \E o \in Offers : IssueOffer(o, a, max)
  \/ \E o \in Offers : AcceptOffer(o) \/ EndOffer(o)

Enforcement ==
  \/ \E a \in Agents :
       \/ \E n \in Stakes : Stake(a, n)
       \/ \E d \in Disputes : OpenDispute(d, a) \/ \E w \in Watchers : StartAudit(w, d, a)
       \/ Liquidate(a)
  \/ \E d \in Disputes :
       \/ \E n \in Slashes : ResolveDispute(d, n)
       \/ JuryVerdict(d)
  \/ \E w \in Watchers : Judged(w)
  \/ \E n \in Amounts : CoverDefault(n)

Next == Lending \/ Underwriting \/ Enforcement

Spec == Init /\ [][Next]_vars

\* The independent reading arrives, or its stand-in does.
FairSpec == Spec /\ \A w \in Watchers : WF_vars(Judged(w))

-------------------------------------------------------------------------------
(* Properties *)

TypeOK ==
  /\ pool \in [total: Int, outstanding: Int]
  /\ lines \in [Agents -> Line]
  /\ offers \in [Offers -> Offer]
  /\ disputes \in [Disputes -> Dispute]
  /\ stake \in [Agents -> Nat]
  /\ reserves \in [insurance: Nat, others: Nat]
  /\ paused \in BOOLEAN
  /\ watcher \in [Watchers -> [dispute: Disputes \cup {NoDispute}, drawn: Nat]]
  /\ taken \in Int
  /\ uncovered \in BOOLEAN
  /\ revived \subseteq Agents

\* The pool keeps its promise to the depositors: what it says is free is cash it holds,
\* through defaults, reopened lines and repayments of losses long written off; it never
\* lends or pays out more.
cash == Free
owed == [a \in Agents |-> lines[a].drawn]

Promise == INSTANCE LendingPool

PoolPromise == Promise!Spec

\* What the pool calls outstanding is what the lines that have not defaulted owe. A loss
\* leaves the books once, with the default; the books go wrong when a defaulted line with
\* a debt is reopened, frozen or repaid, since its loss was taken out already.
OutstandingIsOwed ==
  revived = {} =>
    pool.outstanding =
      SumFunctionOnSet([a \in Agents |-> lines[a].drawn],
                       {a \in Agents : lines[a].status # "defaulted"})

\* What the slashing vault holds was taken from somebody's stake and not claimed since,
\* to the last unit of rounding, unless a slash exceeded the stake: the vault is credited
\* with that in full (apply_slash).
ReservesBacked ==
  ~uncovered => reserves.insurance + reserves.others = taken

\* While an audit waits for its reading, the agent it accuses draws nothing - however its
\* line is reopened, by an underwriting or an old offer - unless a verdict given meanwhile
\* by the API or a jury ends the dispute (escalateDispute, fundDraw).
AccusedDrawsNothing ==
  \A w \in Watchers :
    LET d == watcher[w].dispute IN
    d # NoDispute /\ disputes[d].status = "opened"
      => lines[disputes[d].respondent].drawn <= watcher[w].drawn

\* A dispute the watchdog opens does not block the agent's credit for ever, whether or not
\* its verdict can be enforced.
AuditsEnd ==
  \A w \in Watchers, d \in Disputes :
    watcher[w].dispute = d ~> disputes[d].status \in {"resolved", "closed"}
===============================================================================
