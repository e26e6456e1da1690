-------------------------- MODULE CreditLines_proofs --------------------------
(***************************************************************************)
(* The pool's promise, the slashing vault's books and the block on an      *)
(* accused agent's credit, for every set of agents, disputes, offers and   *)
(* watchers and every amount.                                              *)
(***************************************************************************)
EXTENDS CreditLines, SetSums

\* An audit under way has a dispute that was opened.
WatchedOpened ==
  \A w \in Watchers :
    watcher[w].dispute # NoDispute => disputes[watcher[w].dispute].status # "none"

IInv ==
  /\ TypeOK
  /\ Free >= 0
  /\ ReservesBacked
  /\ WatchedOpened
  /\ AccusedDrawsNothing

LEMMA ConstantFacts ==
  /\ Anyone \in Agents /\ NoDispute \notin Disputes
  /\ Limits \subseteq Nat /\ Amounts \subseteq Nat /\ \A n \in Amounts : n > 0
  /\ Slashes \subseteq Nat /\ Stakes \subseteq Nat
  /\ Term \in Nat /\ InterestPeriod \in Nat /\ InterestPeriod > 0 /\ MaxAge \in Nat
BY CreditConstants DEF Anyone

LEMMA InitInv == Init => IInv
<1> SUFFICES ASSUME Init PROVE IInv
  OBVIOUS
<1>1. TypeOK
  <2>1. lines \in [Agents -> Line] /\ offers \in [Offers -> Offer]
    BY ConstantFacts DEF Init, Line, NoLine, Offer
  <2>2. disputes \in [Disputes -> Dispute] /\ stake \in [Agents -> Nat]
    BY ConstantFacts DEF Init, Dispute
  <2>3. watcher \in [Watchers -> [dispute: Disputes \cup {NoDispute}, drawn: Nat]]
    BY DEF Init, Idle
  <2>4. pool \in [total: Int, outstanding: Int]
    BY DEF Init
  <2>5. reserves \in [insurance: Nat, others: Nat]
    BY DEF Init
  <2>6. taken \in Int
    BY DEF Init
  <2>7. paused \in BOOLEAN /\ uncovered \in BOOLEAN /\ revived \subseteq Agents
    BY DEF Init
  <2>8. QED
    BY <2>1, <2>2, <2>3, <2>4, <2>5, <2>6, <2>7 DEF TypeOK
<1>2. Free >= 0 /\ ReservesBacked
  BY DEF Init, Free, ReservesBacked
<1>3. WatchedOpened /\ AccusedDrawsNothing
  BY DEF Init, WatchedOpened, AccusedDrawsNothing, Idle
<1>4. QED
  BY <1>1, <1>2, <1>3 DEF IInv

\* A line and its numbers.
LEMMA LineFacts ==
  ASSUME TypeOK, NEW a \in Agents
  PROVE  /\ lines[a] \in Line /\ lines[a].drawn \in Nat /\ lines[a].age \in Nat
         /\ lines[a].max_credit \in Nat /\ lines[a].term \in Nat
BY DEF TypeOK, Line

\* The interest on a line is an amount.
LEMMA InterestNat ==
  ASSUME NEW l \in Line
  PROVE  AccruedInterest(l) \in Nat
<1>1. l.drawn \in Nat /\ l.age \in Nat
  BY DEF Line
<1>2. l.drawn * l.age \in Nat
  BY <1>1
<1>3. (l.drawn * l.age) \div InterestPeriod \in Nat
  BY <1>2, ConstantFacts
<1>4. QED
  BY <1>3 DEF AccruedInterest

-------------------------------------------------------------------------------
(* What a step disturbs *)

\* With the courts as they are, an accused agent must not owe more.
LEMMA AccusedKept ==
  ASSUME IInv, UNCHANGED court, lines' \in [Agents -> Line],
         \A a \in Agents : OpenDisputes(a) = {} \/ lines'[a].drawn <= lines[a].drawn
  PROVE  AccusedDrawsNothing'
<1> SUFFICES ASSUME NEW w \in Watchers, watcher[w].dispute # NoDispute,
                    disputes[watcher[w].dispute].status = "opened"
             PROVE  lines'[disputes[watcher[w].dispute].respondent].drawn
                      <= watcher[w].drawn
  BY DEF AccusedDrawsNothing, court
<1>1. PICK a \in Agents : a = disputes[watcher[w].dispute].respondent
  BY DEF IInv, TypeOK, Dispute
<1>2. watcher[w].dispute \in OpenDisputes(a)
  BY <1>1 DEF IInv, TypeOK, OpenDisputes
<1>3. lines'[a].drawn <= lines[a].drawn /\ lines[a].drawn <= watcher[w].drawn
  BY <1>1, <1>2 DEF IInv, AccusedDrawsNothing
<1>4. lines'[a].drawn \in Nat /\ lines[a].drawn \in Nat /\ watcher[w].drawn \in Nat
  BY DEF IInv, TypeOK, Line
<1>5. QED
  BY <1>1, <1>3, <1>4

\* The courts, the vault and the offers stay as they are: the books decide.
LEMMA BookOnly ==
  ASSUME IInv, UNCHANGED <<offers, court, slash, paused>>, revived' \subseteq Agents,
         pool' \in [total: Int, outstanding: Int], lines' \in [Agents -> Line],
         Free' >= 0,
         \A a \in Agents : OpenDisputes(a) = {} \/ lines'[a].drawn <= lines[a].drawn
  PROVE  IInv'
<1>1. TypeOK' /\ ReservesBacked' /\ WatchedOpened'
  BY DEF IInv, TypeOK, ReservesBacked, WatchedOpened, court, slash
<1>2. AccusedDrawsNothing'
  BY AccusedKept
<1>3. QED
  BY <1>1, <1>2 DEF IInv

\* A line replaced by one that owes no more.
LEMMA LineOnly ==
  ASSUME IInv, NEW a \in Agents, NEW l \in Line, l.drawn <= lines[a].drawn,
         lines' = [lines EXCEPT ![a] = l]
  PROVE  /\ lines' \in [Agents -> Line]
         /\ \A b \in Agents : lines'[b].drawn <= lines[b].drawn
<1>1. lines \in [Agents -> Line] /\ \A b \in Agents : lines[b].drawn \in Nat
  BY DEF IInv, TypeOK, Line
<1>2. QED
  BY <1>1

LEMMA RevivesType ==
  ASSUME IInv, NEW a \in Agents, Revives(a)
  PROVE  revived' \subseteq Agents
BY DEF IInv, TypeOK, Revives

\* Where a share of at most all is insured, slash and shares agree.
LEMMA SlashBacked ==
  ASSUME IInv, NEW a \in Agents, NEW n \in Nat, NEW percent \in {30, 70},
         Slash(a, n, percent)
  PROVE  /\ stake' \in [Agents -> Nat] /\ reserves' \in [insurance: Nat, others: Nat]
         /\ taken' \in Int /\ uncovered' \in BOOLEAN
         /\ ReservesBacked'
<1> DEFINE taking  == Lesser(n, stake[a])
           insured == (n * percent) \div 100
<1>1. stake[a] \in Nat /\ taking \in 0..stake[a]
  BY DEF IInv, TypeOK, Lesser
<1>2. insured \in 0..n
  <2>1. (n * 30) \div 100 \in 0..n /\ (n * 70) \div 100 \in 0..n
    OBVIOUS
  <2>2. QED
    BY <2>1
<1>3. /\ stake' = [stake EXCEPT ![a] = @ - taking]
      /\ reserves' = [insurance |-> reserves.insurance + insured,
                      others |-> reserves.others + (n - insured)]
      /\ uncovered' = (uncovered \/ taking < n)
      /\ taken' = IF uncovered' THEN 0 ELSE taken + taking
  BY DEF Slash
<1>4. /\ reserves.insurance \in Nat /\ reserves.others \in Nat /\ taken \in Int
      /\ uncovered \in BOOLEAN
  BY DEF IInv, TypeOK
<1>5. ~(taking < n) => taking = n
  BY <1>1 DEF Lesser, IInv, TypeOK
<1> HIDE DEF taking, insured
<1>6. stake' \in [Agents -> Nat]
  BY <1>1, <1>3 DEF IInv, TypeOK
<1>7. reserves' \in [insurance: Nat, others: Nat]
  BY <1>2, <1>3, <1>4
<1>8. uncovered' \in BOOLEAN
  BY <1>3, <1>4
<1>9. taken' \in Int
  BY <1>1, <1>3, <1>4
<1>10. ReservesBacked'
  <2> SUFFICES ASSUME ~uncovered'
               PROVE  reserves'.insurance + reserves'.others = taken'
    BY DEF ReservesBacked
  <2>1. ~uncovered /\ taking = n
    BY <1>3, <1>5
  <2>2. reserves.insurance + reserves.others = taken
    BY <2>1 DEF IInv, ReservesBacked
  <2>3. reserves'.insurance = reserves.insurance + insured
        /\ reserves'.others = reserves.others + (n - insured)
        /\ taken' = taken + n
    BY <1>3, <2>1
  <2>4. QED
    BY <1>2, <1>4, <2>2, <2>3
<1>11. QED
  BY <1>6, <1>7, <1>8, <1>9, <1>10

\* A dispute or an audit changes; the books, the vault and the offers do not.
LEMMA CourtOnly ==
  ASSUME IInv, UNCHANGED <<book, offers, slash, paused, revived>>,
         disputes' \in [Disputes -> Dispute],
         watcher' \in [Watchers -> [dispute: Disputes \cup {NoDispute}, drawn: Nat]],
         WatchedOpened', AccusedDrawsNothing'
  PROVE  IInv'
BY DEF IInv, TypeOK, Free, ReservesBacked, book, slash

\* A dispute that is given a verdict or closed accuses no more; the others are as they were.
LEMMA VerdictKeeps ==
  ASSUME IInv, NEW d \in Disputes, NEW status \in {"resolved", "closed"},
         disputes' = [disputes EXCEPT ![d].status = status],
         \A w \in Watchers : watcher'[w] = watcher[w] \/ watcher'[w] = Idle,
         \A a \in Agents : lines'[a].drawn = lines[a].drawn
  PROVE  disputes' \in [Disputes -> Dispute] /\ WatchedOpened' /\ AccusedDrawsNothing'
<1>1. disputes \in [Disputes -> Dispute]
  BY DEF IInv, TypeOK
<1>2. [disputes[d] EXCEPT !.status = status] \in Dispute
  BY <1>1 DEF Dispute
<1>3. disputes' \in [Disputes -> Dispute]
  BY <1>1, <1>2
<1>4. /\ disputes'[d].status = status
      /\ \A e \in Disputes \ {d} : disputes'[e] = disputes[e]
  BY <1>1, <1>2 DEF Dispute
<1>5. \A w \in Watchers : watcher'[w].dispute # NoDispute =>
        watcher'[w] = watcher[w] /\ watcher[w].dispute \in Disputes
  BY DEF IInv, TypeOK, Idle
<1>6. WatchedOpened'
  BY <1>4, <1>5 DEF IInv, WatchedOpened
<1>7. AccusedDrawsNothing'
  <2> SUFFICES ASSUME NEW w \in Watchers, watcher'[w].dispute # NoDispute,
                      disputes'[watcher'[w].dispute].status = "opened"
               PROVE  lines'[disputes'[watcher'[w].dispute].respondent].drawn
                        <= watcher'[w].drawn
    BY DEF AccusedDrawsNothing
  <2>1. PICK e \in Disputes : e = watcher[w].dispute
    BY <1>5
  <2>2. watcher'[w] = watcher[w] /\ disputes'[e] = disputes[e]
    BY <1>4, <1>5, <2>1
  <2>3. disputes[e].respondent \in Agents
    BY <1>1 DEF Dispute
  <2>4. e # NoDispute /\ disputes[e].status = "opened"
    BY <2>1, <2>2
  <2>5. lines[disputes[e].respondent].drawn <= watcher[w].drawn
    BY <2>1, <2>4 DEF IInv, AccusedDrawsNothing
  <2>6. QED
    BY <2>1, <2>2, <2>3, <2>5
<1>8. QED
  BY <1>3, <1>6, <1>7

\* A dispute that is opened was watched by nobody.
LEMMA OpenedKeeps ==
  ASSUME IInv, NEW d \in Disputes, NEW a \in Agents, disputes[d].status = "none",
         disputes' = Opened(d, a), UNCHANGED lines,
         \A w \in Watchers :
           \/ watcher'[w] = watcher[w]
           \/ watcher'[w].dispute = d /\ watcher'[w].drawn = lines[a].drawn
  PROVE  disputes' \in [Disputes -> Dispute] /\ WatchedOpened' /\ AccusedDrawsNothing'
<1>1. disputes \in [Disputes -> Dispute]
  BY DEF IInv, TypeOK
<1>2. /\ disputes' \in [Disputes -> Dispute]
      /\ disputes'[d] = [status |-> "opened", respondent |-> a]
      /\ \A e \in Disputes \ {d} : disputes'[e] = disputes[e]
  BY <1>1 DEF Opened, Dispute
<1>3. \A w \in Watchers : watcher[w].dispute # NoDispute =>
        watcher[w].dispute \in Disputes \ {d}
  BY DEF IInv, TypeOK, WatchedOpened
<1>4. d # NoDispute
  BY ConstantFacts
<1>5. ASSUME NEW w \in Watchers, watcher'[w].dispute # NoDispute
      PROVE  /\ disputes'[watcher'[w].dispute].status # "none"
             /\ disputes'[watcher'[w].dispute].status = "opened" =>
                  lines'[disputes'[watcher'[w].dispute].respondent].drawn
                    <= watcher'[w].drawn
  <2>1. CASE watcher'[w] = watcher[w]
    <3>1. PICK e \in Disputes \ {d} : e = watcher[w].dispute
      BY <1>3, <1>5, <2>1
    <3>2. disputes'[e] = disputes[e]
      BY <1>2
    <3>3. QED
      BY <2>1, <3>1, <3>2, <1>5 DEF IInv, WatchedOpened, AccusedDrawsNothing
  <2>2. CASE watcher'[w].dispute = d /\ watcher'[w].drawn = lines[a].drawn
    <3>1. lines[a].drawn \in Nat
      BY LineFacts DEF IInv
    <3>2. QED
      BY <1>2, <2>2, <3>1
  <2>3. QED
    BY <2>1, <2>2
<1>6. QED
  BY <1>2, <1>5 DEF WatchedOpened, AccusedDrawsNothing

-------------------------------------------------------------------------------
(* Lending *)

LEMMA PoolNumbers ==
  ASSUME IInv
  PROVE  /\ pool \in [total: Int, outstanding: Int]
         /\ pool.total \in Int /\ pool.outstanding \in Int
         /\ Free \in Nat /\ Free = pool.total - pool.outstanding
         /\ lines \in [Agents -> Line] /\ revived \subseteq Agents
         /\ \A a \in Agents : lines[a].drawn \in Nat
BY DEF IInv, TypeOK, Free, Line

LEMMA DepositInv ==
  ASSUME IInv, NEW n \in Amounts, Deposit(n) \/ Withdraw(n)
  PROVE  IInv'
<1>1. n \in Nat
  BY ConstantFacts
<1>2. /\ UNCHANGED <<lines, offers, court, slash, paused, revived>>
      /\ \/ pool' = [pool EXCEPT !.total = @ + n]
         \/ pool' = [pool EXCEPT !.total = @ - n] /\ n <= Free
  BY DEF Deposit, Withdraw
<1>3. /\ pool' \in [total: Int, outstanding: Int]
      /\ pool'.total - pool'.outstanding >= 0
  BY <1>1, <1>2, PoolNumbers
<1>4. Free' >= 0
  BY <1>3 DEF Free
<1>5. \A a \in Agents : lines'[a].drawn <= lines[a].drawn
  BY <1>2, PoolNumbers
<1>6. QED
  BY <1>2, <1>3, <1>4, <1>5, PoolNumbers, BookOnly

LEMMA TickInv ==
  ASSUME IInv, Tick
  PROVE  IInv'
<1>1. \A a \in Agents : LET l == [lines[a] EXCEPT !.age = Lesser(@ + 1, MaxAge)] IN
        l \in Line /\ l.drawn = lines[a].drawn
  <2> TAKE a \in Agents
  <2>1. Lesser(lines[a].age + 1, MaxAge) \in Nat
    BY LineFacts, ConstantFacts DEF IInv, Lesser
  <2>2. lines[a] \in Line
    BY PoolNumbers
  <2>3. QED
    BY <2>1, <2>2 DEF Line
<1>2. lines' = [a \in Agents |->
       IF lines[a].status = "none" THEN lines[a]
       ELSE [lines[a] EXCEPT !.age = Lesser(@ + 1, MaxAge)]]
  BY DEF Tick
<1>3. /\ lines' \in [Agents -> Line]
      /\ \A a \in Agents : lines'[a].drawn <= lines[a].drawn
  BY <1>1, <1>2, PoolNumbers
<1>4. UNCHANGED <<pool, offers, court, slash, paused, revived>>
  BY DEF Tick
<1>5. Free' >= 0
  BY <1>4, PoolNumbers DEF Free
<1>6. QED
  BY <1>3, <1>4, <1>5, PoolNumbers, BookOnly

LEMMA DrawInv ==
  ASSUME IInv, NEW a \in Agents, NEW n \in Amounts, Draw(a, n)
  PROVE  IInv'
<1>1. n \in Nat /\ lines[a] \in Line /\ lines[a].drawn \in Nat
  BY ConstantFacts, PoolNumbers
<1>2. /\ OpenDisputes(a) = {} /\ n <= Free
      /\ lines' = [lines EXCEPT ![a].drawn = @ + n]
      /\ pool' = [pool EXCEPT !.outstanding = @ + n]
      /\ UNCHANGED <<offers, court, slash, paused, revived>>
  BY DEF Draw
<1>3. [lines[a] EXCEPT !.drawn = @ + n] \in Line
  BY <1>1 DEF Line
<1>4. /\ lines' \in [Agents -> Line]
      /\ \A b \in Agents \ {a} : lines'[b].drawn <= lines[b].drawn
  BY <1>2, <1>3, PoolNumbers
<1>5. /\ pool' \in [total: Int, outstanding: Int]
      /\ pool'.total - pool'.outstanding >= 0
  BY <1>1, <1>2, PoolNumbers
<1>6. Free' >= 0
  BY <1>5 DEF Free
<1>7. QED
  BY <1>2, <1>4, <1>5, <1>6, PoolNumbers, BookOnly

\* Of a repayment, what is not principal is interest; both are amounts.
LEMMA RepayFacts ==
  ASSUME IInv, NEW a \in Agents, NEW n \in Amounts, Repay(a, n)
  PROVE  \E p \in 0..lines[a].drawn :
           /\ p <= n
           /\ pool' = [total |-> pool.total + (n - p), outstanding |-> pool.outstanding - p]
           /\ lines' = [lines EXCEPT ![a].drawn = lines[a].drawn - p,
                                     ![a].age = IF lines[a].drawn - p = 0
                                                   /\ lines[a].status = "active"
                                                  THEN 0 ELSE @]
<1> DEFINE l == lines[a]
           i == AccruedInterest(l)
           p == IF n > i THEN Lesser(n - i, l.drawn) ELSE 0
<1>1. n \in Nat /\ l.drawn \in Nat /\ i \in Nat
  BY ConstantFacts, PoolNumbers, InterestNat
<1>2. p \in 0..l.drawn /\ p <= n
  <2> HIDE DEF i, l
  <2>1. QED
    BY <1>1 DEF Lesser
<1>3. /\ pool' = [total |-> pool.total + (n - p), outstanding |-> pool.outstanding - p]
      /\ lines' = [lines EXCEPT ![a].drawn = l.drawn - p,
                                ![a].age = IF l.drawn - p = 0 /\ l.status = "active"
                                             THEN 0 ELSE @]
  BY DEF Repay
<1> HIDE DEF p
<1>4. QED
  BY <1>2, <1>3

LEMMA RepayInv ==
  ASSUME IInv, NEW a \in Agents, NEW n \in Amounts, Repay(a, n)
  PROVE  IInv'
<1>1. n \in Nat /\ lines[a] \in Line /\ lines[a].drawn \in Nat
  BY ConstantFacts, PoolNumbers
<1>2. PICK p \in 0..lines[a].drawn :
        /\ p <= n
        /\ pool' = [total |-> pool.total + (n - p), outstanding |-> pool.outstanding - p]
        /\ lines' = [lines EXCEPT ![a].drawn = lines[a].drawn - p,
                                  ![a].age = IF lines[a].drawn - p = 0
                                                /\ lines[a].status = "active"
                                               THEN 0 ELSE @]
  BY RepayFacts
<1> DEFINE age == IF lines[a].drawn - p = 0 /\ lines[a].status = "active"
                    THEN 0 ELSE lines[a].age
           l   == [lines[a] EXCEPT !.drawn = lines[a].drawn - p, !.age = age]
<1>3. age \in Nat /\ lines[a].drawn - p \in Nat
  BY <1>1 DEF Line
<1>4. l \in Line /\ l.drawn <= lines[a].drawn
  <2> HIDE DEF age
  <2>1. l \in Line /\ l.drawn = lines[a].drawn - p
    BY <1>1, <1>3 DEF Line
  <2>2. QED
    BY <1>1, <2>1
<1>5. lines' = [lines EXCEPT ![a] = l]
  BY <1>2, PoolNumbers DEF Line
<1> HIDE DEF l
<1>6. /\ lines' \in [Agents -> Line]
      /\ \A b \in Agents : lines'[b].drawn <= lines[b].drawn
  BY <1>4, <1>5, LineOnly
<1>7. /\ pool' \in [total: Int, outstanding: Int]
      /\ pool'.total - pool'.outstanding >= 0
  BY <1>1, <1>2, PoolNumbers
<1>8. Free' >= 0
  BY <1>7 DEF Free
<1>9. UNCHANGED <<offers, court, slash, paused>> /\ revived' \subseteq Agents
  BY RevivesType DEF Repay
<1>10. QED
  BY <1>6, <1>7, <1>8, <1>9, BookOnly

\* A line is frozen, if there is one.
LEMMA FrozenLines ==
  ASSUME IInv, NEW a \in Agents, lines' = Frozen(a)
  PROVE  /\ lines' \in [Agents -> Line]
         /\ \A b \in Agents : lines'[b].drawn = lines[b].drawn
<1> DEFINE s == IF lines[a].status = "none" THEN "none" ELSE "frozen"
<1>1. lines \in [Agents -> Line]
  BY PoolNumbers
<1>2. lines' = [lines EXCEPT ![a] = [@ EXCEPT !.status = s]]
  BY <1>1 DEF Frozen
<1>3. [lines[a] EXCEPT !.status = s] \in Line
      /\ [lines[a] EXCEPT !.status = s].drawn = lines[a].drawn
  BY <1>1 DEF Line
<1> HIDE DEF s
<1>4. QED
  BY <1>1, <1>2, <1>3

LEMMA FreezeInv ==
  ASSUME IInv, NEW a \in Agents, Freeze(a)
  PROVE  IInv'
<1>1. /\ lines' = Frozen(a) /\ Revives(a)
      /\ UNCHANGED <<pool, offers, court, slash, paused>>
  BY DEF Freeze
<1>2. /\ lines' \in [Agents -> Line]
      /\ \A b \in Agents : lines'[b].drawn <= lines[b].drawn
  BY <1>1, FrozenLines, PoolNumbers
<1>3. Free' >= 0
  BY <1>1, PoolNumbers DEF Free
<1>4. QED
  BY <1>1, <1>2, <1>3, PoolNumbers, RevivesType, BookOnly

LEMMA PauseInv ==
  ASSUME IInv, NEW b \in BOOLEAN, Pause(b)
  PROVE  IInv'
BY DEF IInv, TypeOK, Free, ReservesBacked, WatchedOpened, AccusedDrawsNothing, Pause, book,
       court, slash

-------------------------------------------------------------------------------
(* Credit decisions *)

LEMMA OpenLineInv ==
  ASSUME IInv, NEW a \in Agents, NEW max \in Nat, NEW term \in Nat,
         OpenCreditLine(a, max, term),
         UNCHANGED <<pool, court, slash, paused>>
  PROVE  /\ lines' \in [Agents -> Line] /\ revived' \subseteq Agents /\ Free' >= 0
         /\ \A b \in Agents : lines'[b].drawn <= lines[b].drawn
<1> DEFINE l == [status |-> "active", max_credit |-> max, drawn |-> lines[a].drawn,
                 age |-> 0, term |-> term]
<1>1. l \in Line /\ l.drawn <= lines[a].drawn
  BY PoolNumbers DEF Line
<1>2. lines' = [lines EXCEPT ![a] = l] /\ Revives(a)
  BY PoolNumbers DEF OpenCreditLine
<1> HIDE DEF l
<1>3. /\ lines' \in [Agents -> Line]
      /\ \A b \in Agents : lines'[b].drawn <= lines[b].drawn
  BY <1>1, <1>2, LineOnly
<1>4. Free' >= 0
  BY PoolNumbers DEF Free
<1>5. QED
  BY <1>2, <1>3, <1>4, RevivesType

LEMMA UnderwriteInv ==
  ASSUME IInv, NEW a \in Agents, NEW max \in Limits, Underwrite(a, max) \/ Review(a, max)
  PROVE  IInv'
<1>1. max \in Nat /\ lines[a].term \in Nat /\ lines[a].age \in Nat
  BY ConstantFacts, LineFacts DEF IInv
<1>2. PICK term \in Nat : OpenCreditLine(a, max, term)
  <2>1. (IF lines[a].term > lines[a].age THEN lines[a].term - lines[a].age ELSE 1) \in Nat
    BY <1>1
  <2>2. QED
    BY <2>1, ConstantFacts DEF Underwrite, Review
<1>3. UNCHANGED <<pool, offers, court, slash, paused>>
  BY DEF Underwrite, Review
<1>4. /\ lines' \in [Agents -> Line] /\ revived' \subseteq Agents /\ Free' >= 0
      /\ \A b \in Agents : lines'[b].drawn <= lines[b].drawn
  BY <1>1, <1>2, <1>3, OpenLineInv
<1>5. QED
  BY <1>3, <1>4, PoolNumbers, BookOnly

\* Only the offers change.
LEMMA OffersOnly ==
  ASSUME IInv, UNCHANGED <<book, court, slash, paused, revived>>,
         offers' \in [Offers -> Offer]
  PROVE  IInv'
BY DEF IInv, TypeOK, Free, ReservesBacked, WatchedOpened, AccusedDrawsNothing, book, court,
       slash

LEMMA IssueOfferInv ==
  ASSUME IInv, NEW o \in Offers, NEW a \in Agents, NEW max \in Limits,
         IssueOffer(o, a, max)
  PROVE  IInv'
<1>1. offers' \in [Offers -> Offer]
  BY ConstantFacts DEF IInv, TypeOK, Offer, IssueOffer
<1>2. QED
  BY <1>1, OffersOnly DEF IssueOffer

LEMMA OfferOver ==
  ASSUME IInv, NEW o \in Offers, offers' = [offers EXCEPT ![o].status = "over"]
  PROVE  offers' \in [Offers -> Offer]
BY DEF IInv, TypeOK, Offer

LEMMA EndOfferInv ==
  ASSUME IInv, NEW o \in Offers, EndOffer(o)
  PROVE  IInv'
BY OfferOver, OffersOnly DEF EndOffer

LEMMA AcceptOfferInv ==
  ASSUME IInv, NEW o \in Offers, AcceptOffer(o)
  PROVE  IInv'
<1>1. PICK a \in Agents : a = offers[o].agent
  BY DEF IInv, TypeOK, Offer
<1>2. PICK max \in Nat : max = offers[o].max_credit
  BY DEF IInv, TypeOK, Offer
<1>3. OpenCreditLine(a, max, Term) /\ UNCHANGED <<pool, court, slash, paused>>
  BY <1>1, <1>2 DEF AcceptOffer
<1>4. /\ lines' \in [Agents -> Line] /\ revived' \subseteq Agents /\ Free' >= 0
      /\ \A b \in Agents : lines'[b].drawn <= lines[b].drawn
  BY <1>3, ConstantFacts, OpenLineInv
<1>5. offers' \in [Offers -> Offer]
  BY OfferOver DEF AcceptOffer
<1>6. /\ TypeOK' /\ ReservesBacked' /\ WatchedOpened'
  BY <1>3, <1>4, <1>5 DEF IInv, TypeOK, ReservesBacked, WatchedOpened, court, slash
<1>7. AccusedDrawsNothing'
  BY <1>3, <1>4, AccusedKept
<1>8. QED
  BY <1>4, <1>6, <1>7 DEF IInv

-------------------------------------------------------------------------------
(* Stake, the vault and the courts *)

\* Only the stakes and the vault change.
LEMMA SlashOnly ==
  ASSUME IInv, UNCHANGED <<book, offers, court, paused, revived>>,
         stake' \in [Agents -> Nat], reserves' \in [insurance: Nat, others: Nat],
         taken' \in Int, uncovered' \in BOOLEAN, ReservesBacked'
  PROVE  IInv'
BY DEF IInv, TypeOK, Free, WatchedOpened, AccusedDrawsNothing, book, court

LEMMA StakeInv ==
  ASSUME IInv, NEW a \in Agents, NEW n \in Stakes, Stake(a, n)
  PROVE  IInv'
<1>1. stake' \in [Agents -> Nat]
  BY ConstantFacts DEF IInv, TypeOK, Stake
<1>2. UNCHANGED <<reserves, taken, uncovered>> /\ ReservesBacked'
  BY DEF Stake, IInv, ReservesBacked
<1>3. QED
  BY <1>1, <1>2, SlashOnly DEF IInv, TypeOK, Stake

LEMMA CoverDefaultInv ==
  ASSUME IInv, NEW loss \in Amounts, CoverDefault(loss)
  PROVE  IInv'
<1>1. PICK n \in Nat : n = Lesser(loss, reserves.insurance)
  BY ConstantFacts DEF IInv, TypeOK, Lesser
<1>2. ClaimInsurance(n)
  BY <1>1 DEF CoverDefault
<1>3. /\ n <= reserves.insurance
      /\ reserves' = [reserves EXCEPT !.insurance = @ - n]
      /\ taken' = IF uncovered THEN 0 ELSE taken - n
      /\ UNCHANGED <<book, offers, court, stake, uncovered, paused, revived>>
  BY <1>2 DEF ClaimInsurance
<1>4. /\ reserves \in [insurance: Nat, others: Nat] /\ taken \in Int
      /\ stake \in [Agents -> Nat] /\ uncovered \in BOOLEAN
  BY DEF IInv, TypeOK
<1>5. reserves' \in [insurance: Nat, others: Nat] /\ taken' \in Int
  BY <1>3, <1>4
<1>6. ReservesBacked'
  BY <1>3, <1>4 DEF IInv, ReservesBacked
<1>7. QED
  BY <1>3, <1>4, <1>5, <1>6, SlashOnly

LEMMA OpenDisputeInv ==
  ASSUME IInv, NEW d \in Disputes, NEW a \in Agents, OpenDispute(d, a)
  PROVE  IInv'
<1>1. /\ disputes[d].status = "none" /\ disputes' = Opened(d, a)
      /\ UNCHANGED <<book, offers, slash, paused, watcher, revived>>
  BY DEF OpenDispute
<1>2. disputes' \in [Disputes -> Dispute] /\ WatchedOpened' /\ AccusedDrawsNothing'
  BY <1>1, OpenedKeeps DEF book
<1>3. QED
  BY <1>1, <1>2, CourtOnly DEF IInv, TypeOK

LEMMA StartAuditInv ==
  ASSUME IInv, NEW w \in Watchers, NEW d \in Disputes, NEW a \in Agents,
         StartAudit(w, d, a)
  PROVE  IInv'
<1>1. /\ disputes[d].status = "none" /\ disputes' = Opened(d, a)
      /\ watcher' = [watcher EXCEPT ![w] = [dispute |-> d, drawn |-> lines[a].drawn]]
      /\ UNCHANGED <<book, offers, slash, paused, revived>>
  BY DEF StartAudit
<1>2. /\ watcher' \in [Watchers -> [dispute: Disputes \cup {NoDispute}, drawn: Nat]]
      /\ watcher'[w] = [dispute |-> d, drawn |-> lines[a].drawn]
      /\ \A v \in Watchers \ {w} : watcher'[v] = watcher[v]
  BY <1>1, PoolNumbers DEF IInv, TypeOK
<1>3. disputes' \in [Disputes -> Dispute] /\ WatchedOpened' /\ AccusedDrawsNothing'
  BY <1>1, <1>2, OpenedKeeps DEF book
<1>4. QED
  BY <1>1, <1>2, <1>3, CourtOnly

LEMMA JuryVerdictInv ==
  ASSUME IInv, NEW d \in Disputes, JuryVerdict(d)
  PROVE  IInv'
<1>1. /\ disputes' = [disputes EXCEPT ![d].status = "resolved"]
      /\ UNCHANGED <<book, offers, slash, watcher, paused, revived>>
  BY DEF JuryVerdict
<1>2. \A a \in Agents : lines'[a].drawn = lines[a].drawn
  BY <1>1 DEF book
<1>3. disputes' \in [Disputes -> Dispute] /\ WatchedOpened' /\ AccusedDrawsNothing'
  BY <1>1, <1>2, VerdictKeeps
<1>4. QED
  BY <1>1, <1>3, CourtOnly DEF IInv, TypeOK

\* A verdict and what is enforced with it.
LEMMA Enforced ==
  ASSUME IInv, UNCHANGED <<pool, offers, paused>>, revived' \subseteq Agents,
         lines' \in [Agents -> Line], disputes' \in [Disputes -> Dispute],
         watcher' \in [Watchers -> [dispute: Disputes \cup {NoDispute}, drawn: Nat]],
         WatchedOpened', AccusedDrawsNothing',
         stake' \in [Agents -> Nat], reserves' \in [insurance: Nat, others: Nat],
         taken' \in Int, uncovered' \in BOOLEAN, ReservesBacked'
  PROVE  IInv'
BY DEF IInv, TypeOK, Free

LEMMA SlashOrNot ==
  ASSUME IInv, NEW a \in Agents, NEW n \in Nat, Slash(a, n, 30) \/ UNCHANGED slash
  PROVE  /\ stake' \in [Agents -> Nat] /\ reserves' \in [insurance: Nat, others: Nat]
         /\ taken' \in Int /\ uncovered' \in BOOLEAN
         /\ ReservesBacked'
<1>1. CASE UNCHANGED slash
  BY <1>1 DEF IInv, TypeOK, ReservesBacked, slash
<1>2. CASE Slash(a, n, 30)
  BY <1>2, SlashBacked
<1>3. QED
  BY <1>1, <1>2

LEMMA ResolveDisputeInv ==
  ASSUME IInv, NEW d \in Disputes, NEW n \in Slashes, ResolveDispute(d, n)
  PROVE  IInv'
<1>1. PICK a \in Agents : a = disputes[d].respondent
  BY DEF IInv, TypeOK, Dispute
<1>2. /\ disputes' = [disputes EXCEPT ![d].status = "closed"]
      /\ Slash(a, n, 30) \/ UNCHANGED slash
      /\ UNCHANGED <<book, offers, watcher, paused, revived>>
  BY <1>1 DEF ResolveDispute
<1>3. \A b \in Agents : lines'[b].drawn = lines[b].drawn
  BY <1>2 DEF book
<1>4. disputes' \in [Disputes -> Dispute] /\ WatchedOpened' /\ AccusedDrawsNothing'
  BY <1>2, <1>3, VerdictKeeps
<1>5. n \in Nat
  BY ConstantFacts
<1>6. /\ stake' \in [Agents -> Nat] /\ reserves' \in [insurance: Nat, others: Nat]
      /\ taken' \in Int /\ uncovered' \in BOOLEAN /\ ReservesBacked'
  BY <1>2, <1>5, SlashOrNot
<1>7. lines' \in [Agents -> Line] /\ revived' \subseteq Agents /\ UNCHANGED pool
      /\ watcher' \in [Watchers -> [dispute: Disputes \cup {NoDispute}, drawn: Nat]]
  BY <1>2 DEF IInv, TypeOK, book
<1>8. QED
  BY <1>2, <1>4, <1>6, <1>7, Enforced

LEMMA JudgedInv ==
  ASSUME IInv, NEW w \in Watchers, Judged(w)
  PROVE  IInv'
<1>1. PICK status \in {"resolved", "closed"} : EndAudit(w, status)
  BY DEF Judged, PunishFault, FindNoFault, FailToEnforce
<1>2. PICK d \in Disputes : d = watcher[w].dispute
  BY <1>1 DEF EndAudit, IInv, TypeOK
<1>3. PICK a \in Agents : a = disputes[d].respondent
  BY DEF IInv, TypeOK, Dispute
<1>4. /\ disputes' = [disputes EXCEPT ![d].status = status]
      /\ watcher' = [watcher EXCEPT ![w] = Idle]
      /\ UNCHANGED <<offers, paused>>
  BY <1>1, <1>2 DEF EndAudit
<1>5. /\ watcher' \in [Watchers -> [dispute: Disputes \cup {NoDispute}, drawn: Nat]]
      /\ \A v \in Watchers : watcher'[v] = watcher[v] \/ watcher'[v] = Idle
  BY <1>4 DEF IInv, TypeOK, Idle
<1>6. \/ UNCHANGED <<book, slash, revived>>
      \/ \E n \in Slashes :
           /\ Slash(a, n, 30) /\ lines' = Frozen(a) /\ Revives(a) /\ UNCHANGED pool
  BY <1>2, <1>3 DEF Judged, PunishFault, FindNoFault, FailToEnforce
<1>7. /\ lines' \in [Agents -> Line] /\ revived' \subseteq Agents /\ UNCHANGED pool
      /\ \A b \in Agents : lines'[b].drawn = lines[b].drawn
  BY <1>6, FrozenLines, RevivesType, PoolNumbers DEF book
<1>8. /\ stake' \in [Agents -> Nat] /\ reserves' \in [insurance: Nat, others: Nat]
      /\ taken' \in Int /\ uncovered' \in BOOLEAN /\ ReservesBacked'
  <2>1. CASE UNCHANGED slash
    BY <2>1 DEF IInv, TypeOK, ReservesBacked, slash
  <2>2. ASSUME NEW n \in Slashes, Slash(a, n, 30)
        PROVE  /\ stake' \in [Agents -> Nat]
               /\ reserves' \in [insurance: Nat, others: Nat]
               /\ taken' \in Int /\ uncovered' \in BOOLEAN /\ ReservesBacked'
    BY <2>2, ConstantFacts, SlashOrNot
  <2>3. QED
    BY <1>6, <2>1, <2>2
<1>9. disputes' \in [Disputes -> Dispute] /\ WatchedOpened' /\ AccusedDrawsNothing'
  BY <1>4, <1>5, <1>7, VerdictKeeps
<1>10. QED
  BY <1>4, <1>5, <1>7, <1>8, <1>9, Enforced

LEMMA LiquidateInv ==
  ASSUME IInv, NEW a \in Agents, Liquidate(a)
  PROVE  IInv'
<1> DEFINE l == [lines[a] EXCEPT !.status = "defaulted"]
<1>1. l \in Line /\ l.drawn <= lines[a].drawn /\ lines[a].drawn \in Nat
      /\ lines[a].max_credit \in Nat
  BY PoolNumbers DEF Line
<1>2. /\ lines' = [lines EXCEPT ![a] = l]
      /\ pool' = [total |-> pool.total - lines[a].drawn,
                  outstanding |-> pool.outstanding - lines[a].drawn]
      /\ Slash(a, lines[a].max_credit, 70)
      /\ UNCHANGED <<offers, court, paused, revived>>
  BY DEF Liquidate
<1> HIDE DEF l
<1>3. /\ lines' \in [Agents -> Line]
      /\ \A b \in Agents : lines'[b].drawn <= lines[b].drawn
  BY <1>1, <1>2, LineOnly
<1>4. /\ pool' \in [total: Int, outstanding: Int]
      /\ pool'.total - pool'.outstanding = pool.total - pool.outstanding
  BY <1>1, <1>2, PoolNumbers
<1>5. Free' >= 0
  BY <1>4, PoolNumbers DEF Free
<1>6. /\ stake' \in [Agents -> Nat] /\ reserves' \in [insurance: Nat, others: Nat]
      /\ taken' \in Int /\ uncovered' \in BOOLEAN /\ ReservesBacked'
  BY <1>1, <1>2, SlashBacked
<1>7. TypeOK' /\ WatchedOpened'
  BY <1>2, <1>3, <1>4, <1>6 DEF IInv, TypeOK, WatchedOpened, court
<1>8. AccusedDrawsNothing'
  BY <1>2, <1>3, AccusedKept
<1>9. QED
  BY <1>5, <1>6, <1>7, <1>8 DEF IInv

-------------------------------------------------------------------------------
(* The theorems *)

LEMMA StepInv == IInv /\ [Next]_vars => IInv'
<1> SUFFICES ASSUME IInv, [Next]_vars PROVE IInv'
  OBVIOUS
<1>1. CASE Lending
  BY <1>1, DepositInv, TickInv, PauseInv, DrawInv, RepayInv, FreezeInv DEF Lending
<1>2. CASE Underwriting
  BY <1>2, UnderwriteInv, IssueOfferInv, AcceptOfferInv, EndOfferInv DEF Underwriting
<1>3. CASE Enforcement
  BY <1>3, StakeInv, OpenDisputeInv, StartAuditInv, LiquidateInv, ResolveDisputeInv,
     JuryVerdictInv, JudgedInv, CoverDefaultInv DEF Enforcement
<1>4. CASE UNCHANGED vars
  BY <1>4 DEF IInv, TypeOK, Free, ReservesBacked, WatchedOpened, AccusedDrawsNothing, vars,
              book, court, slash
<1>5. QED
  BY <1>1, <1>2, <1>3, <1>4 DEF Next

\* The invariant holds of every behaviour.
THEOREM CreditInvariance == Spec => []IInv
<1>1. QED
  BY InitInv, StepInv, PTL DEF Spec

\* Every variable keeps its type: no debt, stake or reserve goes below zero.
THEOREM CreditTypes == Spec => []TypeOK
<1>1. IInv => TypeOK
  BY DEF IInv
<1>2. QED
  BY <1>1, CreditInvariance, PTL

\* The slashing vault holds what was taken from stakes, to the last unit, until a slash
\* exceeds the stake it is taken from (apply_slash, claim_insurance).
THEOREM CreditReservesBacked == Spec => []ReservesBacked
<1>1. IInv => ReservesBacked
  BY DEF IInv
<1>2. QED
  BY <1>1, CreditInvariance, PTL

\* An agent under audit draws nothing, however its line is reopened (fundDraw,
\* escalateDispute).
THEOREM CreditAccusedDrawsNothing == Spec => []AccusedDrawsNothing
<1>1. IInv => AccusedDrawsNothing
  BY DEF IInv
<1>2. QED
  BY <1>1, CreditInvariance, PTL

-------------------------------------------------------------------------------
(* The promise to the depositors *)

Kept == Promise!Next \/ UNCHANGED <<cash, owed>>

\* A step that leaves what is free and what each agent has drawn keeps the promise.
LEMMA Untouched ==
  ASSUME Free' = Free, \A a \in Agents : lines'[a].drawn = lines[a].drawn
  PROVE  Kept
BY DEF Kept, cash, owed

\* What one agent owes changes, and nothing of the others.
LEMMA OwedChange ==
  ASSUME NEW a \in Agents, NEW n \in Nat, lines'[a].drawn = n,
         \A b \in Agents \ {a} : lines'[b].drawn = lines[b].drawn
  PROVE  owed' = [owed EXCEPT ![a] = n] /\ owed'[a] = n /\ owed[a] = lines[a].drawn
<1>1. /\ owed = [b \in Agents |-> lines[b].drawn]
      /\ owed' = [b \in Agents |-> lines'[b].drawn]
  BY DEF owed
<1>2. QED
  BY <1>1

LEMMA DepositKept ==
  ASSUME IInv, NEW n \in Amounts, Deposit(n) \/ Withdraw(n)
  PROVE  Kept
<1>1. n \in Nat /\ n > 0
  BY ConstantFacts
<1>2. owed' = owed
  BY DEF Deposit, Withdraw, owed
<1>3. CASE Deposit(n)
  <2>1. pool'.total = pool.total + n /\ pool'.outstanding = pool.outstanding
    BY <1>3, PoolNumbers DEF Deposit
  <2>2. cash' > cash
    BY <1>1, <2>1, PoolNumbers DEF cash, Free
  <2>3. QED
    BY <1>2, <2>2 DEF Kept, Promise!Next, Promise!Deposit
<1>4. CASE Withdraw(n)
  <2>1. /\ pool'.total = pool.total - n /\ pool'.outstanding = pool.outstanding
        /\ n <= Free
    BY <1>4, PoolNumbers DEF Withdraw
  <2>2. cash' \in 0..cash
    BY <1>1, <2>1, PoolNumbers DEF cash, Free
  <2>3. QED
    BY <1>2, <2>2 DEF Kept, Promise!Next, Promise!Withdraw
<1>5. QED
  BY <1>3, <1>4

LEMMA DrawKept ==
  ASSUME IInv, NEW a \in Agents, NEW n \in Amounts, Draw(a, n)
  PROVE  Kept
<1>1. n \in Nat /\ lines \in [Agents -> Line] /\ lines[a].drawn \in Nat
  BY ConstantFacts, PoolNumbers
<1>2. /\ n <= Free /\ lines' = [lines EXCEPT ![a].drawn = @ + n]
      /\ pool' = [pool EXCEPT !.outstanding = @ + n]
  BY DEF Draw
<1>3. /\ lines'[a].drawn = lines[a].drawn + n
      /\ \A b \in Agents \ {a} : lines'[b].drawn = lines[b].drawn
  BY <1>1, <1>2 DEF Line
<1>4. owed' = [owed EXCEPT ![a] = lines[a].drawn + n] /\ owed[a] = lines[a].drawn
  BY <1>1, <1>3, OwedChange
<1>5. pool'.total = pool.total /\ pool'.outstanding = pool.outstanding + n
  BY <1>2, PoolNumbers
<1>6. cash' \in 0..cash /\ cash - cash' = n
  BY <1>1, <1>2, <1>5, PoolNumbers DEF cash, Free
<1>7. Promise!Lend(a)
  BY <1>4, <1>6 DEF Promise!Lend
<1>8. QED
  BY <1>7 DEF Kept, Promise!Next

LEMMA RepayKept ==
  ASSUME IInv, NEW a \in Agents, NEW n \in Amounts, Repay(a, n)
  PROVE  Kept
<1>1. /\ n \in Nat /\ n > 0 /\ lines \in [Agents -> Line] /\ lines[a].drawn \in Nat
  BY ConstantFacts, PoolNumbers
<1>2. PICK p \in 0..lines[a].drawn :
        /\ p <= n
        /\ pool' = [total |-> pool.total + (n - p), outstanding |-> pool.outstanding - p]
        /\ lines' = [lines EXCEPT ![a].drawn = lines[a].drawn - p,
                                  ![a].age = IF lines[a].drawn - p = 0
                                                /\ lines[a].status = "active"
                                               THEN 0 ELSE @]
  BY RepayFacts
<1>3. /\ lines'[a].drawn = lines[a].drawn - p
      /\ \A b \in Agents \ {a} : lines'[b].drawn = lines[b].drawn
  BY <1>1, <1>2 DEF Line
<1>4. lines[a].drawn - p \in Nat
  BY <1>1
<1>5. /\ owed' = [owed EXCEPT ![a] = owed'[a]] /\ owed'[a] = lines[a].drawn - p
      /\ owed[a] = lines[a].drawn
  BY <1>3, <1>4, OwedChange
<1>6. cash' = cash + n /\ cash \in Nat
  BY <1>1, <1>2, PoolNumbers DEF cash, Free
<1>7. /\ owed'[a] \in 0..owed[a] /\ cash' > cash /\ owed[a] - owed'[a] <= cash' - cash
  BY <1>1, <1>2, <1>5, <1>6
<1>8. Promise!Collect(a)
  BY <1>5, <1>7 DEF Promise!Collect
<1>9. QED
  BY <1>8 DEF Kept, Promise!Next

\* Opening a line keeps what is drawn on it.
LEMMA OpenLineKept ==
  ASSUME IInv, NEW a \in Agents, NEW max, NEW term, OpenCreditLine(a, max, term),
         UNCHANGED pool
  PROVE  Kept
<1>1. \A b \in Agents : lines'[b].drawn = lines[b].drawn
  BY PoolNumbers DEF OpenCreditLine
<1>2. QED
  BY <1>1, Untouched DEF Free

LEMMA LiquidateKept ==
  ASSUME IInv, NEW a \in Agents, Liquidate(a)
  PROVE  Kept
<1>1. lines \in [Agents -> Line] /\ lines[a].drawn \in Nat
  BY PoolNumbers
<1>2. /\ lines' = [lines EXCEPT ![a].status = "defaulted"]
      /\ pool' = [total |-> pool.total - lines[a].drawn,
                  outstanding |-> pool.outstanding - lines[a].drawn]
  BY DEF Liquidate
<1>3. \A b \in Agents : lines'[b].drawn = lines[b].drawn
  BY <1>1, <1>2 DEF Line
<1>4. Free' = Free
  BY <1>1, <1>2, PoolNumbers DEF Free
<1>5. QED
  BY <1>3, <1>4, Untouched

LEMMA FreezeKept ==
  ASSUME IInv, NEW a \in Agents, lines' = Frozen(a), UNCHANGED pool
  PROVE  Kept
BY FrozenLines, Untouched DEF Free

LEMMA PromiseStep == IInv /\ [Next]_vars => [Promise!Next]_(Promise!vars)
<1> SUFFICES ASSUME IInv, [Next]_vars PROVE Kept
  BY DEF Kept, Promise!vars
<1>1. CASE Lending
  <2>1. CASE Tick
    <3>1. UNCHANGED pool /\ \A a \in Agents : lines'[a].drawn = lines[a].drawn
      BY <2>1, PoolNumbers DEF Tick, Line
    <3>2. QED
      BY <3>1, Untouched DEF Free
  <2>2. CASE \E b \in BOOLEAN : Pause(b)
    BY <2>2, Untouched DEF Pause, Free, book
  <2>3. QED
    BY <1>1, <2>1, <2>2, DepositKept, DrawKept, RepayKept, FreezeKept DEF Lending, Freeze
<1>2. CASE Underwriting
  <2>1. ASSUME NEW a \in Agents, NEW max \in Limits, Underwrite(a, max) PROVE Kept
    BY <2>1, OpenLineKept DEF Underwrite
  <2>2. ASSUME NEW a \in Agents, NEW max \in Limits, Review(a, max) PROVE Kept
    BY <2>2, OpenLineKept DEF Review
  <2>3. ASSUME NEW o \in Offers, AcceptOffer(o) PROVE Kept
    <3>1. PICK a \in Agents : a = offers[o].agent
      BY DEF IInv, TypeOK, Offer
    <3>2. QED
      BY <2>3, <3>1, OpenLineKept DEF AcceptOffer
  <2>4. ASSUME UNCHANGED book PROVE Kept
    BY <2>4, Untouched DEF Free, book
  <2>5. QED
    BY <1>2, <2>1, <2>2, <2>3, <2>4 DEF Underwriting, IssueOffer, EndOffer
<1>3. CASE Enforcement
  <2>1. ASSUME NEW w \in Watchers, Judged(w) PROVE Kept
    <3>1. PICK a \in Agents : a = disputes[watcher[w].dispute].respondent
      BY <2>1 DEF Judged, PunishFault, FindNoFault, FailToEnforce, EndAudit, IInv, TypeOK,
                  Dispute
    <3>2. CASE UNCHANGED book
      BY <3>2, Untouched DEF Free, book
    <3>3. CASE lines' = Frozen(a) /\ UNCHANGED pool
      BY <3>3, FreezeKept
    <3>4. QED
      BY <2>1, <3>1, <3>2, <3>3 DEF Judged, PunishFault, FindNoFault, FailToEnforce
  <2>2. ASSUME UNCHANGED book PROVE Kept
    BY <2>2, Untouched DEF Free, book
  <2>3. QED
    BY <1>3, <2>1, <2>2, LiquidateKept
    DEF Enforcement, Stake, OpenDispute, StartAudit, ResolveDispute, JuryVerdict,
        CoverDefault, ClaimInsurance
<1>4. CASE UNCHANGED vars
  BY <1>4, Untouched DEF Free, vars, book
<1>5. QED
  BY <1>1, <1>2, <1>3, <1>4 DEF Next

LEMMA PromiseInit == Init => Promise!Init
BY DEF Init, NoLine, Promise!Init, cash, owed, Free

\* The pool keeps its promise to its depositors (LendingPool), through defaults, reopened
\* lines and repayments of losses long written off.
THEOREM PoolKeepsPromise == Spec => PoolPromise
<1>1. QED
  BY PromiseInit, PromiseStep, CreditInvariance, PTL DEF Spec, PoolPromise, Promise!Spec

-------------------------------------------------------------------------------
(* What is outstanding is owed *)

Undefaulted == {a \in Agents : lines[a].status # "defaulted"}

Debts == [a \in Agents |-> lines[a].drawn]

\* What one line owes the pool, as the pool sees it.
Owes(a) == IF a \in Undefaulted THEN lines[a].drawn ELSE 0

BooksInv == IInv /\ OutstandingIsOwed

\* The invariant as one sum, now and in the next state.
LEMMA OwedIs ==
  /\ OutstandingIsOwed <=>
       (revived = {} => pool.outstanding = SumFunctionOnSet(Debts, Undefaulted))
  /\ OutstandingIsOwed' <=>
       (revived' = {} => pool'.outstanding = SumFunctionOnSet(Debts', Undefaulted'))
BY DEF OutstandingIsOwed, Debts, Undefaulted

\* The books move with one line.
LEMMA OneLineMoves ==
  ASSUME BooksInv, IInv', NEW a \in Agents, \A b \in Agents \ {a} : lines'[b] = lines[b],
         revived' = {} => /\ revived = {}
                          /\ pool'.outstanding = pool.outstanding - Owes(a) + Owes(a)'
  PROVE  OutstandingIsOwed'
<1> DEFINE S == Undefaulted
           T == Undefaulted'
           f == Debts
           g == Debts'
<1>1. SUFFICES ASSUME revived' = {}
               PROVE  pool'.outstanding = SumFunctionOnSet(g, T)
  BY OwedIs
<1>2. /\ pool'.outstanding = pool.outstanding - Owes(a) + Owes(a)'
      /\ pool.outstanding = SumFunctionOnSet(f, S)
  BY <1>1, OwedIs DEF BooksInv
<1>3. S \subseteq Agents /\ T \subseteq Agents /\ IsFiniteSet(S) /\ IsFiniteSet(T)
  <2>1. S \subseteq Agents /\ T \subseteq Agents
    BY DEF Undefaulted
  <2>2. QED
    BY <2>1, FS_Subset, CreditConstants
<1>4. \A b \in Agents : /\ f[b] \in Int /\ g[b] \in Int
                        /\ f[b] = lines[b].drawn /\ g[b] = lines'[b].drawn
  BY DEF BooksInv, IInv, TypeOK, Line, Debts
<1>5. S \ {a} = T \ {a}
  BY DEF Undefaulted
<1>6. \A b \in S \ {a} : f[b] = g[b]
  BY <1>3, <1>4
<1>7. /\ Owes(a) = IF a \in S THEN f[a] ELSE 0
      /\ Owes(a)' = IF a \in T THEN g[a] ELSE 0
  BY <1>4 DEF Owes
<1>8. (\A b \in S : f[b] \in Int) /\ (\A b \in T : g[b] \in Int)
  BY <1>3, <1>4
<1> HIDE DEF S, T, f, g
<1>9. SumFunctionOnSet(g, T) = SumFunctionOnSet(f, S) - (IF a \in S THEN f[a] ELSE 0)
                                                      + (IF a \in T THEN g[a] ELSE 0)
  BY <1>3, <1>5, <1>6, <1>8, SumChange
<1>10. QED
  BY <1>2, <1>7, <1>9

\* A line that is used: unless it had defaulted with a debt, the pool sees what it owes.
LEMMA UsedLine ==
  ASSUME BooksInv, NEW a \in Agents, Revives(a), revived' = {}
  PROVE  revived = {} /\ Owes(a) = lines[a].drawn /\ lines[a].drawn \in Nat
<1>1. lines[a].drawn \in Nat
  BY PoolNumbers DEF BooksInv
<1>2. ~(lines[a].status = "defaulted" /\ lines[a].drawn > 0) /\ revived = {}
  BY DEF Revives
<1>3. QED
  BY <1>1, <1>2 DEF Owes, Undefaulted

\* Lines and defaults as they were, sum as it was.
LEMMA DebtsStay ==
  ASSUME BooksInv, UNCHANGED <<pool, revived>>,
         \A a \in Agents : lines'[a].drawn = lines[a].drawn /\ lines'[a].status = lines[a].status
  PROVE  OutstandingIsOwed'
<1>1. Debts' = Debts /\ Undefaulted' = Undefaulted
  BY DEF Debts, Undefaulted
<1>2. QED
  BY <1>1, OwedIs DEF BooksInv

\* A draw is owed and outstanding.
LEMMA DrawBooks ==
  ASSUME BooksInv, IInv', NEW a \in Agents, NEW n \in Amounts, Draw(a, n)
  PROVE  OutstandingIsOwed'
<1>1. /\ n \in Int /\ lines \in [Agents -> Line] /\ lines[a] \in Line /\ lines[a].drawn \in Nat
      /\ pool.outstanding \in Int
  BY ConstantFacts, PoolNumbers DEF BooksInv
<1>2. /\ lines' = [lines EXCEPT ![a].drawn = @ + n] /\ lines[a].status = "active"
      /\ pool' = [pool EXCEPT !.outstanding = @ + n] /\ revived' = revived
  BY DEF Draw
<1>3. /\ lines'[a].drawn = lines[a].drawn + n /\ lines'[a].status = "active"
      /\ \A b \in Agents \ {a} : lines'[b] = lines[b]
  BY <1>1, <1>2 DEF Line
<1>4. pool'.outstanding = pool.outstanding + n
  BY <1>2, PoolNumbers DEF BooksInv
<1>5. Owes(a) = lines[a].drawn /\ Owes(a)' = lines[a].drawn + n
  BY <1>2, <1>3 DEF Owes, Undefaulted
<1>6. pool'.outstanding = pool.outstanding - Owes(a) + Owes(a)'
  BY <1>1, <1>4, <1>5
<1>7. QED
  BY <1>2, <1>3, <1>6, OneLineMoves

\* A repayment lowers both alike.
LEMMA RepayBooks ==
  ASSUME BooksInv, IInv', NEW a \in Agents, NEW n \in Amounts, Repay(a, n)
  PROVE  OutstandingIsOwed'
<1>1. /\ lines \in [Agents -> Line] /\ lines[a] \in Line /\ lines[a].drawn \in Nat
      /\ pool.outstanding \in Int
  BY PoolNumbers DEF BooksInv
<1>2. PICK p \in 0..lines[a].drawn :
        /\ pool' = [total |-> pool.total + (n - p), outstanding |-> pool.outstanding - p]
        /\ lines' = [lines EXCEPT ![a].drawn = lines[a].drawn - p,
                                  ![a].age = IF lines[a].drawn - p = 0
                                                /\ lines[a].status = "active"
                                               THEN 0 ELSE @]
  BY RepayFacts DEF BooksInv
<1>3. /\ lines'[a].drawn = lines[a].drawn - p /\ lines'[a].status = lines[a].status
      /\ \A b \in Agents \ {a} : lines'[b] = lines[b]
  BY <1>1, <1>2 DEF Line
<1>4. ASSUME revived' = {}
      PROVE  revived = {} /\ pool'.outstanding = pool.outstanding - Owes(a) + Owes(a)'
  <2>1. revived = {} /\ Owes(a) = lines[a].drawn
    BY <1>4, UsedLine DEF Repay
  <2>2. Owes(a)' = lines[a].drawn - p
    BY <1>1, <1>2, <1>3, <2>1 DEF Owes, Undefaulted
  <2>3. pool'.outstanding = pool.outstanding - p
    BY <1>2
  <2>4. QED
    BY <1>1, <2>1, <2>2, <2>3
<1>5. QED
  BY <1>3, <1>4, OneLineMoves

\* A line opened or frozen anew owes what it owed.
LEMMA ReopenedBooks ==
  ASSUME BooksInv, IInv', NEW a \in Agents, NEW l, lines' = [lines EXCEPT ![a] = l],
         l.drawn = lines[a].drawn, l.status # "defaulted", Revives(a), UNCHANGED pool
  PROVE  OutstandingIsOwed'
<1>1. /\ lines \in [Agents -> Line] /\ lines[a].drawn \in Nat /\ pool.outstanding \in Int
  BY PoolNumbers DEF BooksInv
<1>2. lines'[a] = l /\ \A b \in Agents \ {a} : lines'[b] = lines[b]
  BY <1>1
<1>3. ASSUME revived' = {}
      PROVE  revived = {} /\ pool'.outstanding = pool.outstanding - Owes(a) + Owes(a)'
  <2>1. revived = {} /\ Owes(a) = lines[a].drawn
    BY <1>3, UsedLine
  <2>2. Owes(a)' = lines[a].drawn
    BY <1>2 DEF Owes, Undefaulted
  <2>3. QED
    BY <1>1, <2>1, <2>2
<1>4. QED
  BY <1>2, <1>3, OneLineMoves

\* Reopening keeps the debt, and counts a defaulted line as revived.
LEMMA OpenLineBooks ==
  ASSUME BooksInv, IInv', NEW a \in Agents, NEW max, NEW term,
         OpenCreditLine(a, max, term), UNCHANGED pool
  PROVE  OutstandingIsOwed'
<1> DEFINE l == [status |-> "active", max_credit |-> max, drawn |-> lines[a].drawn,
                 age |-> 0, term |-> term]
<1>1. lines' = [lines EXCEPT ![a] = l] /\ Revives(a)
  BY PoolNumbers DEF OpenCreditLine, BooksInv
<1>2. l.drawn = lines[a].drawn /\ l.status # "defaulted"
  OBVIOUS
<1> HIDE DEF l
<1>3. QED
  BY <1>1, <1>2, ReopenedBooks

\* A frozen line still owes; a defaulted one that is frozen counts as revived.
LEMMA FreezeBooks ==
  ASSUME BooksInv, IInv', NEW a \in Agents, lines' = Frozen(a), Revives(a), UNCHANGED pool
  PROVE  OutstandingIsOwed'
<1> DEFINE s == IF lines[a].status = "none" THEN "none" ELSE "frozen"
           l == [lines[a] EXCEPT !.status = s]
<1>1. lines \in [Agents -> Line] /\ lines[a] \in Line
  BY PoolNumbers DEF BooksInv
<1>2. lines' = [lines EXCEPT ![a] = l]
  BY <1>1 DEF Frozen
<1>3. l.drawn = lines[a].drawn /\ l.status # "defaulted"
  BY <1>1 DEF Line
<1> HIDE DEF l
<1>4. QED
  BY <1>2, <1>3, ReopenedBooks

\* A default takes what is owed off the books, once.
LEMMA LiquidateBooks ==
  ASSUME BooksInv, IInv', NEW a \in Agents, Liquidate(a)
  PROVE  OutstandingIsOwed'
<1>1. /\ lines \in [Agents -> Line] /\ lines[a] \in Line /\ lines[a].drawn \in Nat
      /\ pool.outstanding \in Int
  BY PoolNumbers DEF BooksInv
<1>2. /\ lines' = [lines EXCEPT ![a].status = "defaulted"] /\ lines[a].status = "active"
      /\ pool' = [total |-> pool.total - lines[a].drawn,
                  outstanding |-> pool.outstanding - lines[a].drawn]
      /\ revived' = revived
  BY DEF Liquidate
<1>3. lines'[a].status = "defaulted" /\ \A b \in Agents \ {a} : lines'[b] = lines[b]
  BY <1>1, <1>2 DEF Line
<1>4. Owes(a) = lines[a].drawn /\ Owes(a)' = 0
  BY <1>2, <1>3 DEF Owes, Undefaulted
<1>5. pool'.outstanding = pool.outstanding - Owes(a) + Owes(a)'
  BY <1>1, <1>2, <1>4
<1>6. QED
  BY <1>2, <1>3, <1>5, OneLineMoves

\* What is outstanding stays owed ...
LEMMA BooksStep == BooksInv /\ [Next]_vars => BooksInv'
<1> SUFFICES ASSUME BooksInv, [Next]_vars
             PROVE  OutstandingIsOwed'
  BY StepInv DEF BooksInv
<1>1. IInv'
  BY StepInv DEF BooksInv
<1>2. ASSUME UNCHANGED <<book, revived>>
      PROVE  OutstandingIsOwed'
  BY <1>2, DebtsStay DEF book
<1>3. CASE Lending
  <2>1. CASE Tick
    <3>1. /\ UNCHANGED <<pool, revived>>
          /\ \A a \in Agents : /\ lines'[a].drawn = lines[a].drawn
                               /\ lines'[a].status = lines[a].status
      BY <2>1, PoolNumbers DEF Tick, Line, BooksInv
    <3>2. QED
      BY <3>1, DebtsStay
  <2>2. ASSUME NEW n \in Amounts, Deposit(n) \/ Withdraw(n)
        PROVE  OutstandingIsOwed'
    <3>1. lines' = lines /\ revived' = revived /\ pool'.outstanding = pool.outstanding
      BY <2>2, PoolNumbers DEF Deposit, Withdraw, BooksInv
    <3>2. Debts' = Debts /\ Undefaulted' = Undefaulted
      BY <3>1 DEF Debts, Undefaulted
    <3>3. QED
      BY <3>1, <3>2, OwedIs DEF BooksInv
  <2>3. QED
    BY <1>1, <1>2, <1>3, <2>1, <2>2, DrawBooks, RepayBooks, FreezeBooks
    DEF Lending, Pause, Freeze
<1>4. CASE Underwriting
  <2>1. ASSUME NEW a \in Agents, NEW max \in Limits, Underwrite(a, max) \/ Review(a, max)
        PROVE  OutstandingIsOwed'
    BY <1>1, <2>1, OpenLineBooks DEF Underwrite, Review
  <2>2. ASSUME NEW o \in Offers, AcceptOffer(o)
        PROVE  OutstandingIsOwed'
    <3>1. PICK a \in Agents : a = offers[o].agent
      BY DEF BooksInv, IInv, TypeOK, Offer
    <3>2. QED
      BY <1>1, <2>2, <3>1, OpenLineBooks DEF AcceptOffer
  <2>3. QED
    BY <1>2, <1>4, <2>1, <2>2 DEF Underwriting, IssueOffer, EndOffer
<1>5. CASE Enforcement
  <2>1. ASSUME NEW w \in Watchers, Judged(w)
        PROVE  OutstandingIsOwed'
    <3>1. PICK a \in Agents : a = disputes[watcher[w].dispute].respondent
      BY <2>1 DEF Judged, PunishFault, FindNoFault, FailToEnforce, EndAudit, BooksInv, IInv,
                  TypeOK, Dispute
    <3>2. CASE lines' = Frozen(a) /\ Revives(a) /\ UNCHANGED pool
      BY <1>1, <3>2, FreezeBooks
    <3>3. QED
      BY <1>2, <2>1, <3>1, <3>2 DEF Judged, PunishFault, FindNoFault, FailToEnforce
  <2>2. QED
    BY <1>1, <1>2, <1>5, <2>1, LiquidateBooks
    DEF Enforcement, Stake, OpenDispute, StartAudit, ResolveDispute, JuryVerdict,
        CoverDefault, ClaimInsurance
<1>6. CASE UNCHANGED vars
  BY <1>2, <1>6 DEF vars
<1>7. QED
  BY <1>3, <1>4, <1>5, <1>6 DEF Next

\* ... from the start, when nobody has borrowed.
LEMMA BooksInit == Init => BooksInv
<1> SUFFICES ASSUME Init PROVE OutstandingIsOwed
  BY InitInv DEF BooksInv
<1>1. pool.outstanding = 0 /\ \A a \in Undefaulted : Debts[a] = 0
  BY DEF Init, NoLine, Debts, Undefaulted
<1>2. IsFiniteSet(Undefaulted)
  BY FS_Subset, CreditConstants DEF Undefaulted
<1>3. SumFunctionOnSet(Debts, Undefaulted) = 0
  BY <1>1, <1>2, SumZero
<1>4. QED
  BY <1>1, <1>3, OwedIs

\* What the pool calls outstanding is what the lines that have not defaulted owe, as long as
\* no defaulted line with a debt was used again (AgentCreditPool draw, repay, liquidate).
THEOREM CreditOutstandingIsOwed == Spec => []OutstandingIsOwed
<1>1. BooksInv => OutstandingIsOwed
  BY DEF BooksInv
<1>2. Spec => []BooksInv
  BY BooksInit, BooksStep, PTL DEF Spec
<1>3. QED
  BY <1>1, <1>2, PTL

===============================================================================
