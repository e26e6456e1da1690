------------------------ MODULE OmnichainCredit_proofs ------------------------
(***************************************************************************)
(* The cap across chains, for every set of agents, chains, notes and       *)
(* requests, every price and every amount.                                 *)
(***************************************************************************)
EXTENDS OmnichainCredit, ExposureBook_proofs

-------------------------------------------------------------------------------
(* The invariant *)

\* A relayer works within its chain's log.
SyncsInLog ==
  \A c \in Chains : Syncing(c) =>
    sync[c].next \in 1..sync[c].last + 1 /\ sync[c].last <= Len(log[c])

IInv == TypeOK /\ CommittedWithinCap /\ SyncsInLog

LEMMA ConstantFacts ==
  /\ (CHOOSE a \in Agents : TRUE) \in Agents /\ (CHOOSE c \in Chains : TRUE) \in Chains
  /\ Amounts \subseteq Nat /\ Caps \subseteq Nat /\ FlareCap \in Nat
  /\ Prices \subseteq Nat /\ Liquidity \in Nat
BY OmnichainConstants

LEMMA EntriesSound ==
  ASSUME TypeOK, CommittedWithinCap, NEW a \in Agents
  PROVE  Sound(exposure[a])
BY DEF TypeOK, CommittedWithinCap, Sound

\* A change of one entry that leaves it sound keeps the book.
LEMMA BookKept ==
  ASSUME TypeOK, CommittedWithinCap, NEW a \in Agents, NEW f, Sound(f),
         exposure' = [exposure EXCEPT ![a] = f]
  PROVE  /\ exposure' \in [Agents -> Exposure] /\ CommittedWithinCap'
         /\ exposure'[a] = f /\ \A b \in Agents \ {a} : exposure'[b] = exposure[b]
BY DEF TypeOK, CommittedWithinCap, Sound

LEMMA RequestType == NoRequest \in Request
BY ConstantFacts DEF NoRequest, Request

LEMMA InitInv == Init => IInv
<1> SUFFICES ASSUME Init PROVE IInv
  OBVIOUS
<1>1. exposure \in [Agents -> Exposure] /\ CommittedWithinCap
  BY DEF Init, NoExposure, Exposure, CommittedWithinCap
<1>2. notes \in [Notes -> Note]
  BY ConstantFacts DEF Init, Note
<1>3. /\ liquidity \in [AllChains -> Int] /\ debt \in [AllChains -> [Agents -> Int]]
      /\ drawn \in [Notes -> Nat] /\ log \in [Chains -> Seq(Event)]
      /\ checkpoint \in [Chains -> Nat]
      /\ sync \in [Chains -> [next: Nat, last: Nat]]
      /\ flareUsd \in [Agents -> Int] /\ loose \subseteq Agents
      /\ overlapped \subseteq Agents
  BY ConstantFacts DEF Init, NoSync
<1>4. request \in [Requests -> Request]
  BY RequestType DEF Init
<1>5. SyncsInLog
  BY DEF Init, SyncsInLog, Syncing, NoSync
<1>6. QED
  BY <1>1, <1>2, <1>3, <1>4, <1>5 DEF IInv, TypeOK

-------------------------------------------------------------------------------
(* The root *)

LEMMA RaiseCapInv ==
  ASSUME IInv, NEW a \in Agents, NEW cap \in Caps, RaiseCap(a, cap)
  PROVE  IInv'
<1>1. Sound(EnsureAgent(exposure[a], cap))
  BY EntriesSound, EnsureFacts, ConstantFacts DEF IInv
<1>2. exposure' \in [Agents -> Exposure] /\ CommittedWithinCap'
  BY <1>1, BookKept DEF IInv, RaiseCap
<1>3. QED
  BY <1>2 DEF IInv, TypeOK, SyncsInLog, Syncing, RaiseCap, vaults, relayer, history

LEMMA FreezeInv ==
  ASSUME IInv, NEW a \in Agents, Freeze(a)
  PROVE  IInv'
<1>1. Sound(FreezeAgentExposure(exposure[a]))
  BY EntriesSound, FreezeFacts DEF IInv
<1>2. exposure' \in [Agents -> Exposure] /\ CommittedWithinCap'
  BY <1>1, BookKept DEF IInv, Freeze
<1>3. QED
  BY <1>2 DEF IInv, TypeOK, SyncsInLog, Syncing, Freeze, vaults, relayer, history

LEMMA IssueCanInv ==
  ASSUME IInv, NEW n \in Notes, NEW a \in Agents, NEW c \in Chains, NEW max \in Amounts,
         IssueCan(n, a, c, max)
  PROVE  IInv'
<1>1. max \in Nat /\ Sound(ReserveExposure(exposure[a], max))
  BY EntriesSound, ReserveFacts, ConstantFacts DEF IInv, IssueCan
<1>2. exposure' \in [Agents -> Exposure] /\ CommittedWithinCap'
  BY <1>1, BookKept DEF IInv, IssueCan
<1>3. notes' \in [Notes -> Note]
  BY <1>1 DEF IInv, TypeOK, IssueCan, Note
<1>4. QED
  BY <1>2, <1>3 DEF IInv, TypeOK, SyncsInLog, Syncing, IssueCan, vaults, relayer, history

LEMMA RevokeCanInv ==
  ASSUME IInv, NEW n \in Notes, RevokeCan(n)
  PROVE  IInv'
<1>1. PICK a \in Agents : a = notes[n].agent
  BY DEF IInv, TypeOK, Note
<1>2. notes[n].max_draw \in Nat
  BY DEF IInv, TypeOK, Note
<1>3. Sound(ReleaseReservation(exposure[a], notes[n].max_draw))
  BY <1>2, EntriesSound, ReleaseFacts DEF IInv
<1>4. exposure' \in [Agents -> Exposure] /\ CommittedWithinCap'
  BY <1>1, <1>3, BookKept DEF IInv, RevokeCan
<1>5. notes' \in [Notes -> Note]
  <2>1. notes \in [Notes -> Note] /\ notes[n] \in Note
    BY DEF IInv, TypeOK
  <2>2. [notes[n] EXCEPT !.status = "revoked"] \in Note
    BY <2>1 DEF Note
  <2>3. QED
    BY <2>1, <2>2 DEF RevokeCan
<1>6. loose' \subseteq Agents
  BY <1>1 DEF IInv, TypeOK, RevokeCan
<1>7. QED
  BY <1>4, <1>5, <1>6
  DEF IInv, TypeOK, SyncsInLog, Syncing, RevokeCan, vaults, relayer, history

LEMMA ExpireInv ==
  ASSUME IInv, NEW n \in Notes, Expire(n)
  PROVE  IInv'
<1>1. notes' \in [Notes -> Note]
  <2>1. notes \in [Notes -> Note] /\ notes[n] \in Note
    BY DEF IInv, TypeOK
  <2>2. [notes[n] EXCEPT !.expired = TRUE] \in Note
    BY <2>1 DEF Note
  <2>3. QED
    BY <2>1, <2>2 DEF Expire
<1>2. exposure' \in [Agents -> Exposure] /\ CommittedWithinCap'
  BY DEF IInv, TypeOK, CommittedWithinCap, Expire
<1>3. QED
  BY <1>1, <1>2 DEF IInv, TypeOK, SyncsInLog, Syncing, Expire, vaults, relayer, history

-------------------------------------------------------------------------------
(* The vaults and the relayer *)

\* A log that grows keeps the relayers within it.
LEMMA LogGrows ==
  ASSUME IInv, NEW c \in Chains, NEW e \in Event, Emit(c, e), UNCHANGED sync
  PROVE  log' \in [Chains -> Seq(Event)] /\ SyncsInLog'
<1>1. log \in [Chains -> Seq(Event)] /\ log' = [log EXCEPT ![c] = Append(@, e)]
  BY DEF IInv, TypeOK, Emit
<1>2. Append(log[c], e) \in Seq(Event) /\ Len(Append(log[c], e)) = Len(log[c]) + 1
  BY <1>1
<1>3. log' \in [Chains -> Seq(Event)]
  BY <1>1, <1>2
<1>4. \A d \in Chains : Len(log[d]) \in Nat /\ Len(log'[d]) >= Len(log[d])
  BY <1>1, <1>2
<1>5. \A d \in Chains : Len(log'[d]) \in Nat /\ sync[d] \in [next: Nat, last: Nat]
  BY <1>3 DEF IInv, TypeOK
<1>6. SyncsInLog'
  BY <1>4, <1>5 DEF IInv, SyncsInLog, Syncing
<1>7. QED
  BY <1>3, <1>6

LEMMA DrawOnNoteInv ==
  ASSUME IInv, NEW n \in Notes, NEW amount \in Amounts, DrawOnNote(n, amount)
  PROVE  IInv'
<1>1. PICK a \in Agents : a = notes[n].agent
  BY DEF IInv, TypeOK, Note
<1>2. PICK c \in Chains : c = notes[n].chain
  BY DEF IInv, TypeOK, Note
<1> DEFINE e == [type |-> "CreditDrawn", agent |-> a, note |-> n, amount |-> amount]
<1>3. e \in Event
  BY DEF Event
<1>4. Emit(c, e) /\ UNCHANGED sync
  BY <1>1, <1>2 DEF DrawOnNote
<1>5. log' \in [Chains -> Seq(Event)] /\ SyncsInLog'
  BY <1>3, <1>4, LogGrows
<1>6. liquidity' \in [AllChains -> Int] /\ debt' \in [AllChains -> [Agents -> Int]]
  <2>1. c \in AllChains /\ amount \in Int /\ debt[c][a] + amount \in Int
        /\ liquidity[c] - amount \in Int
    <3>1. c \in AllChains /\ amount \in Int
      BY ConstantFacts DEF AllChains
    <3>2. debt[c] \in [Agents -> Int] /\ liquidity[c] \in Int
      BY <3>1 DEF IInv, TypeOK
    <3>3. QED
      BY <3>1, <3>2
  <2>2. /\ debt' = [debt EXCEPT ![c][a] = @ + amount]
        /\ liquidity' = [liquidity EXCEPT ![c] = @ - amount]
    BY <1>1, <1>2 DEF DrawOnNote
  <2>3. QED
    BY <2>1, <2>2 DEF IInv, TypeOK
<1>7. drawn' \in [Notes -> Nat] /\ loose' \subseteq Agents
  BY <1>1, ConstantFacts DEF IInv, TypeOK, DrawOnNote
<1>8. QED
  BY <1>5, <1>6, <1>7 DEF IInv, TypeOK, CommittedWithinCap, DrawOnNote, root

LEMMA RepayVaultInv ==
  ASSUME IInv, NEW c \in Chains, NEW a \in Agents, NEW amount \in Amounts,
         RepayVault(c, a, amount)
  PROVE  IInv'
<1> DEFINE e == [type |-> "CreditRepaid", agent |-> a, note |-> NoNote, amount |-> amount]
           paid == Lesser(amount, debt[c][a])
<1>1. e \in Event
  BY DEF Event
<1>2. Emit(c, e) /\ UNCHANGED sync
  BY DEF RepayVault
<1>3. log' \in [Chains -> Seq(Event)] /\ SyncsInLog'
  BY <1>1, <1>2, LogGrows
<1>4. c \in AllChains /\ debt[c][a] \in Int /\ paid \in Int
  BY ConstantFacts DEF IInv, TypeOK, AllChains, Lesser
<1>5. liquidity' \in [AllChains -> Int] /\ debt' \in [AllChains -> [Agents -> Int]]
  BY <1>4 DEF IInv, TypeOK, RepayVault
<1>6. loose' \subseteq Agents
  BY DEF IInv, TypeOK, RepayVault
<1>7. QED
  BY <1>3, <1>5, <1>6 DEF IInv, TypeOK, CommittedWithinCap, RepayVault, root

\* The event a sync has come to is one of the log.
LEMMA NextEventType ==
  ASSUME IInv, NEW c \in Chains, Syncing(c), sync[c].next <= sync[c].last
  PROVE  /\ NextEvent(c) \in Event /\ NextEvent(c).agent \in Agents
         /\ NextEvent(c).amount \in Nat
<1>1. sync[c].next \in 1..Len(log[c])
  BY DEF IInv, TypeOK, SyncsInLog
<1>2. log[c] \in Seq(Event)
  BY DEF IInv, TypeOK
<1>3. NextEvent(c) \in Event
  BY <1>1, <1>2 DEF NextEvent
<1>4. QED
  BY <1>3, ConstantFacts DEF Event

\* A sync that goes on to the next event, or ends, stays within the log.
LEMMA SyncMoves ==
  ASSUME IInv, NEW c \in Chains, NEW s \in [next: Nat, last: Nat],
         sync' = [sync EXCEPT ![c] = s], UNCHANGED log,
         s.last > 0 => s.next \in 1..s.last + 1 /\ s.last <= Len(log[c])
  PROVE  sync' \in [Chains -> [next: Nat, last: Nat]] /\ SyncsInLog'
<1>1. sync' \in [Chains -> [next: Nat, last: Nat]]
  BY DEF IInv, TypeOK
<1>2. sync'[c] = s /\ \A d \in Chains \ {c} : sync'[d] = sync[d]
  BY DEF IInv, TypeOK
<1>3. SyncsInLog'
  BY <1>2 DEF IInv, SyncsInLog, Syncing
<1>4. QED
  BY <1>1, <1>3

\* Within a sync, one step on.
LEMMA RoutedStays ==
  ASSUME IInv, NEW c \in Chains, Syncing(c), sync[c].next <= sync[c].last,
         Routed(c), UNCHANGED log
  PROVE  sync' \in [Chains -> [next: Nat, last: Nat]] /\ SyncsInLog'
<1> DEFINE s == [sync[c] EXCEPT !.next = @ + 1]
<1>1. sync[c] \in [next: Nat, last: Nat]
  BY DEF IInv, TypeOK
<1>2. s \in [next: Nat, last: Nat] /\ s.last = sync[c].last /\ s.next = sync[c].next + 1
  BY <1>1
<1>3. sync' = [sync EXCEPT ![c] = s]
  BY DEF Routed
<1>4. sync[c].next \in 1..sync[c].last + 1 /\ sync[c].last <= Len(log[c])
  BY DEF IInv, SyncsInLog
<1>5. s.next \in 1..s.last + 1 /\ s.last <= Len(log[c])
  BY <1>1, <1>2, <1>4
<1> HIDE DEF s
<1>6. QED
  BY <1>2, <1>3, <1>5, SyncMoves

LEMMA StartSyncInv ==
  ASSUME IInv, NEW c \in Chains, StartSync(c)
  PROVE  IInv'
<1> DEFINE s == [next |-> checkpoint[c] + 1, last |-> Len(log[c])]
<1>1. Len(log[c]) \in Nat /\ checkpoint[c] \in Nat
  BY DEF IInv, TypeOK
<1>2. s \in [next: Nat, last: Nat] /\ s.next \in 1..s.last + 1
  BY <1>1 DEF StartSync
<1>3. sync' = [sync EXCEPT ![c] = s] /\ UNCHANGED log
  BY DEF StartSync
<1>4. s.last <= Len(log[c])
  BY <1>1
<1> HIDE DEF s
<1>5. sync' \in [Chains -> [next: Nat, last: Nat]] /\ SyncsInLog'
  BY <1>2, <1>3, <1>4, SyncMoves
<1>6. QED
  BY <1>5 DEF IInv, TypeOK, CommittedWithinCap, StartSync, root, vaults, history

LEMMA RouteDrawInv ==
  ASSUME IInv, NEW c \in Chains, RouteDraw(c)
  PROVE  IInv'
<1>1. /\ Syncing(c) /\ sync[c].next <= sync[c].last /\ Routed(c)
      /\ UNCHANGED <<vaults, log, checkpoint, request, history>>
  BY DEF RouteDraw
<1>2. sync' \in [Chains -> [next: Nat, last: Nat]] /\ SyncsInLog'
  BY <1>1, RoutedStays
<1>3. PICK a \in Agents : a = NextEvent(c).agent
  BY <1>1, NextEventType
<1>4. NextEvent(c).amount \in Nat
  BY <1>1, NextEventType
<1>5. exposure' \in [Agents -> Exposure] /\ CommittedWithinCap'
  <2>1. CASE UNCHANGED root
    BY <2>1 DEF IInv, TypeOK, CommittedWithinCap, root
  <2>2. CASE exposure' = [exposure EXCEPT ![a] = ActivateExposure(@, NextEvent(c).amount)]
    <3>1. Sound(ActivateExposure(exposure[a], NextEvent(c).amount))
      BY <1>4, EntriesSound, MovesFacts DEF IInv
    <3>2. QED
      BY <2>2, <3>1, BookKept DEF IInv
  <2>3. QED
    BY <1>3, <2>1, <2>2 DEF RouteDraw
<1>6. notes' \in [Notes -> Note]
  <2>1. \/ notes' = notes
        \/ notes' = [notes EXCEPT ![NextEvent(c).note].status = "consumed"]
    BY DEF RouteDraw, root
  <2>2. notes \in [Notes -> Note]
    BY DEF IInv, TypeOK
  <2>3. ASSUME NEW n \in Notes PROVE [notes[n] EXCEPT !.status = "consumed"] \in Note
    BY <2>2 DEF Note
  <2>4. QED
    BY <2>1, <2>2, <2>3
<1>7. QED
  BY <1>1, <1>2, <1>5, <1>6 DEF IInv, TypeOK, vaults, history

LEMMA RouteRepayInv ==
  ASSUME IInv, NEW c \in Chains, RouteRepay(c)
  PROVE  IInv'
<1>1. /\ Syncing(c) /\ sync[c].next <= sync[c].last /\ Routed(c)
      /\ UNCHANGED <<notes, vaults, log, checkpoint, request, history>>
  BY DEF RouteRepay
<1>2. sync' \in [Chains -> [next: Nat, last: Nat]] /\ SyncsInLog'
  BY <1>1, RoutedStays
<1>3. PICK a \in Agents : a = NextEvent(c).agent
  BY <1>1, NextEventType
<1>4. NextEvent(c).amount \in Nat
  BY <1>1, NextEventType
<1>5. Sound(DecreaseExposure(exposure[a], NextEvent(c).amount))
  BY <1>4, EntriesSound, DecreaseFacts DEF IInv
<1>6. exposure' \in [Agents -> Exposure] /\ CommittedWithinCap'
  BY <1>3, <1>5, BookKept DEF IInv, RouteRepay
<1>7. QED
  BY <1>1, <1>2, <1>6 DEF IInv, TypeOK, vaults, history

LEMMA SyncEnds ==
  ASSUME IInv, NEW c \in Chains, sync' = [sync EXCEPT ![c] = NoSync], log' = log
  PROVE  sync' \in [Chains -> [next: Nat, last: Nat]] /\ SyncsInLog'
<1>1. NoSync \in [next: Nat, last: Nat] /\ ~(NoSync.last > 0)
  BY DEF NoSync
<1>2. QED
  BY <1>1, SyncMoves

LEMMA AbandonSyncInv ==
  ASSUME IInv, NEW c \in Chains, AbandonSync(c)
  PROVE  IInv'
<1>1. sync' \in [Chains -> [next: Nat, last: Nat]] /\ SyncsInLog'
  BY SyncEnds DEF AbandonSync
<1>2. loose' \subseteq Agents
  <2>1. \A i \in {j \in checkpoint[c] + 1 .. sync[c].next - 1 :
                   log[c][j].type = "CreditRepaid"} : log[c][i].agent \in Agents
    <3>1. /\ log[c] \in Seq(Event) /\ checkpoint[c] \in Nat
          /\ sync[c].next \in Nat /\ sync[c].last \in Nat
      BY DEF IInv, TypeOK
    <3>2. sync[c].next - 1 < Len(log[c])
      BY <3>1 DEF IInv, SyncsInLog, AbandonSync
    <3>3. \A i \in checkpoint[c] + 1 .. sync[c].next - 1 : i \in 1..Len(log[c])
      BY <3>1, <3>2
    <3>4. \A i \in 1..Len(log[c]) : log[c][i] \in Event
      BY <3>1
    <3>5. QED
      BY <3>3, <3>4 DEF Event
  <2>2. QED
    BY <2>1 DEF IInv, TypeOK, AbandonSync
<1>3. QED
  BY <1>1, <1>2 DEF IInv, TypeOK, CommittedWithinCap, AbandonSync, root, vaults

LEMMA FinishSyncInv ==
  ASSUME IInv, NEW c \in Chains, FinishSync(c)
  PROVE  IInv'
<1>1. sync' \in [Chains -> [next: Nat, last: Nat]] /\ SyncsInLog'
  BY SyncEnds DEF FinishSync
<1>2. checkpoint' \in [Chains -> Nat]
  BY DEF IInv, TypeOK, FinishSync
<1>3. QED
  BY <1>1, <1>2 DEF IInv, TypeOK, CommittedWithinCap, FinishSync, root, vaults, history

-------------------------------------------------------------------------------
(* Flare requests *)

LEMMA BusyAgents ==
  ASSUME IInv, NEW a \in Agents, Starts(a)
  PROVE  overlapped' \subseteq Agents
BY DEF IInv, TypeOK, Starts, Busy, Request

\* The fields a request keeps when it goes on or ends.
LEMMA RequestMoves ==
  ASSUME IInv, NEW r \in Requests,
         Ends(r) \/ \E pc \in {"pricing", "executing", "drawn", "undone", "repaying",
                               "repaid", "done"} : Goto(r, pc)
  PROVE  request' \in [Requests -> Request]
<1>1. request \in [Requests -> Request]
  BY DEF IInv, TypeOK
<1>2. [NoRequest EXCEPT !.pc = "done"] \in Request
  BY RequestType DEF Request
<1>3. CASE Ends(r)
  BY <1>1, <1>2, <1>3 DEF Ends
<1>4. ASSUME NEW pc \in {"pricing", "executing", "drawn", "undone", "repaying",
                        "repaid", "done"}, Goto(r, pc)
      PROVE  request' \in [Requests -> Request]
  <2>1. [request[r] EXCEPT !.pc = pc] \in Request
    BY <1>1 DEF Request
  <2>2. QED
    BY <1>1, <1>4, <2>1 DEF Goto
<1>5. QED
  BY <1>3, <1>4

\* What a request knows of its draw or repayment.
LEMMA RequestFacts ==
  ASSUME IInv, NEW r \in Requests
  PROVE  /\ request[r].agent \in Agents /\ request[r].amount \in Nat
         /\ request[r].usd \in Nat /\ request[r].debtBefore \in Int
         /\ request[r].paid \in Int
BY DEF IInv, TypeOK, Request

\* A Flare step leaves the relayers alone.
LEMMA FlareOnly ==
  ASSUME IInv, UNCHANGED <<notes, drawn, relayer>>,
         exposure' \in [Agents -> Exposure], CommittedWithinCap',
         liquidity' \in [AllChains -> Int], debt' \in [AllChains -> [Agents -> Int]],
         request' \in [Requests -> Request], flareUsd' \in [Agents -> Int],
         loose' \subseteq Agents, overlapped' \subseteq Agents
  PROVE  IInv'
BY DEF IInv, TypeOK, SyncsInLog, Syncing, relayer

LEMMA AuthorizeDrawInv ==
  ASSUME IInv, NEW r \in Requests, NEW a \in Agents, NEW amount \in Amounts,
         NEW price \in Prices, AuthorizeDraw(r, a, amount, price)
  PROVE  IInv'
<1> DEFINE usd == amount * price
           e   == EnsureAgent(exposure[a], FlareCap)
<1>1. amount \in Nat /\ usd \in Nat
  BY ConstantFacts
<1>2. Sound(e)
  BY EntriesSound, EnsureFacts, ConstantFacts DEF IInv
<1>3. UNCHANGED <<notes, vaults, relayer, flareUsd, loose>>
  BY DEF AuthorizeDraw
<1>4. CASE ~CanReserve(e, usd)
  <2>1. exposure' = [exposure EXCEPT ![a] = e] /\ UNCHANGED <<request, overlapped>>
    BY <1>4 DEF AuthorizeDraw
  <2>2. exposure' \in [Agents -> Exposure] /\ CommittedWithinCap'
    BY <1>2, <2>1, BookKept DEF IInv
  <2>3. QED
    BY <1>3, <2>1, <2>2, FlareOnly DEF IInv, TypeOK, vaults
<1>5. CASE CanReserve(e, usd)
  <2> DEFINE f == ReserveExposure(e, usd)
             q == [NoRequest EXCEPT
                     !.pc = IF amount <= liquidity[Flare] THEN "pricing" ELSE "undone",
                     !.agent = a, !.amount = amount, !.usd = usd]
  <2>1. /\ exposure' = [exposure EXCEPT ![a] = f]
        /\ request' = [request EXCEPT ![r] = q] /\ Starts(a)
    BY <1>5 DEF AuthorizeDraw
  <2>2. Sound(f)
    BY <1>1, <1>2, <1>5, ReserveFacts
  <2>3. q \in Request
    <3> DEFINE pc == IF amount <= liquidity[Flare] THEN "pricing" ELSE "undone"
    <3>1. q = [NoRequest EXCEPT !.pc = pc, !.agent = a, !.amount = amount, !.usd = usd]
      OBVIOUS
    <3>2. pc \in {"pricing", "undone"}
      OBVIOUS
    <3> HIDE DEF pc, q, usd
    <3>3. QED
      BY <1>1, <3>1, <3>2, RequestType DEF Request
  <2> HIDE DEF f, q
  <2>4. exposure' \in [Agents -> Exposure] /\ CommittedWithinCap'
    BY <2>1, <2>2, BookKept DEF IInv
  <2>5. request' \in [Requests -> Request]
    BY <2>1, <2>3 DEF IInv, TypeOK
  <2>6. overlapped' \subseteq Agents
    BY <2>1, BusyAgents
  <2>7. QED
    BY <1>3, <2>4, <2>5, <2>6, FlareOnly DEF IInv, TypeOK, vaults
<1>6. QED
  BY <1>4, <1>5

LEMMA CommitDrawInv ==
  ASSUME IInv, NEW r \in Requests, NEW price \in Prices, CommitDraw(r, price)
  PROVE  IInv'
<1>1. PICK a \in Agents : a = request[r].agent
  BY RequestFacts
<1>2. request[r].amount \in Nat /\ Flare \in AllChains
  BY RequestFacts DEF AllChains
<1>3. request' \in [Requests -> Request]
  BY RequestMoves DEF CommitDraw
<1>4. liquidity' \in [AllChains -> Int] /\ debt' \in [AllChains -> [Agents -> Int]]
  <2>1. /\ liquidity[Flare] - request[r].amount \in Int
        /\ debt[Flare][a] + request[r].amount \in Int
    BY <1>2 DEF IInv, TypeOK
  <2>2. \/ UNCHANGED <<liquidity, debt>>
        \/ /\ liquidity' = [liquidity EXCEPT ![Flare] = @ - request[r].amount]
           /\ debt' = [debt EXCEPT ![Flare][a] = @ + request[r].amount]
    BY <1>1 DEF CommitDraw
  <2>3. CASE UNCHANGED <<liquidity, debt>>
    BY <2>3 DEF IInv, TypeOK
  <2>4. CASE /\ liquidity' = [liquidity EXCEPT ![Flare] = @ - request[r].amount]
             /\ debt' = [debt EXCEPT ![Flare][a] = @ + request[r].amount]
    BY <1>2, <2>1, <2>4 DEF IInv, TypeOK
  <2>5. QED
    BY <2>2, <2>3, <2>4
<1>5. QED
  BY <1>3, <1>4, FlareOnly DEF IInv, TypeOK, CommittedWithinCap, CommitDraw, root, history

LEMMA DrawExecutedInv ==
  ASSUME IInv, NEW r \in Requests, DrawExecuted(r) \/ RepayExecuted(r)
  PROVE  IInv'
<1>1. request' \in [Requests -> Request]
  BY RequestMoves DEF DrawExecuted, RepayExecuted
<1>2. UNCHANGED <<root, vaults, relayer, history>>
  BY DEF DrawExecuted, RepayExecuted
<1>3. QED
  BY <1>1, <1>2, FlareOnly DEF IInv, TypeOK, CommittedWithinCap, root, vaults, history

LEMMA DrawFailedInv ==
  ASSUME IInv, NEW r \in Requests, DrawFailed(r)
  PROVE  IInv'
<1>1. PICK a \in Agents : a = request[r].agent
  BY RequestFacts
<1>2. request[r].amount \in Nat /\ Flare \in AllChains
  BY RequestFacts DEF AllChains
<1>3. request' \in [Requests -> Request]
  BY RequestMoves DEF DrawFailed
<1>4. /\ liquidity' = [liquidity EXCEPT ![Flare] = @ + request[r].amount]
      /\ debt' = [debt EXCEPT ![Flare][a] = @ - request[r].amount]
  BY <1>1 DEF DrawFailed
<1>5. liquidity' \in [AllChains -> Int] /\ debt' \in [AllChains -> [Agents -> Int]]
  BY <1>2, <1>4 DEF IInv, TypeOK
<1>6. QED
  BY <1>3, <1>5, FlareOnly DEF IInv, TypeOK, CommittedWithinCap, DrawFailed, root, history

LEMMA RepayFailedInv ==
  ASSUME IInv, NEW r \in Requests, RepayFailed(r)
  PROVE  IInv'
<1>1. PICK a \in Agents : a = request[r].agent
  BY RequestFacts
<1>2. request[r].paid \in Int /\ Flare \in AllChains
  BY RequestFacts DEF AllChains
<1>3. request' \in [Requests -> Request]
  BY RequestMoves DEF RepayFailed
<1>4. /\ liquidity' = [liquidity EXCEPT ![Flare] = @ - request[r].paid]
      /\ debt' = [debt EXCEPT ![Flare][a] = @ + request[r].paid]
  BY <1>1 DEF RepayFailed
<1>5. liquidity' \in [AllChains -> Int] /\ debt' \in [AllChains -> [Agents -> Int]]
  BY <1>2, <1>4 DEF IInv, TypeOK
<1>6. QED
  BY <1>3, <1>5, FlareOnly DEF IInv, TypeOK, CommittedWithinCap, RepayFailed, root, history

LEMMA StartRepayInv ==
  ASSUME IInv, NEW r \in Requests, NEW a \in Agents, NEW amount \in Amounts,
         StartRepay(r, a, amount)
  PROVE  IInv'
<1> DEFINE owe  == debt[Flare][a]
           paid == IF amount > owe THEN owe ELSE amount
           q    == [NoRequest EXCEPT !.pc = "repaying", !.agent = a, !.amount = amount,
                                     !.debtBefore = owe, !.paid = paid]
<1>1. amount \in Nat /\ owe \in Int /\ paid \in Int /\ Flare \in AllChains
  BY ConstantFacts DEF IInv, TypeOK, AllChains
<1>2. /\ liquidity' = [liquidity EXCEPT ![Flare] = @ + paid]
      /\ debt' = [debt EXCEPT ![Flare][a] = @ - paid]
      /\ request' = [request EXCEPT ![r] = q] /\ Starts(a)
      /\ UNCHANGED <<root, drawn, relayer, flareUsd, loose>>
  BY DEF StartRepay
<1>3. q \in Request
  <2> HIDE DEF paid, owe
  <2>1. QED
    BY <1>1, RequestType DEF Request
<1> HIDE DEF q, paid, owe
<1>4. liquidity' \in [AllChains -> Int] /\ debt' \in [AllChains -> [Agents -> Int]]
  <2>1. liquidity[Flare] + paid \in Int /\ debt[Flare][a] - paid \in Int
    BY <1>1 DEF IInv, TypeOK
  <2>2. QED
    BY <1>1, <1>2, <2>1 DEF IInv, TypeOK
<1>5. request' \in [Requests -> Request]
  BY <1>2, <1>3 DEF IInv, TypeOK
<1>6. overlapped' \subseteq Agents
  BY <1>2, BusyAgents
<1>7. QED
  BY <1>2, <1>4, <1>5, <1>6, FlareOnly DEF IInv, TypeOK, CommittedWithinCap, root

LEMMA BookDrawInv ==
  ASSUME IInv, NEW r \in Requests, BookDraw(r)
  PROVE  IInv'
<1>1. PICK a \in Agents : a = request[r].agent
  BY RequestFacts
<1>2. request[r].usd \in Nat /\ request' \in [Requests -> Request]
  BY RequestFacts, RequestMoves DEF BookDraw
<1>3. PICK f : /\ Sound(f) /\ exposure' = [exposure EXCEPT ![a] = f]
  <2>1. /\ Sound(ActivateExposure(exposure[a], request[r].usd))
        /\ Sound(ReleaseReservation(exposure[a], request[r].usd))
    BY <1>2, EntriesSound, MovesFacts, ReleaseFacts DEF IInv
  <2>2. \/ exposure' = [exposure EXCEPT ![a] = ActivateExposure(@, request[r].usd)]
        \/ exposure' = [exposure EXCEPT ![a] = ReleaseReservation(@, request[r].usd)]
    BY <1>1 DEF BookDraw
  <2>3. QED
    BY <2>1, <2>2
<1>4. exposure' \in [Agents -> Exposure] /\ CommittedWithinCap'
  BY <1>3, BookKept DEF IInv
<1>5. flareUsd' \in [Agents -> Int]
  BY <1>1, <1>2 DEF IInv, TypeOK, BookDraw
<1>6. QED
  BY <1>2, <1>4, <1>5, FlareOnly DEF IInv, TypeOK, BookDraw, vaults

\* What a repayment releases is an amount.
LEMMA ReleaseNat ==
  ASSUME IInv, NEW r \in Requests
  PROVE  Release(r) \in Nat
<1> DEFINE o == exposure[request[r].agent].outstanding
           d == request[r].debtBefore
           m == Lesser(request[r].amount, d)
<1>1. o \in Nat /\ d \in Int /\ request[r].amount \in Nat
  BY RequestFacts DEF IInv, TypeOK, Exposure
<1>2. CASE d > 0
  <2>1. d \in Nat /\ m \in Nat
    BY <1>1, <1>2 DEF Lesser
  <2> HIDE DEF o, d, m
  <2>2. o * m \in Nat
    BY <1>1, <2>1
  <2>3. (o * m) \div d \in Nat
    BY <1>2, <2>1, <2>2
  <2>4. Release(r) = (o * m) \div d
    BY <1>2 DEF Release, o, d, m
  <2>5. QED
    BY <2>3, <2>4
<1>3. CASE ~(d > 0)
  BY <1>3 DEF Release
<1>4. QED
  BY <1>2, <1>3

LEMMA BookRepayInv ==
  ASSUME IInv, NEW r \in Requests, BookRepay(r)
  PROVE  IInv'
<1>1. PICK a \in Agents : a = request[r].agent
  BY RequestFacts
<1>2. Release(r) \in Nat /\ request' \in [Requests -> Request]
  BY ReleaseNat, RequestMoves DEF BookRepay
<1>3. Sound(DecreaseExposure(exposure[a], Release(r)))
  BY <1>2, EntriesSound, DecreaseFacts DEF IInv
<1>4. exposure' \in [Agents -> Exposure] /\ CommittedWithinCap'
  BY <1>1, <1>3, BookKept DEF IInv, BookRepay
<1>5. flareUsd' \in [Agents -> Int] /\ loose' \subseteq Agents
  BY <1>1, <1>2 DEF IInv, TypeOK, BookRepay
<1>6. QED
  BY <1>2, <1>4, <1>5, FlareOnly DEF IInv, TypeOK, BookRepay, vaults

-------------------------------------------------------------------------------
(* The theorems *)

LEMMA StutterInv == IInv /\ UNCHANGED vars => IInv'
BY DEF IInv, TypeOK, CommittedWithinCap, SyncsInLog, Syncing, vars, root, vaults, relayer,
       history

LEMMA StepInv == IInv /\ [Next]_vars => IInv'
<1> SUFFICES ASSUME IInv, [Next]_vars PROVE IInv'
  OBVIOUS
<1>1. CASE Root
  BY <1>1, RaiseCapInv, FreezeInv, IssueCanInv, RevokeCanInv, ExpireInv DEF Root
<1>2. CASE Vault
  BY <1>2, DrawOnNoteInv, RepayVaultInv DEF Vault
<1>3. CASE Relay
  BY <1>3, StartSyncInv, RouteDrawInv, RouteRepayInv, AbandonSyncInv, FinishSyncInv
  DEF Relay
<1>4. CASE FlareRequest
  <2>1. PICK r \in Requests :
          \/ \E a \in Agents, amount \in Amounts :
               \/ \E price \in Prices : AuthorizeDraw(r, a, amount, price)
               \/ StartRepay(r, a, amount)
          \/ \E price \in Prices : CommitDraw(r, price)
          \/ DrawExecuted(r) \/ DrawFailed(r) \/ BookDraw(r)
          \/ RepayExecuted(r) \/ RepayFailed(r) \/ BookRepay(r)
    BY <1>4 DEF FlareRequest
  <2>2. QED
    BY <2>1, AuthorizeDrawInv, StartRepayInv, CommitDrawInv, DrawExecutedInv,
       DrawFailedInv, BookDrawInv, RepayFailedInv, BookRepayInv
<1>5. CASE UNCHANGED vars
  BY <1>5, StutterInv
<1>6. QED
  BY <1>1, <1>2, <1>3, <1>4, <1>5 DEF Next

\* The invariant holds of every behaviour.
THEOREM OmnichainInvariance == Spec => []IInv
<1>1. QED
  BY InitInv, StepInv, PTL DEF Spec

\* Every variable keeps its type: no exposure goes below zero, whatever is released.
THEOREM OmnichainTypes == Spec => []TypeOK
<1>1. IInv => TypeOK
  BY DEF IInv
<1>2. QED
  BY <1>1, OmnichainInvariance, PTL

\* Draws and reservations on all chains together stay below the cap (reserve_exposure).
THEOREM OmnichainCap == Spec => []CommittedWithinCap
<1>1. IInv => CommittedWithinCap
  BY DEF IInv
<1>2. QED
  BY <1>1, OmnichainInvariance, PTL

-------------------------------------------------------------------------------
(* The promise of a credit line *)

\* What changes of the promise when one entry does.
LEMMA PromiseChange ==
  ASSUME TypeOK, NEW a \in Agents, NEW f \in Exposure,
         exposure' = [exposure EXCEPT ![a] = f]
  PROVE  /\ owed' = [owed EXCEPT ![a] = owed'[a]]
         /\ owed'[a] = f.outstanding + f.reserved
         /\ owed[a] = exposure[a].outstanding + exposure[a].reserved
         /\ limit' = [limit EXCEPT ![a] = limit'[a]]
         /\ limit'[a] = f.max_allowed /\ limit[a] = exposure[a].max_allowed
         /\ stopped' = IF f.frozen THEN stopped \cup {a} ELSE stopped \ {a}
         /\ (a \in stopped <=> exposure[a].frozen)
<1>1. exposure'[a] = f /\ \A b \in Agents \ {a} : exposure'[b] = exposure[b]
  BY DEF TypeOK
<1>2. /\ owed' = [owed EXCEPT ![a] = owed'[a]]
      /\ owed'[a] = f.outstanding + f.reserved
      /\ owed[a] = exposure[a].outstanding + exposure[a].reserved
  <2>1. /\ owed = [b \in Agents |-> exposure[b].outstanding + exposure[b].reserved]
        /\ owed' = [b \in Agents |-> exposure'[b].outstanding + exposure'[b].reserved]
    BY DEF owed
  <2>2. \A b \in Agents \ {a} : owed'[b] = owed[b]
    BY <1>1, <2>1
  <2>3. QED
    BY <1>1, <2>1, <2>2
<1>3. /\ limit' = [limit EXCEPT ![a] = limit'[a]]
      /\ limit'[a] = f.max_allowed /\ limit[a] = exposure[a].max_allowed
  <2>1. /\ limit = [b \in Agents |-> exposure[b].max_allowed]
        /\ limit' = [b \in Agents |-> exposure'[b].max_allowed]
    BY DEF limit
  <2>2. \A b \in Agents \ {a} : limit'[b] = limit[b]
    BY <1>1, <2>1
  <2>3. QED
    BY <1>1, <2>1, <2>2
<1>4. /\ stopped' = IF f.frozen THEN stopped \cup {a} ELSE stopped \ {a}
      /\ (a \in stopped <=> exposure[a].frozen)
  BY <1>1 DEF stopped
<1>5. QED
  BY <1>2, <1>3, <1>4

\* An entry that changes its limit alone, and upwards, is a raise or nothing.
LEMMA RaiseBudget ==
  ASSUME TypeOK, NEW a \in Agents, NEW f, Sound(f),
         exposure' = [exposure EXCEPT ![a] = f],
         f.outstanding = exposure[a].outstanding, f.reserved = exposure[a].reserved,
         f.frozen = exposure[a].frozen, f.max_allowed >= exposure[a].max_allowed
  PROVE  Budget!Raise(a) \/ UNCHANGED <<owed, limit, stopped>>
<1>1. /\ f \in Exposure /\ exposure[a] \in Exposure
      /\ f.max_allowed \in Nat /\ exposure[a].max_allowed \in Nat
  BY DEF Sound, TypeOK, Exposure
<1>2. owed' = owed /\ stopped' = stopped
  BY <1>1, PromiseChange DEF owed, stopped
<1>3. /\ limit' = [limit EXCEPT ![a] = limit'[a]]
      /\ limit'[a] = f.max_allowed /\ limit[a] = exposure[a].max_allowed
  BY <1>1, PromiseChange
<1>4. CASE f.max_allowed = exposure[a].max_allowed
  BY <1>2, <1>3, <1>4 DEF limit
<1>5. CASE f.max_allowed > exposure[a].max_allowed
  BY <1>2, <1>3, <1>5 DEF Budget!Raise
<1>6. QED
  BY <1>1, <1>4, <1>5

\* A reservation that was allowed, with a limit that may rise first, is a draw.
LEMMA ReserveBudget ==
  ASSUME TypeOK, CommittedWithinCap, NEW a \in Agents, NEW cap \in Nat, NEW n \in Nat,
         CanReserve(EnsureAgent(exposure[a], cap), n),
         exposure' =
           [exposure EXCEPT ![a] = ReserveExposure(EnsureAgent(exposure[a], cap), n)]
  PROVE  Budget!Draw(a)
<1> DEFINE e == EnsureAgent(exposure[a], cap)
           f == ReserveExposure(e, n)
<1>1. /\ Sound(exposure[a]) /\ Sound(e) /\ Sound(f)
      /\ f.outstanding = exposure[a].outstanding /\ f.max_allowed >= exposure[a].max_allowed
      /\ ~f.frozen /\ ~exposure[a].frozen
  BY EntriesSound, EnsureFacts, ReserveFacts
<1>2. f.reserved = exposure[a].reserved + n
  <2>1. e.reserved = exposure[a].reserved /\ e \in Exposure
    BY <1>1, EnsureFacts DEF Sound
  <2>2. QED
    BY <2>1 DEF ReserveExposure, Exposure
<1> HIDE DEF e, f
<1>3. exposure' = [exposure EXCEPT ![a] = f]
  BY DEF e, f
<1>4. f \in Exposure /\ f.outstanding + f.reserved <= f.max_allowed
  BY <1>1 DEF Sound
<1>5. /\ owed' = [owed EXCEPT ![a] = owed'[a]]
      /\ owed'[a] = f.outstanding + f.reserved
      /\ owed[a] = exposure[a].outstanding + exposure[a].reserved
      /\ limit' = [limit EXCEPT ![a] = limit'[a]]
      /\ limit'[a] = f.max_allowed /\ limit[a] = exposure[a].max_allowed
      /\ stopped' = stopped \ {a} /\ a \notin stopped
  BY <1>1, <1>3, <1>4, PromiseChange
<1>6. owed'[a] \in owed[a]..limit'[a]
  BY <1>1, <1>2, <1>4, <1>5 DEF Sound, Exposure
<1>7. QED
  BY <1>1, <1>5, <1>6 DEF Budget!Draw

\* An entry that commits to no more than before repays, or does nothing.
LEMMA LessBudget ==
  ASSUME TypeOK, NEW a \in Agents, NEW f, Sound(f), Sound(exposure[a]),
         exposure' = [exposure EXCEPT ![a] = f],
         f.outstanding + f.reserved <= exposure[a].outstanding + exposure[a].reserved,
         f.frozen = exposure[a].frozen, f.max_allowed = exposure[a].max_allowed
  PROVE  Budget!Repay(a)
<1>1. /\ f \in Exposure /\ f.outstanding + f.reserved \in Nat
      /\ exposure[a].outstanding + exposure[a].reserved \in Nat
  BY DEF Sound, Exposure
<1>2. limit' = limit /\ stopped' = stopped
  BY <1>1, PromiseChange DEF limit, stopped
<1>3. /\ owed' = [owed EXCEPT ![a] = owed'[a]]
      /\ owed'[a] = f.outstanding + f.reserved
      /\ owed[a] = exposure[a].outstanding + exposure[a].reserved
  BY <1>1, PromiseChange
<1>4. owed'[a] \in 0..owed[a]
  BY <1>1, <1>3
<1>5. QED
  BY <1>2, <1>3, <1>4 DEF Budget!Repay

LEMMA FreezeBudget ==
  ASSUME TypeOK, CommittedWithinCap, NEW a \in Agents, Freeze(a)
  PROVE  Budget!Stop(a)
<1> DEFINE f == FreezeAgentExposure(exposure[a])
<1>1. /\ Sound(f) /\ f.outstanding = exposure[a].outstanding
      /\ f.reserved = exposure[a].reserved /\ f.max_allowed = exposure[a].max_allowed
      /\ f.frozen
  BY EntriesSound, FreezeFacts
<1>2. exposure' = [exposure EXCEPT ![a] = f] /\ f \in Exposure
  BY <1>1 DEF Freeze, Sound
<1> HIDE DEF f
<1>3. stopped' = stopped \cup {a}
  BY <1>1, <1>2, PromiseChange
<1>4. owed' = owed /\ limit' = limit
  BY <1>1, <1>2, PromiseChange DEF owed, limit
<1>5. QED
  BY <1>3, <1>4 DEF Budget!Stop

\* EnsureAgent with what the entry has already, so that every reservation is alike.
LEMMA EnsureSame ==
  ASSUME NEW e \in Exposure
  PROVE  EnsureAgent(e, e.max_allowed) = e
BY DEF EnsureAgent, Exposure

Promised == Budget!Next \/ UNCHANGED <<owed, limit, stopped>>

LEMMA RootPromised ==
  ASSUME IInv, Root
  PROVE  Promised
<1>1. TypeOK /\ CommittedWithinCap /\ \A a \in Agents : Sound(exposure[a])
  BY EntriesSound DEF IInv
<1>2. ASSUME NEW a \in Agents, NEW cap \in Caps, RaiseCap(a, cap) PROVE Promised
  <2>1. LET f == EnsureAgent(exposure[a], cap) IN
        /\ Sound(f) /\ f.outstanding = exposure[a].outstanding
        /\ f.reserved = exposure[a].reserved /\ f.frozen = exposure[a].frozen
        /\ f.max_allowed >= exposure[a].max_allowed
    BY <1>1, EnsureFacts, ConstantFacts
  <2>2. QED
    BY <1>1, <1>2, <2>1, RaiseBudget DEF RaiseCap, Promised, Budget!Next
<1>3. ASSUME NEW a \in Agents, Freeze(a) PROVE Promised
  BY <1>1, <1>3, FreezeBudget DEF Promised, Budget!Next
<1>4. ASSUME NEW n \in Notes, NEW a \in Agents, NEW c \in Chains, NEW max \in Amounts,
             IssueCan(n, a, c, max)
      PROVE  Promised
  <2>1. /\ exposure[a].max_allowed \in Nat /\ max \in Nat
        /\ EnsureAgent(exposure[a], exposure[a].max_allowed) = exposure[a]
    BY <1>1, EnsureSame, ConstantFacts DEF Sound, Exposure
  <2>2. /\ CanReserve(exposure[a], max)
        /\ exposure' = [exposure EXCEPT ![a] = ReserveExposure(exposure[a], max)]
    BY <1>4 DEF IssueCan
  <2>3. Budget!Draw(a)
    BY <1>1, <2>1, <2>2, ReserveBudget
  <2>4. QED
    BY <2>3 DEF Promised, Budget!Next
<1>5. ASSUME NEW n \in Notes, RevokeCan(n) PROVE Promised
  <2>1. PICK a \in Agents : a = notes[n].agent
    BY <1>1 DEF TypeOK, Note
  <2>2. notes[n].max_draw \in Nat
    BY <1>1 DEF TypeOK, Note
  <2> DEFINE f == ReleaseReservation(exposure[a], notes[n].max_draw)
  <2>3. /\ Sound(f) /\ f.outstanding = exposure[a].outstanding
        /\ f.reserved \in 0..exposure[a].reserved
        /\ f.max_allowed = exposure[a].max_allowed /\ f.frozen = exposure[a].frozen
    BY <1>1, <2>2, ReleaseFacts
  <2>4. exposure' = [exposure EXCEPT ![a] = f]
    BY <1>5, <2>1 DEF RevokeCan
  <2> HIDE DEF f
  <2>5. f.outstanding + f.reserved <= exposure[a].outstanding + exposure[a].reserved
    BY <1>1, <2>3 DEF Sound, Exposure
  <2>6. QED
    BY <1>1, <2>3, <2>4, <2>5, LessBudget DEF Promised, Budget!Next
<1>6. ASSUME NEW n \in Notes, Expire(n) PROVE Promised
  BY <1>6 DEF Expire, Promised, owed, limit, stopped
<1>7. QED
  BY <1>2, <1>3, <1>4, <1>5, <1>6 DEF Root

\* A draw booked, a reservation released or a repayment commits to no more than before.
LEMMA LessPromised ==
  ASSUME IInv, NEW a \in Agents, NEW n \in Nat,
         \/ exposure' = [exposure EXCEPT ![a] = ActivateExposure(@, n)]
         \/ exposure' = [exposure EXCEPT ![a] = ReleaseReservation(@, n)]
         \/ exposure' = [exposure EXCEPT ![a] = DecreaseExposure(@, n)]
  PROVE  Promised
<1>1. TypeOK /\ Sound(exposure[a])
  BY EntriesSound DEF IInv
<1>2. PICK f : /\ exposure' = [exposure EXCEPT ![a] = f] /\ Sound(f)
               /\ f.frozen = exposure[a].frozen
               /\ f.max_allowed = exposure[a].max_allowed
               /\ f.outstanding + f.reserved
                    <= exposure[a].outstanding + exposure[a].reserved
  <2>1. CASE exposure' = [exposure EXCEPT ![a] = ActivateExposure(@, n)]
    <3> DEFINE f == ActivateExposure(exposure[a], n)
    <3>1. /\ Sound(f) /\ f.frozen = exposure[a].frozen
          /\ f.max_allowed = exposure[a].max_allowed
          /\ f.outstanding + f.reserved = exposure[a].outstanding + exposure[a].reserved
      BY <1>1, MovesFacts
    <3>2. exposure[a].outstanding + exposure[a].reserved \in Nat
      BY <1>1 DEF Sound, Exposure
    <3> HIDE DEF f
    <3>3. exposure' = [exposure EXCEPT ![a] = f]
      BY <2>1 DEF f
    <3>4. f.outstanding + f.reserved <= exposure[a].outstanding + exposure[a].reserved
      BY <3>1, <3>2
    <3>5. QED
      BY <3>1, <3>3, <3>4
  <2>2. CASE exposure' = [exposure EXCEPT ![a] = ReleaseReservation(@, n)]
    <3> DEFINE f == ReleaseReservation(exposure[a], n)
    <3>1. /\ Sound(f) /\ f.outstanding = exposure[a].outstanding
          /\ f.reserved \in 0..exposure[a].reserved
          /\ f.max_allowed = exposure[a].max_allowed /\ f.frozen = exposure[a].frozen
      BY <1>1, ReleaseFacts
    <3>2. exposure[a].outstanding \in Nat /\ exposure[a].reserved \in Nat
      BY <1>1 DEF Sound, Exposure
    <3> HIDE DEF f
    <3>3. f.outstanding + f.reserved <= exposure[a].outstanding + exposure[a].reserved
      BY <3>1, <3>2
    <3>4. exposure' = [exposure EXCEPT ![a] = f]
      BY <2>2 DEF f
    <3>5. QED
      BY <3>1, <3>3, <3>4
  <2>3. CASE exposure' = [exposure EXCEPT ![a] = DecreaseExposure(@, n)]
    <3> DEFINE f == DecreaseExposure(exposure[a], n)
    <3>1. /\ Sound(f) /\ f.outstanding \in 0..exposure[a].outstanding
          /\ f.reserved = exposure[a].reserved
          /\ f.max_allowed = exposure[a].max_allowed /\ f.frozen = exposure[a].frozen
      BY <1>1, DecreaseFacts
    <3>2. exposure[a].outstanding \in Nat /\ exposure[a].reserved \in Nat
      BY <1>1 DEF Sound, Exposure
    <3> HIDE DEF f
    <3>3. f.outstanding + f.reserved <= exposure[a].outstanding + exposure[a].reserved
      BY <3>1, <3>2
    <3>4. exposure' = [exposure EXCEPT ![a] = f]
      BY <2>3 DEF f
    <3>5. QED
      BY <3>1, <3>3, <3>4
  <2>4. QED
    BY <2>1, <2>2, <2>3
<1>3. Budget!Repay(a)
  BY <1>1, <1>2, LessBudget
<1>4. QED
  BY <1>3 DEF Promised, Budget!Next

LEMMA AuthorizePromised ==
  ASSUME IInv, NEW r \in Requests, NEW a \in Agents, NEW amount \in Amounts,
         NEW price \in Prices, AuthorizeDraw(r, a, amount, price)
  PROVE  Promised
<1> DEFINE usd == amount * price
           e   == EnsureAgent(exposure[a], FlareCap)
<1>1. TypeOK /\ CommittedWithinCap /\ Sound(exposure[a]) /\ usd \in Nat
      /\ FlareCap \in Nat
  BY EntriesSound, ConstantFacts DEF IInv
<1>2. /\ Sound(e) /\ e.outstanding = exposure[a].outstanding
      /\ e.reserved = exposure[a].reserved /\ e.frozen = exposure[a].frozen
      /\ e.max_allowed >= exposure[a].max_allowed
  BY <1>1, EnsureFacts
<1>3. CASE ~CanReserve(e, usd)
  <2>1. exposure' = [exposure EXCEPT ![a] = e]
    BY <1>3 DEF AuthorizeDraw
  <2> HIDE DEF e
  <2>2. QED
    BY <1>1, <1>2, <2>1, RaiseBudget DEF Promised, Budget!Next
<1>4. CASE CanReserve(e, usd)
  <2>1. exposure' = [exposure EXCEPT ![a] = ReserveExposure(e, usd)]
    BY <1>4 DEF AuthorizeDraw
  <2> HIDE DEF usd
  <2>2. Budget!Draw(a)
    BY <1>1, <1>4, <2>1, ReserveBudget
  <2>3. QED
    BY <2>2 DEF Promised, Budget!Next
<1>5. QED
  BY <1>3, <1>4

LEMMA BookUntouched ==
  ASSUME exposure' = exposure
  PROVE  Promised
BY DEF Promised, owed, limit, stopped

LEMMA BudgetStep == IInv /\ [Next]_vars => [Budget!Next]_(Budget!vars)
<1> SUFFICES ASSUME IInv, [Next]_vars PROVE Promised
  BY DEF Promised, Budget!vars
<1>1. CASE Root
  BY <1>1, RootPromised
<1>2. CASE Vault \/ UNCHANGED vars
  BY <1>2, BookUntouched DEF Vault, DrawOnNote, RepayVault, root, vars
<1>3. CASE Relay
  <2>1. PICK c \in Chains : StartSync(c) \/ RouteDraw(c) \/ RouteRepay(c)
                           \/ AbandonSync(c) \/ FinishSync(c)
    BY <1>3 DEF Relay
  <2>2. CASE StartSync(c) \/ AbandonSync(c) \/ FinishSync(c)
    BY <2>2, BookUntouched DEF StartSync, AbandonSync, FinishSync, root
  <2>3. CASE RouteDraw(c) \/ RouteRepay(c)
    <3>1. Syncing(c) /\ sync[c].next <= sync[c].last
      BY <2>3 DEF RouteDraw, RouteRepay
    <3>2. PICK a \in Agents : a = NextEvent(c).agent
      BY <3>1, NextEventType
    <3>3. PICK n \in Nat : n = NextEvent(c).amount
      BY <3>1, NextEventType
    <3>4. \/ exposure' = exposure
          \/ exposure' = [exposure EXCEPT ![a] = ActivateExposure(@, n)]
          \/ exposure' = [exposure EXCEPT ![a] = DecreaseExposure(@, n)]
      BY <2>3, <3>2, <3>3 DEF RouteDraw, RouteRepay, root
    <3>5. QED
      BY <3>4, BookUntouched, LessPromised
  <2>4. QED
    BY <2>1, <2>2, <2>3
<1>4. CASE FlareRequest
  <2>1. PICK r \in Requests :
          \/ \E a \in Agents, amount \in Amounts :
               \/ \E price \in Prices : AuthorizeDraw(r, a, amount, price)
               \/ StartRepay(r, a, amount)
          \/ \E price \in Prices : CommitDraw(r, price)
          \/ DrawExecuted(r) \/ DrawFailed(r) \/ BookDraw(r)
          \/ RepayExecuted(r) \/ RepayFailed(r) \/ BookRepay(r)
    BY <1>4 DEF FlareRequest
  <2>2. CASE \/ \E a \in Agents, amount \in Amounts : StartRepay(r, a, amount)
             \/ \E price \in Prices : CommitDraw(r, price)
             \/ DrawExecuted(r) \/ DrawFailed(r) \/ RepayExecuted(r) \/ RepayFailed(r)
    <3>1. exposure' = exposure
      BY <2>2 DEF StartRepay, CommitDraw, DrawExecuted, DrawFailed, RepayExecuted,
                  RepayFailed, root
    <3>2. QED
      BY <3>1, BookUntouched
  <2>3. CASE BookDraw(r) \/ BookRepay(r)
    <3>1. PICK a \in Agents : a = request[r].agent
      BY RequestFacts
    <3>2. PICK n \in Nat : n = request[r].usd
      BY RequestFacts
    <3>3. PICK m \in Nat : m = Release(r)
      BY ReleaseNat
    <3>4. \/ exposure' = [exposure EXCEPT ![a] = ActivateExposure(@, n)]
          \/ exposure' = [exposure EXCEPT ![a] = ReleaseReservation(@, n)]
          \/ exposure' = [exposure EXCEPT ![a] = DecreaseExposure(@, m)]
      BY <2>3, <3>1, <3>2, <3>3 DEF BookDraw, BookRepay
    <3>5. QED
      BY <3>4, LessPromised
  <2>4. QED
    BY <2>1, <2>2, <2>3, AuthorizePromised
<1>5. QED
  BY <1>1, <1>2, <1>3, <1>4 DEF Next

LEMMA BudgetInit == Init => Budget!Init
BY DEF Init, NoExposure, Budget!Init, owed, limit, stopped

\* The root keeps the promise of a credit line (CreditBudget) for all it has committed
\* to, however notes, syncs and Flare requests interleave.
THEOREM OmnichainKeepsPromise == Spec => BudgetPromise
<1>1. QED
  BY BudgetInit, BudgetStep, OmnichainInvariance, PTL DEF Spec, BudgetPromise, Budget!Spec

-------------------------------------------------------------------------------
(* The Flare vault, one request at a time *)

Backed(r) ==
  LET q == request[r] IN
  /\ q.pc = "pricing" => q.amount <= liquidity[Flare]
  /\ q.pc = "executing" => q.amount <= debt[Flare][q.agent]
  /\ q.pc = "repaying" => q.paid \in 0..liquidity[Flare]

\* Of requests that do not overlap one at most is under way, and what it may still take
\* or give back is there.
OneAtATime ==
  overlapped = {} =>
    /\ \A r, s \in Busy : r = s
    /\ \A r \in Requests : Backed(r)

SolventInv == IInv /\ FlareSolvent /\ OneAtATime

\* A step on the root or a relay chain leaves Flare alone.
LEMMA FlareUntouched ==
  ASSUME SolventInv, liquidity'[Flare] = liquidity[Flare], debt'[Flare] = debt[Flare],
         UNCHANGED <<request, overlapped>>
  PROVE  FlareSolvent' /\ OneAtATime'
BY DEF SolventInv, FlareSolvent, OneAtATime, Busy, Backed

LEMMA VaultSolvent ==
  ASSUME SolventInv, Vault
  PROVE  FlareSolvent' /\ OneAtATime'
<1>1. PICK amount \in Amounts :
        \/ \E n \in Notes : DrawOnNote(n, amount)
        \/ \E c \in Chains, a \in Agents : RepayVault(c, a, amount)
  BY DEF Vault
<1>2. Flare \notin Chains /\ Flare \in AllChains
  BY OmnichainConstants DEF AllChains
<1>3. liquidity \in [AllChains -> Int] /\ debt \in [AllChains -> [Agents -> Int]]
  BY DEF SolventInv, IInv, TypeOK
<1>4. ASSUME NEW n \in Notes, DrawOnNote(n, amount)
      PROVE  FlareSolvent' /\ OneAtATime'
  <2>1. PICK c \in Chains : c = notes[n].chain
    BY DEF SolventInv, IInv, TypeOK, Note
  <2>2. /\ liquidity' = [liquidity EXCEPT ![c] = @ - amount]
        /\ debt' = [debt EXCEPT ![c][notes[n].agent] = @ + amount]
        /\ UNCHANGED <<request, overlapped>>
    BY <1>4, <2>1 DEF DrawOnNote
  <2>3. liquidity'[Flare] = liquidity[Flare] /\ debt'[Flare] = debt[Flare]
    BY <1>2, <1>3, <2>2
  <2>4. QED
    BY <2>2, <2>3, FlareUntouched
<1>5. ASSUME NEW c \in Chains, NEW a \in Agents, RepayVault(c, a, amount)
      PROVE  FlareSolvent' /\ OneAtATime'
  <2>1. liquidity'[Flare] = liquidity[Flare] /\ debt'[Flare] = debt[Flare]
    BY <1>2, <1>3, <1>5 DEF RepayVault
  <2>2. UNCHANGED <<request, overlapped>>
    BY <1>5 DEF RepayVault
  <2>3. QED
    BY <2>1, <2>2, FlareUntouched
<1>6. QED
  BY <1>1, <1>4, <1>5

\* A request that starts without overlapping is the only one.
LEMMA StartsAlone ==
  ASSUME SolventInv, NEW a \in Agents, Starts(a), overlapped' = {}
  PROVE  overlapped = {} /\ Busy = {}
BY DEF Starts

\* What there is to know of one step of one request, when none overlapped.
LEMMA OneMoves ==
  ASSUME SolventInv, NEW r \in Requests, NEW q,
         overlapped' = {} => overlapped = {} /\ Busy \subseteq {r},
         request' = [request EXCEPT ![r] = q],
         overlapped' = {} =>
           /\ liquidity'[Flare] >= 0 /\ \A a \in Agents : debt'[Flare][a] >= 0
           /\ q.pc = "pricing" => q.amount <= liquidity'[Flare]
           /\ q.pc = "executing" => q.amount <= debt'[Flare][q.agent]
           /\ q.pc = "repaying" => q.paid \in 0..liquidity'[Flare]
  PROVE  FlareSolvent' /\ OneAtATime'
<1>1. FlareSolvent'
  BY DEF FlareSolvent
<1>2. /\ request'[r] = q /\ \A s \in Requests \ {r} : request'[s] = request[s]
  BY DEF SolventInv, IInv, TypeOK
<1>3. ASSUME overlapped' = {}
      PROVE  /\ \A s \in Busy' : s = r
             /\ \A s \in Requests : Backed(s)'
  <2>1. \A s \in Requests \ {r} : request'[s].pc \in {"none", "done"}
    BY <1>2, <1>3 DEF Busy
  <2>2. \A s \in Requests \ {r} : Backed(s)'
    BY <2>1 DEF Backed
  <2>3. Backed(r)'
    BY <1>2, <1>3 DEF Backed
  <2>4. \A s \in Busy' : s = r
    BY <2>1 DEF Busy
  <2>5. QED
    BY <2>2, <2>3, <2>4
<1>4. OneAtATime'
  BY <1>3 DEF OneAtATime
<1>5. QED
  BY <1>1, <1>4

\* A request under way is the only one.
LEMMA AloneBusy ==
  ASSUME SolventInv, NEW r \in Busy, overlapped = {}
  PROVE  Busy \subseteq {r}
BY DEF SolventInv, OneAtATime

LEMMA FlareNumbers ==
  ASSUME SolventInv
  PROVE  /\ Flare \in AllChains /\ liquidity[Flare] \in Int
         /\ \A a \in Agents : debt[Flare][a] \in Int
         /\ request \in [Requests -> Request]
BY DEF SolventInv, IInv, TypeOK, AllChains

LEMMA AuthorizeDrawSolvent ==
  ASSUME SolventInv, NEW r \in Requests, NEW a \in Agents, NEW amount \in Amounts,
         NEW price \in Prices, AuthorizeDraw(r, a, amount, price)
  PROVE  FlareSolvent' /\ OneAtATime'
<1> DEFINE pc == IF amount <= liquidity[Flare] THEN "pricing" ELSE "undone"
           q  == [NoRequest EXCEPT !.pc = pc, !.agent = a, !.amount = amount,
                                   !.usd = amount * price]
<1>1. UNCHANGED <<liquidity, debt>>
  BY DEF AuthorizeDraw, vaults
<1>2. CASE UNCHANGED <<request, overlapped>>
  BY <1>1, <1>2, FlareUntouched
<1>3. CASE request' = [request EXCEPT ![r] = q] /\ Starts(a)
  <2>1. overlapped' = {} => overlapped = {} /\ Busy \subseteq {r}
    BY <1>3, StartsAlone
  <2>2. q.pc = pc /\ q.amount = amount
    BY DEF NoRequest
  <2>3. overlapped = {} =>
          liquidity[Flare] >= 0 /\ \A b \in Agents : debt[Flare][b] >= 0
    BY DEF SolventInv, FlareSolvent
  <2>4. pc = "pricing" => amount <= liquidity[Flare]
    OBVIOUS
  <2>5. pc # "executing" /\ pc # "repaying"
    OBVIOUS
  <2> HIDE DEF q, pc
  <2>6. QED
    BY <1>1, <1>3, <2>1, <2>2, <2>3, <2>4, <2>5, OneMoves
<1>4. QED
  BY <1>2, <1>3 DEF AuthorizeDraw

LEMMA CommitDrawSolvent ==
  ASSUME SolventInv, NEW r \in Requests, NEW price \in Prices, CommitDraw(r, price)
  PROVE  FlareSolvent' /\ OneAtATime'
<1>1. PICK a \in Agents : a = request[r].agent
  BY RequestFacts DEF SolventInv
<1>2. PICK m \in Nat : m = request[r].amount
  BY RequestFacts DEF SolventInv
<1>3. overlapped' = overlapped /\ request[r].pc = "pricing" /\ r \in Busy
  BY DEF CommitDraw, history, Busy
<1>4. overlapped = {} => Busy \subseteq {r}
  BY <1>3, AloneBusy
<1>5. overlapped = {} =>
        /\ m <= liquidity[Flare] /\ liquidity[Flare] >= 0
        /\ \A b \in Agents : debt[Flare][b] >= 0
  BY <1>2, <1>3 DEF SolventInv, FlareSolvent, OneAtATime, Backed
<1>6. PICK pc \in {"undone", "executing"} :
        /\ Goto(r, pc)
        /\ IF pc = "undone" THEN UNCHANGED <<liquidity, debt>>
           ELSE /\ liquidity' = [liquidity EXCEPT ![Flare] = @ - m]
                /\ debt' = [debt EXCEPT ![Flare][a] = @ + m]
  BY <1>1, <1>2 DEF CommitDraw
<1> DEFINE q == [request[r] EXCEPT !.pc = pc]
<1>7. q.pc = pc /\ q.amount = m /\ q.agent = a
  BY <1>1, <1>2, FlareNumbers DEF Request
<1>8. request' = [request EXCEPT ![r] = q]
  BY <1>6 DEF Goto
<1> HIDE DEF q
<1>9. overlapped' = {} =>
        /\ liquidity'[Flare] >= 0 /\ \A b \in Agents : debt'[Flare][b] >= 0
        /\ pc = "executing" => m <= debt'[Flare][a]
  <2>1. CASE pc = "undone"
    BY <1>3, <1>5, <1>6, <2>1
  <2>2. CASE pc = "executing"
    <3>1. /\ liquidity' = [liquidity EXCEPT ![Flare] = @ - m]
          /\ debt' = [debt EXCEPT ![Flare][a] = @ + m]
      BY <1>6, <2>2
    <3>2. liquidity \in [AllChains -> Int] /\ debt \in [AllChains -> [Agents -> Int]]
      BY DEF SolventInv, IInv, TypeOK
    <3>3. /\ liquidity'[Flare] = liquidity[Flare] - m
          /\ debt'[Flare][a] = debt[Flare][a] + m
          /\ \A b \in Agents \ {a} : debt'[Flare][b] = debt[Flare][b]
      BY <3>1, <3>2, FlareNumbers
    <3>4. QED
      BY <1>3, <1>5, <3>3, FlareNumbers
  <2>3. QED
    BY <2>1, <2>2
<1>10. QED
  BY <1>3, <1>4, <1>7, <1>8, <1>9, OneMoves

LEMMA DrawFailedSolvent ==
  ASSUME SolventInv, NEW r \in Requests, DrawFailed(r)
  PROVE  FlareSolvent' /\ OneAtATime'
<1>1. PICK a \in Agents : a = request[r].agent
  BY RequestFacts DEF SolventInv
<1>2. PICK m \in Nat : m = request[r].amount
  BY RequestFacts DEF SolventInv
<1>3. /\ overlapped' = overlapped /\ request[r].pc = "executing" /\ r \in Busy
      /\ liquidity' = [liquidity EXCEPT ![Flare] = @ + m]
      /\ debt' = [debt EXCEPT ![Flare][a] = @ - m]
  BY <1>1, <1>2 DEF DrawFailed, history, Busy
<1>4. overlapped = {} => Busy \subseteq {r}
  BY <1>3, AloneBusy
<1>5. overlapped = {} =>
        /\ m <= debt[Flare][a] /\ liquidity[Flare] >= 0
        /\ \A b \in Agents : debt[Flare][b] >= 0
  BY <1>1, <1>2, <1>3 DEF SolventInv, FlareSolvent, OneAtATime, Backed
<1>6. liquidity \in [AllChains -> Int] /\ debt \in [AllChains -> [Agents -> Int]]
  BY DEF SolventInv, IInv, TypeOK
<1>7. /\ liquidity'[Flare] = liquidity[Flare] + m
      /\ debt'[Flare][a] = debt[Flare][a] - m
      /\ \A b \in Agents \ {a} : debt'[Flare][b] = debt[Flare][b]
  BY <1>3, <1>6, FlareNumbers
<1>8. overlapped' = {} =>
        liquidity'[Flare] >= 0 /\ \A b \in Agents : debt'[Flare][b] >= 0
  BY <1>3, <1>5, <1>7, FlareNumbers
<1> DEFINE q == [request[r] EXCEPT !.pc = "undone"]
<1>9. q.pc = "undone" /\ request' = [request EXCEPT ![r] = q]
  BY FlareNumbers DEF DrawFailed, Goto, Request
<1> HIDE DEF q
<1>10. QED
  BY <1>3, <1>4, <1>8, <1>9, OneMoves

LEMMA StartRepaySolvent ==
  ASSUME SolventInv, NEW r \in Requests, NEW a \in Agents, NEW amount \in Amounts,
         StartRepay(r, a, amount)
  PROVE  FlareSolvent' /\ OneAtATime'
<1> DEFINE owe  == debt[Flare][a]
           paid == IF amount > owe THEN owe ELSE amount
           q    == [NoRequest EXCEPT !.pc = "repaying", !.agent = a, !.amount = amount,
                                     !.debtBefore = owe, !.paid = paid]
<1>1. /\ liquidity' = [liquidity EXCEPT ![Flare] = @ + paid]
      /\ debt' = [debt EXCEPT ![Flare][a] = @ - paid]
      /\ request' = [request EXCEPT ![r] = q] /\ Starts(a)
  BY DEF StartRepay
<1>2. overlapped' = {} => overlapped = {} /\ Busy \subseteq {r}
  BY <1>1, StartsAlone
<1>3. overlapped = {} =>
        liquidity[Flare] >= 0 /\ \A b \in Agents : debt[Flare][b] >= 0
  BY DEF SolventInv, FlareSolvent
<1>4. /\ owe \in Int /\ paid \in Int /\ paid <= owe
      /\ overlapped = {} => paid >= 0
  BY <1>3, FlareNumbers, ConstantFacts
<1>5. q.pc = "repaying" /\ q.paid = paid
  BY DEF NoRequest
<1>6. liquidity \in [AllChains -> Int] /\ debt \in [AllChains -> [Agents -> Int]]
  BY DEF SolventInv, IInv, TypeOK
<1> HIDE DEF paid, q
<1>7. /\ liquidity'[Flare] = liquidity[Flare] + paid
      /\ debt'[Flare][a] = owe - paid
      /\ \A b \in Agents \ {a} : debt'[Flare][b] = debt[Flare][b]
  BY <1>1, <1>4, <1>6, FlareNumbers
<1>8. overlapped' = {} =>
        /\ liquidity'[Flare] >= 0 /\ \A b \in Agents : debt'[Flare][b] >= 0
        /\ paid \in 0..liquidity'[Flare]
  BY <1>2, <1>3, <1>4, <1>7, FlareNumbers
<1>9. QED
  BY <1>1, <1>2, <1>5, <1>8, OneMoves

LEMMA RepayFailedSolvent ==
  ASSUME SolventInv, NEW r \in Requests, RepayFailed(r)
  PROVE  FlareSolvent' /\ OneAtATime'
<1>1. PICK a \in Agents : a = request[r].agent
  BY RequestFacts DEF SolventInv
<1>2. PICK m \in Int : m = request[r].paid
  BY RequestFacts DEF SolventInv
<1>3. /\ overlapped' = overlapped /\ request[r].pc = "repaying" /\ r \in Busy
      /\ liquidity' = [liquidity EXCEPT ![Flare] = @ - m]
      /\ debt' = [debt EXCEPT ![Flare][a] = @ + m]
  BY <1>1, <1>2 DEF RepayFailed, history, Busy
<1>4. overlapped = {} => Busy \subseteq {r}
  BY <1>3, AloneBusy
<1>5. overlapped = {} =>
        /\ m \in 0..liquidity[Flare] /\ \A b \in Agents : debt[Flare][b] >= 0
  BY <1>2, <1>3 DEF SolventInv, FlareSolvent, OneAtATime, Backed
<1>6. liquidity \in [AllChains -> Int] /\ debt \in [AllChains -> [Agents -> Int]]
  BY DEF SolventInv, IInv, TypeOK
<1>7. /\ liquidity'[Flare] = liquidity[Flare] - m
      /\ debt'[Flare][a] = debt[Flare][a] + m
      /\ \A b \in Agents \ {a} : debt'[Flare][b] = debt[Flare][b]
  BY <1>3, <1>6, FlareNumbers
<1>8. overlapped' = {} =>
        liquidity'[Flare] >= 0 /\ \A b \in Agents : debt'[Flare][b] >= 0
  BY <1>3, <1>5, <1>7, FlareNumbers
<1> DEFINE q == [NoRequest EXCEPT !.pc = "done"]
<1>9. q.pc = "done" /\ request' = [request EXCEPT ![r] = q]
  BY DEF RepayFailed, Ends, NoRequest
<1> HIDE DEF q
<1>10. QED
  BY <1>3, <1>4, <1>8, <1>9, OneMoves

\* The other steps of a request move no money.
LEMMA RestSolvent ==
  ASSUME SolventInv, NEW r \in Requests,
         \/ DrawExecuted(r) \/ BookDraw(r) \/ RepayExecuted(r) \/ BookRepay(r)
  PROVE  FlareSolvent' /\ OneAtATime'
<1>1. /\ UNCHANGED <<liquidity, debt>> /\ overlapped' = overlapped /\ r \in Busy
      /\ Ends(r) \/ Goto(r, "drawn") \/ Goto(r, "repaid")
  BY DEF DrawExecuted, BookDraw, RepayExecuted, BookRepay, vaults, history, Busy
<1>2. PICK q : /\ request' = [request EXCEPT ![r] = q]
               /\ q.pc \in {"done", "drawn", "repaid"}
  <2>1. CASE Ends(r)
    <3>1. [NoRequest EXCEPT !.pc = "done"].pc = "done"
      BY DEF NoRequest
    <3>2. QED
      BY <2>1, <3>1 DEF Ends
  <2>2. CASE Goto(r, "drawn") \/ Goto(r, "repaid")
    <3>1. /\ [request[r] EXCEPT !.pc = "drawn"].pc = "drawn"
          /\ [request[r] EXCEPT !.pc = "repaid"].pc = "repaid"
      BY FlareNumbers DEF Request
    <3>2. QED
      BY <2>2, <3>1 DEF Goto
  <2>3. QED
    BY <1>1, <2>1, <2>2
<1>3. overlapped = {} => Busy \subseteq {r}
  BY <1>1, AloneBusy
<1>4. overlapped = {} =>
        liquidity[Flare] >= 0 /\ \A b \in Agents : debt[Flare][b] >= 0
  BY DEF SolventInv, FlareSolvent
<1>5. QED
  BY <1>1, <1>2, <1>3, <1>4, OneMoves

LEMMA SolventStep == SolventInv /\ [Next]_vars => SolventInv'
<1> SUFFICES ASSUME SolventInv, [Next]_vars PROVE FlareSolvent' /\ OneAtATime'
  BY StepInv DEF SolventInv
<1>1. CASE Root \/ Relay \/ UNCHANGED vars
  <2>1. UNCHANGED <<liquidity, debt, request, overlapped>>
    BY <1>1 DEF Root, RaiseCap, Freeze, IssueCan, RevokeCan, Expire, Relay, StartSync,
                RouteDraw, RouteRepay, AbandonSync, FinishSync, vaults, history, vars
  <2>2. QED
    BY <2>1, FlareUntouched
<1>2. CASE Vault
  BY <1>2, VaultSolvent
<1>3. CASE FlareRequest
  <2>1. PICK r \in Requests :
          \/ \E a \in Agents, amount \in Amounts :
               \/ \E price \in Prices : AuthorizeDraw(r, a, amount, price)
               \/ StartRepay(r, a, amount)
          \/ \E price \in Prices : CommitDraw(r, price)
          \/ DrawExecuted(r) \/ DrawFailed(r) \/ BookDraw(r)
          \/ RepayExecuted(r) \/ RepayFailed(r) \/ BookRepay(r)
    BY <1>3 DEF FlareRequest
  <2>2. QED
    BY <2>1, AuthorizeDrawSolvent, StartRepaySolvent, CommitDrawSolvent,
       DrawFailedSolvent, RepayFailedSolvent, RestSolvent
<1>4. QED
  BY <1>1, <1>2, <1>3 DEF Next

LEMMA SolventInit == Init => SolventInv
<1> SUFFICES ASSUME Init PROVE FlareSolvent /\ OneAtATime
  BY InitInv DEF SolventInv
<1>1. FlareSolvent
  BY ConstantFacts DEF Init, FlareSolvent, AllChains
<1>2. \A r \in Requests : request[r].pc = "none"
  BY DEF Init, NoRequest
<1>3. OneAtATime
  BY <1>2 DEF OneAtATime, Busy, Backed
<1>4. QED
  BY <1>1, <1>3

\* One request at a time, the Flare vault lends only what it has and takes only what it
\* is owed, whatever the feed reads and whichever executions fail (FlareSatelliteVault).
THEOREM OmnichainFlareSolvent == Spec => []FlareSolvent
<1>1. SolventInv => FlareSolvent
  BY DEF SolventInv
<1>2. Spec => []SolventInv
  BY SolventInit, SolventStep, PTL DEF Spec
<1>3. QED
  BY <1>1, <1>2, PTL
===============================================================================
