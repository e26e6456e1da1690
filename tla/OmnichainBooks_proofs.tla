------------------------ MODULE OmnichainBooks_proofs ------------------------
(***************************************************************************)
(* The books of the root and of the vaults, for every set of agents,       *)
(* chains, notes and requests: what is reserved is backed by notes and     *)
(* requests, what is outstanding is what the chains are owed, each vault   *)
(* keeps what it was given, and a Flare account that borrows nowhere else  *)
(* and makes one request at a time settles together with the root. All     *)
(* four compare sums over notes, requests, events or agents.               *)
(***************************************************************************)
EXTENDS OmnichainCredit_proofs, SetSums

-------------------------------------------------------------------------------
(* The vaults *)

\* Money moves between a vault and one agent.
LEMMA MoneyShifts ==
  ASSUME TypeOK, VaultsConserve, NEW c \in AllChains, NEW a \in Agents, NEW y \in Int, NEW z \in Int, y + z = debt[c][a] + liquidity[c],
         debt' = [debt EXCEPT ![c][a] = y], liquidity' = [liquidity EXCEPT ![c] = z]
  PROVE  VaultsConserve'
<1> DEFINE owes(d)  == [b \in Agents |-> debt[d][b]]
           owesN(d) == [b \in Agents |-> debt'[d][b]]
           sum(d)   == SumFunctionOnSet(owes(d), Agents)
           sumN(d)  == SumFunctionOnSet(owesN(d), Agents)
<1>1. /\ debt \in [AllChains -> [Agents -> Int]] /\ liquidity \in [AllChains -> Int]
      /\ IsFiniteSet(Agents) /\ Liquidity \in Nat
  BY FiniteWorld, ConstantFacts DEF TypeOK
<1>2. \A d \in AllChains : liquidity[d] + sum(d) = Liquidity
  BY DEF VaultsConserve, SumOf
<1>3. SUFFICES ASSUME NEW d \in AllChains
               PROVE  liquidity'[d] + sumN(d) = Liquidity
  BY DEF VaultsConserve, SumOf
<1>4. CASE d # c
  <2>1. liquidity'[d] = liquidity[d] /\ debt'[d] = debt[d]
    BY <1>1, <1>4
  <2>2. owesN(d) = owes(d)
    BY <2>1
  <2>3. QED
    BY <1>2, <2>1, <2>2
<1>5. CASE d = c
  <2>1. /\ liquidity'[c] = z /\ debt'[c][a] = y
        /\ \A b \in Agents \ {a} : debt'[c][b] = debt[c][b]
    BY <1>1
  <2>2. /\ \A b \in Agents : owes(c)[b] \in Int
        /\ \A b \in Agents : owesN(c)[b] \in Int
        /\ \A b \in Agents \ {a} : owes(c)[b] = owesN(c)[b]
        /\ owesN(c)[a] = y /\ owes(c)[a] = debt[c][a]
    BY <1>1, <2>1
  <2>3. sum(c) \in Int
    BY <1>1, <2>2, SumInt
  <2>4. sumN(c) = sum(c) - owes(c)[a] + owesN(c)[a]
    <3> DEFINE f == owes(c)
               g == owesN(c)
    <3>1. /\ \A b \in Agents : f[b] \in Int /\ g[b] \in Int
          /\ \A b \in Agents \ {a} : f[b] = g[b]
      BY <2>2
    <3> HIDE DEF f, g
    <3>2. SumFunctionOnSet(g, Agents) = SumFunctionOnSet(f, Agents) - f[a] + g[a]
      BY <1>1, <3>1, SumUpdate
    <3>3. QED
      BY <3>2 DEF f, g
  <2>5. /\ liquidity[c] \in Int /\ debt[c][a] \in Int
        /\ owes(c)[a] = debt[c][a] /\ owesN(c)[a] = y
    BY <1>1, <2>2
  <2>6. liquidity[c] + sum(c) = Liquidity
    BY <1>2
  <2> HIDE DEF owes, owesN, sum, sumN
  <2>7. liquidity'[c] + sumN(c) = Liquidity
    BY <2>1, <2>3, <2>4, <2>5, <2>6
  <2>8. QED
    BY <1>5, <2>7
<1>6. QED
  BY <1>4, <1>5

\* The vault lends m, or takes m.
LEMMA MoneyMoves ==
  ASSUME TypeOK, VaultsConserve, NEW c \in AllChains, NEW a \in Agents, NEW m \in Int,
         \/ /\ debt' = [debt EXCEPT ![c][a] = @ + m]
            /\ liquidity' = [liquidity EXCEPT ![c] = @ - m]
         \/ /\ debt' = [debt EXCEPT ![c][a] = @ - m]
            /\ liquidity' = [liquidity EXCEPT ![c] = @ + m]
  PROVE  VaultsConserve'
<1>1. debt[c][a] \in Int /\ liquidity[c] \in Int
  BY DEF TypeOK
<1>2. PICK y \in Int, z \in Int :
        /\ y + z = debt[c][a] + liquidity[c]
        /\ debt' = [debt EXCEPT ![c][a] = y] /\ liquidity' = [liquidity EXCEPT ![c] = z]
  <2>1. CASE /\ debt' = [debt EXCEPT ![c][a] = @ + m]
             /\ liquidity' = [liquidity EXCEPT ![c] = @ - m]
    <3>1. /\ debt[c][a] + m \in Int /\ liquidity[c] - m \in Int
          /\ (debt[c][a] + m) + (liquidity[c] - m) = debt[c][a] + liquidity[c]
      BY <1>1
    <3>2. QED
      BY <2>1, <3>1
  <2>2. CASE /\ debt' = [debt EXCEPT ![c][a] = @ - m]
             /\ liquidity' = [liquidity EXCEPT ![c] = @ + m]
    <3>1. /\ debt[c][a] - m \in Int /\ liquidity[c] + m \in Int
          /\ (debt[c][a] - m) + (liquidity[c] + m) = debt[c][a] + liquidity[c]
      BY <1>1
    <3>2. QED
      BY <2>2, <3>1
  <2>3. QED
    BY <2>1, <2>2
<1>3. QED
  BY <1>2, MoneyShifts

\* Steps that move no money.
LEMMA MoneyStays ==
  ASSUME VaultsConserve, UNCHANGED <<liquidity, debt>>
  PROVE  VaultsConserve'
<1> DEFINE owes(c)  == [a \in Agents |-> debt[c][a]]
           owesN(c) == [a \in Agents |-> debt'[c][a]]
<1>1. \A c \in AllChains : liquidity[c] + SumFunctionOnSet(owes(c), Agents) = Liquidity
  BY DEF VaultsConserve, SumOf
<1>2. \A c \in AllChains : owesN(c) = owes(c) /\ liquidity'[c] = liquidity[c]
  OBVIOUS
<1>3. \A c \in AllChains :
        liquidity'[c] + SumFunctionOnSet(owesN(c), Agents) = Liquidity
  BY <1>1, <1>2
<1>4. QED
  BY <1>3 DEF VaultsConserve, SumOf

LEMMA VaultsInit == Init => VaultsConserve
<1> SUFFICES ASSUME Init, NEW c \in AllChains
             PROVE  liquidity[c] + SumOf(Agents, LAMBDA a : debt[c][a]) = Liquidity
  BY DEF VaultsConserve
<1> DEFINE owes == [a \in Agents |-> debt[c][a]]
<1>1. IsFiniteSet(Agents) /\ \A a \in Agents : owes[a] = 0
  BY FiniteWorld DEF Init
<1>2. SumFunctionOnSet(owes, Agents) = 0
  BY <1>1, SumZero
<1>3. liquidity[c] = Liquidity /\ Liquidity \in Nat
  BY ConstantFacts DEF Init
<1>4. QED
  BY <1>2, <1>3 DEF SumOf

\* A step moves liquidity against debt.
LEMMA VaultsStep ==
  ASSUME IInv, VaultsConserve, [Next]_vars
  PROVE  VaultsConserve'
<1>1. TypeOK /\ Flare \in AllChains /\ Chains \subseteq AllChains
  BY DEF IInv, AllChains
<1>2. CASE Root \/ Relay \/ UNCHANGED vars
  <2>1. UNCHANGED <<liquidity, debt>>
    BY <1>2 DEF Root, RaiseCap, Freeze, IssueCan, RevokeCan, Expire, Relay, StartSync,
                RouteDraw, RouteRepay, AbandonSync, FinishSync, vaults, vars
  <2>2. QED
    BY <2>1, MoneyStays
<1>3. CASE Vault
  <2>1. ASSUME NEW n \in Notes, NEW amount \in Amounts, DrawOnNote(n, amount)
        PROVE  VaultsConserve'
    <3>1. notes[n].chain \in Chains /\ notes[n].agent \in Agents
      BY <1>1 DEF TypeOK, Note
    <3>2. amount \in Int /\ notes[n].chain \in AllChains
      BY <1>1, <3>1, ConstantFacts
    <3>3. /\ debt' = [debt EXCEPT ![notes[n].chain][notes[n].agent] = @ + amount]
          /\ liquidity' = [liquidity EXCEPT ![notes[n].chain] = @ - amount]
      BY <2>1 DEF DrawOnNote
    <3>4. QED
      BY <1>1, <3>1, <3>2, <3>3, MoneyMoves
  <2>2. ASSUME NEW c \in Chains, NEW a \in Agents, NEW amount \in Amounts,
               RepayVault(c, a, amount)
        PROVE  VaultsConserve'
    <3> DEFINE paid == Lesser(amount, debt[c][a])
    <3>1. c \in AllChains /\ debt[c] \in [Agents -> Int] /\ amount \in Int
      BY <1>1, ConstantFacts DEF TypeOK
    <3>3. paid \in Int
      BY <3>1 DEF Lesser
    <3>2. /\ debt' = [debt EXCEPT ![c][a] = @ - paid]
          /\ liquidity' = [liquidity EXCEPT ![c] = @ + paid]
      BY <2>2 DEF RepayVault
    <3>4. QED
      BY <1>1, <3>1, <3>2, <3>3, MoneyMoves
  <2>3. QED
    BY <1>3, <2>1, <2>2 DEF Vault
<1>4. CASE FlareRequest
  <2>1. PICK r \in Requests :
          \/ \E a \in Agents, amount \in Amounts :
               \/ \E price \in Prices : AuthorizeDraw(r, a, amount, price)
               \/ StartRepay(r, a, amount)
          \/ \E price \in Prices : CommitDraw(r, price)
          \/ DrawExecuted(r) \/ DrawFailed(r) \/ BookDraw(r)
          \/ RepayExecuted(r) \/ RepayFailed(r) \/ BookRepay(r)
    BY <1>4 DEF FlareRequest
  <2>2. /\ request[r].agent \in Agents /\ request[r].amount \in Int
        /\ request[r].paid \in Int
    BY RequestFacts
  <2>3. CASE UNCHANGED <<liquidity, debt>>
    BY <2>3, MoneyStays
  <2>4. CASE \E price \in Prices : CommitDraw(r, price)
    <3>1. CASE ~(UNCHANGED <<liquidity, debt>>)
      <4>1. /\ debt' = [debt EXCEPT ![Flare][request[r].agent] = @ + request[r].amount]
            /\ liquidity' = [liquidity EXCEPT ![Flare] = @ - request[r].amount]
        BY <2>4, <3>1 DEF CommitDraw
      <4>2. QED
        BY <1>1, <2>2, <4>1, MoneyMoves
    <3>2. QED
      BY <2>3, <3>1
  <2>5. CASE DrawFailed(r)
    <3>1. /\ debt' = [debt EXCEPT ![Flare][request[r].agent] = @ - request[r].amount]
          /\ liquidity' = [liquidity EXCEPT ![Flare] = @ + request[r].amount]
      BY <2>5 DEF DrawFailed
    <3>2. QED
      BY <1>1, <2>2, <3>1, MoneyMoves
  <2>6. ASSUME NEW a \in Agents, NEW amount \in Amounts, StartRepay(r, a, amount)
        PROVE  VaultsConserve'
    <3> DEFINE paid == IF amount > debt[Flare][a] THEN debt[Flare][a] ELSE amount
    <3>1. /\ debt' = [debt EXCEPT ![Flare][a] = @ - paid]
          /\ liquidity' = [liquidity EXCEPT ![Flare] = @ + paid]
      BY <2>6 DEF StartRepay
    <3>2. amount \in Int /\ debt[Flare] \in [Agents -> Int]
      BY <1>1, ConstantFacts DEF TypeOK
    <3>3. paid \in Int
      BY <3>2
    <3>4. QED
      BY <1>1, <3>1, <3>3, MoneyMoves
  <2>7. CASE RepayFailed(r)
    <3>1. /\ debt' = [debt EXCEPT ![Flare][request[r].agent] = @ + request[r].paid]
          /\ liquidity' = [liquidity EXCEPT ![Flare] = @ - request[r].paid]
      BY <2>7 DEF RepayFailed
    <3>2. QED
      BY <1>1, <2>2, <3>1, MoneyMoves
  <2>8. ASSUME \/ \E a \in Agents, amount \in Amounts, price \in Prices :
                    AuthorizeDraw(r, a, amount, price)
               \/ DrawExecuted(r) \/ BookDraw(r) \/ RepayExecuted(r) \/ BookRepay(r)
        PROVE  UNCHANGED <<liquidity, debt>>
    BY <2>8 DEF AuthorizeDraw, DrawExecuted, BookDraw, RepayExecuted, BookRepay, vaults
  <2>9. QED
    BY <2>1, <2>3, <2>4, <2>5, <2>6, <2>7, <2>8
<1>5. QED
  BY <1>2, <1>3, <1>4 DEF Next

\* No vault creates or loses money (rollbackDraw, rollbackRepay).
THEOREM OmnichainVaults == Spec => []VaultsConserve
<1>1. IInv /\ VaultsConserve /\ [Next]_vars => VaultsConserve'
  BY VaultsStep
<1>2. QED
  BY <1>1, VaultsInit, OmnichainInvariance, PTL DEF Spec

-------------------------------------------------------------------------------
(* Notes and the events of their draws *)

NotesSound ==
  \A n \in Notes :
    /\ drawn[n] <= notes[n].max_draw
    /\ Unissued(n) => drawn[n] = 0
    /\ notes[n].status = "consumed" => drawn[n] > 0

\* What the event of a draw says is what was drawn.
LogFits ==
  \A c \in Chains : \A i \in 1..Len(log[c]) :
    log[c][i].type = "CreditDrawn" =>
      /\ log[c][i].note \in Notes
      /\ drawn[log[c][i].note] = log[c][i].amount
      /\ notes[log[c][i].note].agent = log[c][i].agent
      /\ notes[log[c][i].note].chain = c

\* A repayment has nothing reserved.
RepaysReserveNothing ==
  \A r \in Requests : request[r].pc \in {"repaying", "repaid"} => request[r].usd = 0

NotesInv == IInv /\ NotesSound /\ LogFits /\ RepaysReserveNothing

\* What the log holds.
LEMMA EventTypes ==
  ASSUME TypeOK, NEW c \in Chains, NEW i \in 1..Len(log[c])
  PROVE  /\ log[c][i] \in Event /\ log[c][i].agent \in Agents
         /\ log[c][i].amount \in Nat \ {0}
<1>1. log[c][i] \in Event
  BY DEF TypeOK
<1>2. QED
  BY <1>1, OmnichainConstants DEF Event

\* What a note holds.
LEMMA NoteTypes ==
  ASSUME TypeOK, NEW n \in Notes
  PROVE  /\ notes[n] \in Note /\ notes[n].agent \in Agents /\ notes[n].chain \in Chains
         /\ notes[n].max_draw \in Nat /\ drawn[n] \in Nat
BY DEF TypeOK, Note

\* Steps that touch neither notes nor logs.
LEMMA NotesUntouched ==
  ASSUME NotesInv, UNCHANGED <<notes, drawn, log>>
  PROVE  NotesSound' /\ LogFits'
BY DEF NotesInv, NotesSound, LogFits, Unissued

LEMMA IssueCanNotes ==
  ASSUME NotesInv, NEW n \in Notes, NEW a \in Agents, NEW c \in Chains, NEW max \in Amounts,
         IssueCan(n, a, c, max)
  PROVE  NotesSound' /\ LogFits'
<1>1. TypeOK /\ drawn[n] = 0 /\ UNCHANGED <<drawn, log>>
  BY DEF NotesInv, IInv, NotesSound, IssueCan, vaults, relayer
<1>2. /\ \A m \in Notes \ {n} : notes'[m] = notes[m]
      /\ notes'[n].status = "issued" /\ notes'[n].max_draw = max /\ max \in Nat
  BY <1>1, ConstantFacts DEF IssueCan, TypeOK
<1>3. NotesSound'
  BY <1>1, <1>2 DEF NotesInv, NotesSound, Unissued
<1>4. LogFits'
  <2> SUFFICES ASSUME NEW d \in Chains, NEW i \in 1..Len(log[d]),
                      log[d][i].type = "CreditDrawn"
               PROVE  /\ log[d][i].note \in Notes
                      /\ drawn[log[d][i].note] = log[d][i].amount
                      /\ notes'[log[d][i].note].agent = log[d][i].agent
                      /\ notes'[log[d][i].note].chain = d
    BY <1>1 DEF LogFits
  <2>1. /\ log[d][i].note \in Notes
        /\ drawn[log[d][i].note] = log[d][i].amount
        /\ notes[log[d][i].note].agent = log[d][i].agent
        /\ notes[log[d][i].note].chain = d
    BY DEF NotesInv, LogFits
  <2>2. log[d][i].note # n
    BY <1>1, <2>1, EventTypes
  <2>3. QED
    BY <1>2, <2>1, <2>2
<1>5. QED
  BY <1>3, <1>4

\* A note whose status alone changes, to one that fits what was drawn.
LEMMA StatusMoves ==
  ASSUME NotesInv, NEW n \in Notes, UNCHANGED <<drawn, log>>,
         \A m \in Notes \ {n} : notes'[m] = notes[m],
         notes'[n].agent = notes[n].agent, notes'[n].chain = notes[n].chain,
         notes'[n].max_draw = notes[n].max_draw, notes'[n].status # "none",
         notes'[n].status = "consumed" => drawn[n] > 0
  PROVE  NotesSound' /\ LogFits'
<1>1. NotesSound'
  BY DEF NotesInv, NotesSound, Unissued
<1>2. LogFits'
  <2>1. \A m \in Notes :
          notes'[m].agent = notes[m].agent /\ notes'[m].chain = notes[m].chain
    OBVIOUS
  <2>2. QED
    BY <2>1 DEF NotesInv, LogFits
<1>3. QED
  BY <1>1, <1>2

LEMMA RevokeExpireNotes ==
  ASSUME NotesInv, NEW n \in Notes, RevokeCan(n) \/ Expire(n)
  PROVE  NotesSound' /\ LogFits'
<1>1. TypeOK /\ notes \in [Notes -> Note] /\ UNCHANGED <<drawn, log>>
  BY DEF NotesInv, IInv, TypeOK, RevokeCan, Expire, vaults, relayer
<1>2. PICK m : /\ notes' = [notes EXCEPT ![n] = m]
               /\ m.agent = notes[n].agent /\ m.chain = notes[n].chain
               /\ m.max_draw = notes[n].max_draw /\ m.status # "none"
               /\ m.status = "consumed" => notes[n].status = "consumed"
  <2>1. notes[n] \in Note
    BY <1>1
  <2>2. CASE RevokeCan(n)
    <3> DEFINE m == [notes[n] EXCEPT !.status = "revoked"]
    <3>1. /\ m.agent = notes[n].agent /\ m.chain = notes[n].chain
          /\ m.max_draw = notes[n].max_draw /\ m.status = "revoked"
      BY <2>1 DEF Note
    <3>2. notes' = [notes EXCEPT ![n] = m]
      BY <2>2 DEF RevokeCan
    <3> HIDE DEF m
    <3>3. QED
      BY <3>1, <3>2
  <2>3. CASE Expire(n)
    <3> DEFINE m == [notes[n] EXCEPT !.expired = TRUE]
    <3>1. /\ m.agent = notes[n].agent /\ m.chain = notes[n].chain
          /\ m.max_draw = notes[n].max_draw /\ m.status = notes[n].status
      BY <2>1 DEF Note
    <3>2. notes' = [notes EXCEPT ![n] = m] /\ notes[n].status # "none"
      BY <2>3 DEF Expire, Unissued
    <3> HIDE DEF m
    <3>3. QED
      BY <3>1, <3>2
  <2>4. QED
    BY <2>2, <2>3
<1>3. notes'[n] = m /\ \A k \in Notes \ {n} : notes'[k] = notes[k]
  BY <1>1, <1>2
<1>4. m.status = "consumed" => drawn[n] > 0
  BY <1>2 DEF NotesInv, NotesSound
<1>5. QED
  BY <1>1, <1>2, <1>3, <1>4, StatusMoves

\* The event a sync has come to, when it is a draw.
LEMMA NextDraw ==
  ASSUME NotesInv, NEW c \in Chains, Syncing(c), sync[c].next <= sync[c].last,
         NextEvent(c).type = "CreditDrawn"
  PROVE  /\ NextEvent(c).note \in Notes
         /\ drawn[NextEvent(c).note] = NextEvent(c).amount
         /\ notes[NextEvent(c).note].agent = NextEvent(c).agent
         /\ notes[NextEvent(c).note].chain = c
         /\ NextEvent(c).amount \in Nat \ {0}
<1>1. sync[c].next \in 1..Len(log[c])
  BY DEF NotesInv, IInv, TypeOK, SyncsInLog
<1>2. NextEvent(c).amount \in Nat \ {0}
  BY <1>1, EventTypes DEF NextEvent, NotesInv, IInv
<1>3. QED
  BY <1>1, <1>2 DEF NextEvent, NotesInv, LogFits

LEMMA RouteDrawNotes ==
  ASSUME NotesInv, NEW c \in Chains, RouteDraw(c)
  PROVE  NotesSound' /\ LogFits'
<1>1. UNCHANGED <<drawn, log>> /\ notes \in [Notes -> Note]
  BY DEF NotesInv, IInv, TypeOK, RouteDraw, vaults
<1>2. CASE notes' = notes
  BY <1>1, <1>2, NotesUntouched
<1>3. CASE notes' # notes
  <2>1. /\ Syncing(c) /\ sync[c].next <= sync[c].last
        /\ NextEvent(c).type = "CreditDrawn"
        /\ notes' = [notes EXCEPT ![NextEvent(c).note].status = "consumed"]
    BY <1>3 DEF RouteDraw, root
  <2>2. PICK n \in Notes : n = NextEvent(c).note /\ drawn[n] = NextEvent(c).amount
                           /\ NextEvent(c).amount \in Nat \ {0}
    BY <2>1, NextDraw
  <2>3. /\ \A m \in Notes \ {n} : notes'[m] = notes[m]
        /\ notes'[n].agent = notes[n].agent /\ notes'[n].chain = notes[n].chain
        /\ notes'[n].max_draw = notes[n].max_draw /\ notes'[n].status = "consumed"
    <3>1. notes' = [notes EXCEPT ![n].status = "consumed"] /\ notes[n] \in Note
      BY <1>1, <2>1, <2>2
    <3>2. QED
      BY <1>1, <3>1 DEF Note
  <2>4. QED
    BY <1>1, <2>2, <2>3, StatusMoves
<1>4. QED
  BY <1>2, <1>3

\* One event more.
LEMMA EventAdded ==
  ASSUME TypeOK, NEW c \in Chains, NEW e \in Event, Emit(c, e)
  PROVE  /\ Len(log'[c]) = Len(log[c]) + 1 /\ log'[c][Len(log[c]) + 1] = e
         /\ Len(log[c]) \in Nat
         /\ \A i \in 1..Len(log[c]) : log'[c][i] = log[c][i]
         /\ \A d \in Chains \ {c} : log'[d] = log[d]
<1>1. log \in [Chains -> Seq(Event)] /\ log' = [log EXCEPT ![c] = Append(@, e)]
  BY DEF TypeOK, Emit
<1>2. log'[c] = Append(log[c], e) /\ \A d \in Chains \ {c} : log'[d] = log[d]
  BY <1>1
<1>3. log[c] \in Seq(Event)
  BY <1>1
<1>4. QED
  BY <1>2, <1>3

LEMMA DrawOnNoteNotes ==
  ASSUME NotesInv, NEW n \in Notes, NEW amount \in Amounts, DrawOnNote(n, amount)
  PROVE  NotesSound' /\ LogFits'
<1>1. PICK c \in Chains, a \in Agents : c = notes[n].chain /\ a = notes[n].agent
  BY NoteTypes DEF NotesInv, IInv
<1> DEFINE e == [type |-> "CreditDrawn", agent |-> a, note |-> n, amount |-> amount]
<1>2. TypeOK /\ e \in Event /\ Emit(c, e) /\ notes' = notes
  BY <1>1 DEF NotesInv, IInv, Event, DrawOnNote, root
<1>3. /\ drawn[n] = 0 /\ notes[n].status # "none" /\ amount <= notes[n].max_draw
      /\ drawn'[n] = amount /\ \A m \in Notes \ {n} : drawn'[m] = drawn[m]
      /\ amount \in Nat \ {0}
  BY <1>2, OmnichainConstants DEF DrawOnNote, Unissued, TypeOK
<1>4. NotesSound'
  BY <1>2, <1>3 DEF NotesInv, NotesSound, Unissued
<1>5. /\ Len(log'[c]) = Len(log[c]) + 1 /\ log'[c][Len(log[c]) + 1] = e
      /\ Len(log[c]) \in Nat
      /\ \A i \in 1..Len(log[c]) : log'[c][i] = log[c][i]
      /\ \A d \in Chains \ {c} : log'[d] = log[d]
  BY <1>2, EventAdded
<1>6. LogFits'
  <2> SUFFICES ASSUME NEW d \in Chains, NEW i \in 1..Len(log'[d]),
                      log'[d][i].type = "CreditDrawn"
               PROVE  /\ log'[d][i].note \in Notes
                      /\ drawn'[log'[d][i].note] = log'[d][i].amount
                      /\ notes[log'[d][i].note].agent = log'[d][i].agent
                      /\ notes[log'[d][i].note].chain = d
    BY <1>2 DEF LogFits
  <2>1. CASE d = c /\ i = Len(log[c]) + 1
    <3>1. log'[d][i] = e
      BY <1>5, <2>1
    <3>2. QED
      BY <1>1, <1>3, <2>1, <3>1
  <2>2. CASE ~(d = c /\ i = Len(log[c]) + 1)
    <3>1. i \in 1..Len(log[d]) /\ log'[d][i] = log[d][i]
      BY <1>5, <2>2
    <3>2. /\ log[d][i].note \in Notes
          /\ drawn[log[d][i].note] = log[d][i].amount
          /\ notes[log[d][i].note].agent = log[d][i].agent
          /\ notes[log[d][i].note].chain = d
      BY <3>1 DEF NotesInv, LogFits
    <3>3. log[d][i].note # n
      BY <1>2, <1>3, <3>1, <3>2, EventTypes
    <3>4. QED
      BY <1>3, <3>1, <3>2, <3>3
  <2>3. QED
    BY <2>1, <2>2
<1>7. QED
  BY <1>4, <1>6

LEMMA RepayVaultNotes ==
  ASSUME NotesInv, NEW c \in Chains, NEW a \in Agents, NEW amount \in Amounts,
         RepayVault(c, a, amount)
  PROVE  NotesSound' /\ LogFits'
<1> DEFINE e == [type |-> "CreditRepaid", agent |-> a, note |-> NoNote, amount |-> amount]
<1>1. TypeOK /\ e \in Event /\ Emit(c, e) /\ notes' = notes /\ drawn' = drawn
  BY DEF NotesInv, IInv, Event, RepayVault, root
<1>2. NotesSound'
  BY <1>1 DEF NotesInv, NotesSound, Unissued
<1>3. /\ Len(log'[c]) = Len(log[c]) + 1 /\ log'[c][Len(log[c]) + 1] = e
      /\ Len(log[c]) \in Nat
      /\ \A i \in 1..Len(log[c]) : log'[c][i] = log[c][i]
      /\ \A d \in Chains \ {c} : log'[d] = log[d]
  BY <1>1, EventAdded
<1>4. ASSUME NEW d \in Chains, NEW i \in 1..Len(log'[d]), log'[d][i].type = "CreditDrawn"
      PROVE  i \in 1..Len(log[d]) /\ log'[d][i] = log[d][i]
  <2>1. ~(d = c /\ i = Len(log[c]) + 1)
    BY <1>3, <1>4
  <2>2. QED
    BY <1>3, <2>1
<1>5. LogFits'
  BY <1>1, <1>4 DEF NotesInv, LogFits
<1>6. QED
  BY <1>2, <1>5

-------------------------------------------------------------------------------
(* Requests, one at a time *)

Others(r) == \A s \in Requests \ {r} : request'[s] = request[s]

LEMMA GotoFacts ==
  ASSUME TypeOK, NEW r \in Requests, NEW pc, Goto(r, pc)
  PROVE  /\ Others(r) /\ request'[r].pc = pc /\ request'[r].agent = request[r].agent
         /\ request'[r].amount = request[r].amount /\ request'[r].usd = request[r].usd
         /\ request'[r].debtBefore = request[r].debtBefore
         /\ request'[r].paid = request[r].paid
<1>1. request \in [Requests -> Request] /\ request[r] \in Request
  BY DEF TypeOK
<1>2. Others(r) /\ request'[r] = [request[r] EXCEPT !.pc = pc]
  BY <1>1 DEF Goto, Others
<1>3. QED
  BY <1>1, <1>2 DEF Request

LEMMA EndsFacts ==
  ASSUME TypeOK, NEW r \in Requests, Ends(r)
  PROVE  Others(r) /\ request'[r].pc = "done" /\ request'[r].usd = 0
<1>1. request \in [Requests -> Request]
  BY DEF TypeOK
<1>2. Others(r) /\ request'[r] = [NoRequest EXCEPT !.pc = "done"]
  BY <1>1 DEF Ends, Others
<1>3. QED
  BY <1>2 DEF NoRequest

LEMMA AuthorizeFacts ==
  ASSUME TypeOK, NEW r \in Requests, NEW a \in Agents, NEW amount \in Amounts,
         NEW price \in Prices, AuthorizeDraw(r, a, amount, price)
  PROVE  LET e == EnsureAgent(exposure[a], FlareCap) IN
         \/ /\ CanReserve(e, amount * price)
            /\ exposure' = [exposure EXCEPT ![a] = ReserveExposure(e, amount * price)]
            /\ Others(r) /\ Starts(a) /\ request[r].pc = "none"
            /\ request'[r].pc \in {"pricing", "undone"} /\ request'[r].agent = a
            /\ request'[r].amount = amount /\ request'[r].usd = amount * price
         \/ /\ exposure' = [exposure EXCEPT ![a] = e]
            /\ UNCHANGED <<request, overlapped>>
<1> DEFINE e   == EnsureAgent(exposure[a], FlareCap)
           usd == amount * price
           pc  == IF amount <= liquidity[Flare] THEN "pricing" ELSE "undone"
           q   == [NoRequest EXCEPT !.pc = pc, !.agent = a, !.amount = amount, !.usd = usd]
<1>1. CASE CanReserve(e, usd)
  <2>1. /\ exposure' = [exposure EXCEPT ![a] = ReserveExposure(e, usd)]
        /\ request' = [request EXCEPT ![r] = q] /\ Starts(a) /\ request[r].pc = "none"
    BY <1>1 DEF AuthorizeDraw
  <2>2. pc \in {"pricing", "undone"}
    OBVIOUS
  <2>3. q.pc = pc /\ q.agent = a /\ q.amount = amount /\ q.usd = usd
    BY DEF NoRequest
  <2>4. request \in [Requests -> Request]
    BY DEF TypeOK
  <2> HIDE DEF q, pc, usd, e
  <2>5. Others(r) /\ request'[r] = q
    BY <2>1, <2>4 DEF Others
  <2>6. QED
    BY <1>1, <2>1, <2>2, <2>3, <2>5 DEF usd, e
<1>2. CASE ~CanReserve(e, usd)
  BY <1>2 DEF AuthorizeDraw
<1>3. QED
  BY <1>1, <1>2

LEMMA StartRepayFacts ==
  ASSUME TypeOK, NEW r \in Requests, NEW a \in Agents, NEW amount \in Amounts,
         StartRepay(r, a, amount)
  PROVE  /\ Others(r) /\ request[r].pc = "none" /\ Starts(a)
         /\ request'[r].pc = "repaying" /\ request'[r].agent = a
         /\ request'[r].amount = amount /\ request'[r].usd = 0
         /\ request'[r].debtBefore = debt[Flare][a]
         /\ request'[r].paid = IF amount > debt[Flare][a] THEN debt[Flare][a] ELSE amount
<1> DEFINE owe  == debt[Flare][a]
           paid == IF amount > owe THEN owe ELSE amount
           q    == [NoRequest EXCEPT !.pc = "repaying", !.agent = a, !.amount = amount,
                                     !.debtBefore = owe, !.paid = paid]
<1>1. request' = [request EXCEPT ![r] = q] /\ Starts(a) /\ request[r].pc = "none"
  BY DEF StartRepay
<1>2. /\ q.pc = "repaying" /\ q.agent = a /\ q.amount = amount /\ q.usd = 0
      /\ q.debtBefore = owe /\ q.paid = paid
  BY DEF NoRequest
<1>3. request \in [Requests -> Request]
  BY DEF TypeOK
<1> HIDE DEF q, paid, owe
<1>4. Others(r) /\ request'[r] = q
  BY <1>1, <1>3 DEF Others
<1>5. QED
  BY <1>1, <1>2, <1>4 DEF paid, owe

LEMMA RepaysStep ==
  ASSUME NotesInv, FlareRequest
  PROVE  RepaysReserveNothing'
<1>1. PICK r \in Requests :
        \/ \E a \in Agents, amount \in Amounts :
             \/ \E price \in Prices : AuthorizeDraw(r, a, amount, price)
             \/ StartRepay(r, a, amount)
        \/ \E price \in Prices : CommitDraw(r, price)
        \/ DrawExecuted(r) \/ DrawFailed(r) \/ BookDraw(r)
        \/ RepayExecuted(r) \/ RepayFailed(r) \/ BookRepay(r)
  BY DEF FlareRequest
<1>2. TypeOK /\ \A s \in Requests :
        request[s].pc \in {"repaying", "repaid"} => request[s].usd = 0
  BY DEF NotesInv, IInv, RepaysReserveNothing
<1>3. \/ request' = request
      \/ Others(r) /\ (request'[r].pc \in {"repaying", "repaid"} => request'[r].usd = 0)
  <2>1. ASSUME NEW a \in Agents, NEW amount \in Amounts, NEW price \in Prices,
               AuthorizeDraw(r, a, amount, price)
        PROVE  \/ request' = request
               \/ Others(r) /\ request'[r].pc \in {"pricing", "undone"}
    BY <1>2, <2>1, AuthorizeFacts
  <2>2. ASSUME NEW a \in Agents, NEW amount \in Amounts, StartRepay(r, a, amount)
        PROVE  Others(r) /\ request'[r].usd = 0
    BY <1>2, <2>2, StartRepayFacts
  <2>3. CASE \/ \E price \in Prices : CommitDraw(r, price)
             \/ DrawExecuted(r) \/ DrawFailed(r)
    <3>1. PICK pc \in {"undone", "executing", "drawn"} : Goto(r, pc)
      BY <2>3 DEF CommitDraw, DrawExecuted, DrawFailed
    <3>2. QED
      BY <1>2, <3>1, GotoFacts
  <2>4. CASE BookDraw(r) \/ RepayFailed(r) \/ BookRepay(r)
    <3>1. Ends(r)
      BY <2>4 DEF BookDraw, RepayFailed, BookRepay
    <3>2. QED
      BY <1>2, <3>1, EndsFacts
  <2>5. CASE RepayExecuted(r)
    BY <1>2, <2>5, GotoFacts DEF RepayExecuted
  <2>6. QED
    BY <1>1, <2>1, <2>2, <2>3, <2>4, <2>5
<1>4. QED
  BY <1>2, <1>3 DEF Others, RepaysReserveNothing

\* Flare leaves the notes and the relay chains alone.
LEMMA FlareApart ==
  ASSUME FlareRequest
  PROVE  UNCHANGED <<notes, drawn, log, checkpoint, sync>>
<1>1. PICK r \in Requests :
        \/ \E a \in Agents, amount \in Amounts :
             \/ \E price \in Prices : AuthorizeDraw(r, a, amount, price)
             \/ StartRepay(r, a, amount)
        \/ \E price \in Prices : CommitDraw(r, price)
        \/ DrawExecuted(r) \/ DrawFailed(r) \/ BookDraw(r)
        \/ RepayExecuted(r) \/ RepayFailed(r) \/ BookRepay(r)
  BY DEF FlareRequest
<1>2. CASE \E a \in Agents, amount \in Amounts :
             \/ \E price \in Prices : AuthorizeDraw(r, a, amount, price)
             \/ StartRepay(r, a, amount)
  BY <1>2 DEF AuthorizeDraw, StartRepay, root, vaults, relayer
<1>3. CASE (\E price \in Prices : CommitDraw(r, price)) \/ DrawExecuted(r) \/ DrawFailed(r)
  BY <1>3 DEF CommitDraw, DrawExecuted, DrawFailed, root, vaults, relayer
<1>4. CASE BookDraw(r) \/ RepayExecuted(r) \/ RepayFailed(r) \/ BookRepay(r)
  BY <1>4 DEF BookDraw, RepayExecuted, RepayFailed, BookRepay, root, vaults, relayer
<1>5. QED
  BY <1>1, <1>2, <1>3, <1>4

\* What notes and logs say of each other is inductive.
LEMMA NotesStep ==
  ASSUME NotesInv, [Next]_vars
  PROVE  NotesInv'
<1>1. IInv'
  BY StepInv DEF NotesInv
<1>2. NotesSound' /\ LogFits'
  <2>1. CASE Root
    <3>1. CASE \E a \in Agents : (\E cap \in Caps : RaiseCap(a, cap)) \/ Freeze(a)
      BY <3>1, NotesUntouched DEF RaiseCap, Freeze, vaults, relayer
    <3>2. QED
      BY <2>1, <3>1, IssueCanNotes, RevokeExpireNotes DEF Root
  <2>2. CASE Vault
    BY <2>2, DrawOnNoteNotes, RepayVaultNotes DEF Vault
  <2>3. CASE Relay
    <3>1. CASE \E c \in Chains : StartSync(c) \/ RouteRepay(c) \/ AbandonSync(c)
                                 \/ FinishSync(c)
      BY <3>1, NotesUntouched DEF StartSync, RouteRepay, AbandonSync, FinishSync, root, vaults
    <3>2. QED
      BY <2>3, <3>1, RouteDrawNotes DEF Relay
  <2>4. CASE FlareRequest \/ UNCHANGED vars
    <3>1. UNCHANGED <<notes, drawn, log>>
      BY <2>4, FlareApart DEF root, vaults, relayer, vars
    <3>2. QED
      BY <3>1, NotesUntouched
  <2>5. QED
    BY <2>1, <2>2, <2>3, <2>4 DEF Next
<1>3. RepaysReserveNothing'
  <2>1. CASE FlareRequest
    BY <2>1, RepaysStep
  <2>2. CASE Root \/ Vault \/ Relay \/ UNCHANGED vars
    <3>1. request' = request
      BY <2>2 DEF Root, RaiseCap, Freeze, IssueCan, RevokeCan, Expire, Vault, DrawOnNote,
                  RepayVault, Relay, StartSync, RouteDraw, RouteRepay, AbandonSync,
                  FinishSync, vars
    <3>2. QED
      BY <3>1 DEF NotesInv, RepaysReserveNothing
  <2>3. QED
    BY <2>1, <2>2 DEF Next
<1>4. QED
  BY <1>1, <1>2, <1>3 DEF NotesInv

LEMMA NotesInit == Init => NotesInv
<1> SUFFICES ASSUME Init PROVE NotesInv
  OBVIOUS
<1>1. NotesSound
  BY DEF Init, NotesSound
<1>2. LogFits
  BY DEF Init, LogFits
<1>3. RepaysReserveNothing
  BY DEF Init, NoRequest, RepaysReserveNothing
<1>4. QED
  BY <1>1, <1>2, <1>3, InitInv DEF NotesInv

-------------------------------------------------------------------------------
(* What is reserved *)

IssuedTo(a)   == {n \in Notes : notes[n].agent = a /\ notes[n].status = "issued"}
ConsumedOf(a) == {n \in Notes : notes[n].agent = a /\ notes[n].status = "consumed"}
BusyOf(a)     == {r \in Busy : request[r].agent = a}

Limits(a)   == SumOf(IssuedTo(a), LAMBDA n : notes[n].max_draw)
Unused(a)   == SumOf(ConsumedOf(a), LAMBDA n : notes[n].max_draw - drawn[n])
InFlight(a) == SumOf(BusyOf(a), LAMBDA r : request[r].usd)

\* The reservation as the sum of three.
LEMMA BackedIs ==
  ReservationsBacked <=>
    \A a \in Agents : exposure[a].reserved = Limits(a) + Unused(a) + InFlight(a)
BY DEF ReservationsBacked, Limits, Unused, InFlight, IssuedTo, ConsumedOf, BusyOf

\* Its parts are natural numbers.
LEMMA ReservedNumbers ==
  ASSUME TypeOK, NotesSound, NEW a \in Agents
  PROVE  Limits(a) \in Nat /\ Unused(a) \in Nat /\ InFlight(a) \in Nat
<1>1. /\ IsFiniteSet(IssuedTo(a)) /\ IsFiniteSet(ConsumedOf(a)) /\ IsFiniteSet(BusyOf(a))
  BY FiniteWorld, FS_Subset DEF IssuedTo, ConsumedOf, BusyOf, Busy
<1>2. /\ \A n \in IssuedTo(a) : notes[n].max_draw \in Nat
      /\ \A n \in ConsumedOf(a) : notes[n].max_draw - drawn[n] \in Nat
      /\ \A r \in BusyOf(a) : request[r].usd \in Nat
  BY NoteTypes DEF TypeOK, NotesSound, IssuedTo, ConsumedOf, BusyOf, Busy, Request
<1> DEFINE f == [n \in IssuedTo(a) |-> notes[n].max_draw]
           g == [n \in ConsumedOf(a) |-> notes[n].max_draw - drawn[n]]
           h == [r \in BusyOf(a) |-> request[r].usd]
<1>3. /\ \A n \in IssuedTo(a) : f[n] \in Nat
      /\ \A n \in ConsumedOf(a) : g[n] \in Nat
      /\ \A r \in BusyOf(a) : h[r] \in Nat
  BY <1>2
<1> HIDE DEF f, g, h
<1>4. /\ SumFunctionOnSet(f, IssuedTo(a)) \in Nat
      /\ SumFunctionOnSet(g, ConsumedOf(a)) \in Nat
      /\ SumFunctionOnSet(h, BusyOf(a)) \in Nat
  BY <1>1, <1>3, SumNat
<1>5. QED
  BY <1>4 DEF f, g, h, Limits, Unused, InFlight, SumOf

\* A sum over notes moves with the note that does.
LEMMA NoteSums ==
  ASSUME TypeOK, TypeOK', NEW a \in Agents, NEW n \in Notes,
         \A m \in Notes \ {n} : notes'[m] = notes[m] /\ drawn'[m] = drawn[m]
  PROVE  /\ Limits(a)' = Limits(a)
              - (IF n \in IssuedTo(a) THEN notes[n].max_draw ELSE 0)
              + (IF n \in IssuedTo(a)' THEN notes'[n].max_draw ELSE 0)
         /\ Unused(a)' = Unused(a)
              - (IF n \in ConsumedOf(a) THEN notes[n].max_draw - drawn[n] ELSE 0)
              + (IF n \in ConsumedOf(a)' THEN notes'[n].max_draw - drawn'[n] ELSE 0)
         /\ UnbookedDraws(a)' = UnbookedDraws(a)
              - (IF n \in IssuedTo(a) THEN drawn[n] ELSE 0)
              + (IF n \in IssuedTo(a)' THEN drawn'[n] ELSE 0)
<1>1. /\ IsFiniteSet(IssuedTo(a)) /\ IsFiniteSet(ConsumedOf(a))
      /\ IsFiniteSet(IssuedTo(a)') /\ IsFiniteSet(ConsumedOf(a)')
      /\ IssuedTo(a) \ {n} = IssuedTo(a)' \ {n}
      /\ ConsumedOf(a) \ {n} = ConsumedOf(a)' \ {n}
  <2>1. /\ IssuedTo(a) \subseteq Notes /\ ConsumedOf(a) \subseteq Notes
        /\ IssuedTo(a)' \subseteq Notes /\ ConsumedOf(a)' \subseteq Notes
    BY DEF IssuedTo, ConsumedOf
  <2>2. QED
    BY <2>1, FiniteWorld, FS_Subset DEF IssuedTo, ConsumedOf
<1>2. \A m \in Notes : /\ notes[m].max_draw \in Int /\ drawn[m] \in Int
                      /\ notes'[m].max_draw \in Int /\ drawn'[m] \in Int
  <2>1. /\ notes \in [Notes -> Note] /\ notes' \in [Notes -> Note]
        /\ drawn \in [Notes -> Nat] /\ drawn' \in [Notes -> Nat]
    BY DEF TypeOK
  <2>2. \A k \in Note : k.max_draw \in Int
    BY DEF Note
  <2>3. QED
    BY <2>1, <2>2
<1>3. Limits(a)' = Limits(a)
        - (IF n \in IssuedTo(a) THEN notes[n].max_draw ELSE 0)
        + (IF n \in IssuedTo(a)' THEN notes'[n].max_draw ELSE 0)
  <2> DEFINE S == IssuedTo(a)
             T == IssuedTo(a)'
             f == [m \in S |-> notes[m].max_draw]
             g == [m \in T |-> notes'[m].max_draw]
  <2>1. /\ \A m \in S : f[m] \in Int /\ f[m] = notes[m].max_draw
        /\ \A m \in T : g[m] \in Int /\ g[m] = notes'[m].max_draw
        /\ \A m \in S \ {n} : f[m] = g[m]
    BY <1>1, <1>2 DEF IssuedTo
  <2>2. Limits(a) = SumFunctionOnSet(f, S) /\ Limits(a)' = SumFunctionOnSet(g, T)
    BY DEF Limits, SumOf
  <2> HIDE DEF S, T, f, g
  <2>3. SumFunctionOnSet(g, T) = SumFunctionOnSet(f, S)
          - (IF n \in S THEN f[n] ELSE 0) + (IF n \in T THEN g[n] ELSE 0)
    <3>1. IsFiniteSet(S) /\ IsFiniteSet(T) /\ S \ {n} = T \ {n}
      BY <1>1 DEF S, T
    <3>2. QED
      BY <2>1, <3>1, SumChange
  <2>4. QED
    BY <2>1, <2>2, <2>3 DEF S, T
<1>4. Unused(a)' = Unused(a)
        - (IF n \in ConsumedOf(a) THEN notes[n].max_draw - drawn[n] ELSE 0)
        + (IF n \in ConsumedOf(a)' THEN notes'[n].max_draw - drawn'[n] ELSE 0)
  <2> DEFINE S == ConsumedOf(a)
             T == ConsumedOf(a)'
             f == [m \in S |-> notes[m].max_draw - drawn[m]]
             g == [m \in T |-> notes'[m].max_draw - drawn'[m]]
  <2>1. /\ \A m \in S : f[m] \in Int /\ f[m] = notes[m].max_draw - drawn[m]
        /\ \A m \in T : g[m] \in Int /\ g[m] = notes'[m].max_draw - drawn'[m]
        /\ \A m \in S \ {n} : f[m] = g[m]
    BY <1>1, <1>2 DEF ConsumedOf
  <2>2. Unused(a) = SumFunctionOnSet(f, S) /\ Unused(a)' = SumFunctionOnSet(g, T)
    BY DEF Unused, SumOf
  <2> HIDE DEF S, T, f, g
  <2>3. SumFunctionOnSet(g, T) = SumFunctionOnSet(f, S)
          - (IF n \in S THEN f[n] ELSE 0) + (IF n \in T THEN g[n] ELSE 0)
    <3>1. IsFiniteSet(S) /\ IsFiniteSet(T) /\ S \ {n} = T \ {n}
      BY <1>1 DEF S, T
    <3>2. QED
      BY <2>1, <3>1, SumChange
  <2>4. QED
    BY <2>1, <2>2, <2>3 DEF S, T
<1>5. UnbookedDraws(a)' = UnbookedDraws(a)
        - (IF n \in IssuedTo(a) THEN drawn[n] ELSE 0)
        + (IF n \in IssuedTo(a)' THEN drawn'[n] ELSE 0)
  <2> DEFINE S == IssuedTo(a)
             T == IssuedTo(a)'
             f == [m \in S |-> drawn[m]]
             g == [m \in T |-> drawn'[m]]
  <2>1. /\ \A m \in S : f[m] \in Int /\ f[m] = drawn[m]
        /\ \A m \in T : g[m] \in Int /\ g[m] = drawn'[m]
        /\ \A m \in S \ {n} : f[m] = g[m]
    BY <1>1, <1>2 DEF IssuedTo
  <2>2. /\ UnbookedDraws(a) = SumFunctionOnSet(f, S)
        /\ UnbookedDraws(a)' = SumFunctionOnSet(g, T)
    BY DEF UnbookedDraws, SumOf, IssuedTo
  <2> HIDE DEF S, T, f, g
  <2>3. SumFunctionOnSet(g, T) = SumFunctionOnSet(f, S)
          - (IF n \in S THEN f[n] ELSE 0) + (IF n \in T THEN g[n] ELSE 0)
    <3>1. IsFiniteSet(S) /\ IsFiniteSet(T) /\ S \ {n} = T \ {n}
      BY <1>1 DEF S, T
    <3>2. QED
      BY <2>1, <3>1, SumChange
  <2>4. QED
    BY <2>1, <2>2, <2>3 DEF S, T
<1>6. QED
  BY <1>3, <1>4, <1>5

\* A sum over requests moves with the request that does.
LEMMA RequestSum ==
  ASSUME TypeOK, TypeOK', NEW a \in Agents, NEW r \in Requests, Others(r)
  PROVE  InFlight(a)' = InFlight(a)
           - (IF r \in BusyOf(a) THEN request[r].usd ELSE 0)
           + (IF r \in BusyOf(a)' THEN request'[r].usd ELSE 0)
<1> DEFINE S == BusyOf(a)
           T == BusyOf(a)'
           f == [s \in S |-> request[s].usd]
           g == [s \in T |-> request'[s].usd]
<1>1. S \subseteq Requests /\ T \subseteq Requests
  BY DEF BusyOf, Busy
<1>2. IsFiniteSet(S) /\ IsFiniteSet(T) /\ S \ {r} = T \ {r}
  <2>1. IsFiniteSet(S) /\ IsFiniteSet(T)
    BY <1>1, FiniteWorld, FS_Subset
  <2>2. S \ {r} = T \ {r}
    BY DEF BusyOf, Busy, Others
  <2>3. QED
    BY <2>1, <2>2
<1>3. \A s \in Requests : request[s].usd \in Int /\ request'[s].usd \in Int
  <2>1. request \in [Requests -> Request] /\ request' \in [Requests -> Request]
    BY DEF TypeOK
  <2>2. \A q \in Request : q.usd \in Int
    BY DEF Request
  <2>3. QED
    BY <2>1, <2>2
<1>4. /\ \A s \in S : f[s] \in Int /\ f[s] = request[s].usd
      /\ \A s \in T : g[s] \in Int /\ g[s] = request'[s].usd
      /\ \A s \in S \ {r} : f[s] = g[s]
  BY <1>1, <1>2, <1>3 DEF Others
<1>5. InFlight(a) = SumFunctionOnSet(f, S) /\ InFlight(a)' = SumFunctionOnSet(g, T)
  BY DEF InFlight, SumOf
<1> HIDE DEF S, T, f, g
<1>6. SumFunctionOnSet(g, T) = SumFunctionOnSet(f, S)
        - (IF r \in S THEN f[r] ELSE 0) + (IF r \in T THEN g[r] ELSE 0)
  BY <1>2, <1>4, SumChange
<1>7. QED
  BY <1>4, <1>5, <1>6 DEF S, T

\* The same in the next state.
LEMMA BackedNext ==
  ReservationsBacked' <=>
    \A a \in Agents : exposure'[a].reserved = Limits(a)' + Unused(a)' + InFlight(a)'
BY DEF ReservationsBacked, Limits, Unused, InFlight, IssuedTo, ConsumedOf, BusyOf

\* Notes and requests as they were, sums as they were.
LEMMA NoteSumsStay ==
  ASSUME UNCHANGED <<notes, drawn>>, NEW a
  PROVE  /\ Limits(a)' = Limits(a) /\ Unused(a)' = Unused(a)
         /\ UnbookedDraws(a)' = UnbookedDraws(a)
<1>1. notes' = notes /\ drawn' = drawn
  OBVIOUS
<1>2. QED
  BY <1>1 DEF Limits, Unused, UnbookedDraws, SumOf, IssuedTo, ConsumedOf

\* Requests as they were, sum as it was.
LEMMA RequestSumStays ==
  ASSUME UNCHANGED request, NEW a
  PROVE  InFlight(a)' = InFlight(a)
<1>1. request' = request
  OBVIOUS
<1>2. QED
  BY <1>1 DEF InFlight, SumOf, BusyOf, Busy

\* The reservation of an agent covers each note and each request of its own.
LEMMA Covered ==
  ASSUME TypeOK, NotesSound, ReservationsBacked, NEW a \in Agents
  PROVE  /\ \A n \in IssuedTo(a) : notes[n].max_draw <= exposure[a].reserved
         /\ \A r \in BusyOf(a) : request[r].usd <= exposure[a].reserved
<1>1. /\ exposure[a].reserved = Limits(a) + Unused(a) + InFlight(a)
      /\ Limits(a) \in Nat /\ Unused(a) \in Nat /\ InFlight(a) \in Nat
  BY BackedIs, ReservedNumbers
<1>2. ASSUME NEW n \in IssuedTo(a)
      PROVE  notes[n].max_draw \in Nat /\ notes[n].max_draw <= Limits(a)
  <2> DEFINE S == IssuedTo(a)
             f == [m \in S |-> notes[m].max_draw]
  <2>1. S \subseteq Notes /\ IsFiniteSet(S) /\ n \in S
    BY <1>2, FiniteWorld, FS_Subset DEF IssuedTo
  <2>2. \A m \in S : f[m] \in Nat /\ f[m] = notes[m].max_draw
    BY <2>1, NoteTypes
  <2>3. Limits(a) = SumFunctionOnSet(f, S)
    BY DEF Limits, SumOf
  <2> HIDE DEF S, f
  <2>4. f[n] <= SumFunctionOnSet(f, S)
    BY <2>1, <2>2, SumMember
  <2>5. QED
    BY <2>1, <2>2, <2>3, <2>4
<1>3. ASSUME NEW r \in BusyOf(a)
      PROVE  request[r].usd \in Nat /\ request[r].usd <= InFlight(a)
  <2> DEFINE S == BusyOf(a)
             f == [s \in S |-> request[s].usd]
  <2>1. S \subseteq Requests /\ IsFiniteSet(S) /\ r \in S
    BY <1>3, FiniteWorld, FS_Subset DEF BusyOf, Busy
  <2>2. \A s \in S : f[s] \in Nat /\ f[s] = request[s].usd
    BY <2>1 DEF TypeOK, Request
  <2>3. InFlight(a) = SumFunctionOnSet(f, S)
    BY DEF InFlight, SumOf
  <2> HIDE DEF S, f
  <2>4. f[r] <= SumFunctionOnSet(f, S)
    BY <2>1, <2>2, SumMember
  <2>5. QED
    BY <2>1, <2>2, <2>3, <2>4
<1> HIDE DEF Limits, Unused, InFlight
<1>4. \A n \in IssuedTo(a) : notes[n].max_draw <= exposure[a].reserved
  BY <1>1, <1>2
<1>5. \A r \in BusyOf(a) : request[r].usd <= exposure[a].reserved
  BY <1>1, <1>3
<1>6. QED
  BY <1>4, <1>5

\* What a note sets aside for an agent.
SetAside(n, a) ==
  IF notes[n].agent # a THEN 0
  ELSE IF notes[n].status = "issued" THEN notes[n].max_draw
  ELSE IF notes[n].status = "consumed" THEN notes[n].max_draw - drawn[n] ELSE 0

\* What a request does.
Held(r, a) == IF r \in BusyOf(a) THEN request[r].usd ELSE 0

\* A step of one note moves the reservation by what the note sets aside.
LEMMA BackedByNote ==
  ASSUME TypeOK, TypeOK', NotesSound, NotesSound', ReservationsBacked, NEW n \in Notes,
         \A m \in Notes \ {n} : notes'[m] = notes[m] /\ drawn'[m] = drawn[m],
         UNCHANGED request,
         \A a \in Agents :
           exposure'[a].reserved = exposure[a].reserved - SetAside(n, a) + SetAside(n, a)'
  PROVE  ReservationsBacked'
<1>1. SUFFICES ASSUME NEW a \in Agents
               PROVE  exposure'[a].reserved = Limits(a)' + Unused(a)' + InFlight(a)'
  BY BackedNext
<1>2. /\ Limits(a) \in Nat /\ Unused(a) \in Nat /\ InFlight(a) \in Nat
      /\ exposure[a].reserved = Limits(a) + Unused(a) + InFlight(a)
      /\ InFlight(a)' = InFlight(a)
  BY ReservedNumbers, BackedIs, RequestSumStays
<1> DEFINE x  == IF n \in IssuedTo(a) THEN notes[n].max_draw ELSE 0
           x2 == IF n \in IssuedTo(a)' THEN notes'[n].max_draw ELSE 0
           y  == IF n \in ConsumedOf(a) THEN notes[n].max_draw - drawn[n] ELSE 0
           y2 == IF n \in ConsumedOf(a)' THEN notes'[n].max_draw - drawn'[n] ELSE 0
<1>3. Limits(a)' = Limits(a) - x + x2 /\ Unused(a)' = Unused(a) - y + y2
  BY NoteSums
<1>4. /\ notes[n].max_draw \in Nat /\ notes'[n].max_draw \in Nat
      /\ drawn[n] \in Nat /\ drawn'[n] \in Nat
  <2>1. notes \in [Notes -> Note] /\ drawn \in [Notes -> Nat]
    BY DEF TypeOK
  <2>2. notes' \in [Notes -> Note] /\ drawn' \in [Notes -> Nat]
    BY DEF TypeOK
  <2>3. QED
    BY <2>1, <2>2 DEF Note
<1>5. /\ x \in Int /\ x2 \in Int /\ y \in Int /\ y2 \in Int
      /\ SetAside(n, a) = x + y /\ SetAside(n, a)' = x2 + y2
  BY <1>4 DEF SetAside, IssuedTo, ConsumedOf
<1>6. exposure'[a].reserved = exposure[a].reserved - SetAside(n, a) + SetAside(n, a)'
  OBVIOUS
<1> HIDE DEF x, x2, y, y2
<1>7. QED
  BY <1>2, <1>3, <1>5, <1>6

\* A step of one request moves it by what the request holds.
LEMMA BackedByRequest ==
  ASSUME TypeOK, TypeOK', NotesSound, ReservationsBacked, NEW r \in Requests, Others(r),
         UNCHANGED <<notes, drawn>>,
         \A a \in Agents :
           exposure'[a].reserved = exposure[a].reserved - Held(r, a) + Held(r, a)'
  PROVE  ReservationsBacked'
<1>1. SUFFICES ASSUME NEW a \in Agents
               PROVE  exposure'[a].reserved = Limits(a)' + Unused(a)' + InFlight(a)'
  BY BackedNext
<1>2. /\ Limits(a) \in Nat /\ Unused(a) \in Nat /\ InFlight(a) \in Nat
      /\ exposure[a].reserved = Limits(a) + Unused(a) + InFlight(a)
      /\ Limits(a)' = Limits(a) /\ Unused(a)' = Unused(a)
  BY ReservedNumbers, BackedIs, NoteSumsStay
<1>3. InFlight(a)' = InFlight(a) - Held(r, a) + Held(r, a)'
  BY RequestSum DEF Held
<1>4. Held(r, a) \in Int /\ Held(r, a)' \in Int
  <2>1. request \in [Requests -> Request]
    BY DEF TypeOK
  <2>2. request' \in [Requests -> Request]
    BY DEF TypeOK
  <2>3. request[r].usd \in Int /\ request'[r].usd \in Int
    BY <2>1, <2>2 DEF Request
  <2>4. QED
    BY <2>3 DEF Held
<1>5. exposure'[a].reserved = exposure[a].reserved - Held(r, a) + Held(r, a)'
  OBVIOUS
<1>6. QED
  BY <1>2, <1>3, <1>4, <1>5

\* A step of neither leaves it alone.
LEMMA BackedStays ==
  ASSUME ReservationsBacked, UNCHANGED <<notes, drawn, request>>,
         \A a \in Agents : exposure'[a].reserved = exposure[a].reserved
  PROVE  ReservationsBacked'
BY BackedIs, BackedNext, NoteSumsStay, RequestSumStays

BackedInv == NotesInv /\ ReservationsBacked

\* The entry of the book that moves.
LEMMA EntryMoves ==
  ASSUME TypeOK, NEW a \in Agents, NEW f, exposure' = [exposure EXCEPT ![a] = f]
  PROVE  exposure'[a] = f /\ \A b \in Agents \ {a} : exposure'[b] = exposure[b]
BY DEF TypeOK

\* The amounts of an entry after each operation.
LEMMA EntryAmounts ==
  ASSUME NEW e, Sound(e), NEW n \in Nat
  PROVE  /\ e.outstanding \in Nat /\ e.reserved \in Nat
         /\ EnsureAgent(e, n).reserved = e.reserved
         /\ EnsureAgent(e, n).outstanding = e.outstanding
         /\ FreezeAgentExposure(e).reserved = e.reserved
         /\ FreezeAgentExposure(e).outstanding = e.outstanding
         /\ ReserveExposure(e, n).reserved = e.reserved + n
         /\ ReserveExposure(e, n).outstanding = e.outstanding
         /\ DecreaseExposure(e, n).reserved = e.reserved
         /\ ReleaseReservation(e, n).outstanding = e.outstanding
<1>1. e \in Exposure
  BY DEF Sound
<1>2. QED
  BY <1>1 DEF Exposure, EnsureAgent, FreezeAgentExposure, ReserveExposure,
              DecreaseExposure, ReleaseReservation

\* An operation on an amount that is reserved is not cut off.
LEMMA EntryCovered ==
  ASSUME NEW e, Sound(e), NEW n \in Nat, n <= e.reserved
  PROVE  /\ ReleaseReservation(e, n).reserved = e.reserved - n
         /\ ActivateExposure(e, n).reserved = e.reserved - n
         /\ ActivateExposure(e, n).outstanding = e.outstanding + n
<1>1. e \in Exposure /\ Lesser(n, e.reserved) = n
  BY DEF Sound, Exposure, Lesser
<1>2. ReleaseReservation(e, n) = [e EXCEPT !.reserved = @ - n]
  BY <1>1 DEF ReleaseReservation
<1>3. ActivateExposure(e, n) = [e EXCEPT !.reserved = @ - n, !.outstanding = @ + n]
  BY <1>1 DEF ActivateExposure
<1>4. QED
  BY <1>1, <1>2, <1>3 DEF Exposure

LEMMA BackedTypes ==
  ASSUME BackedInv, [Next]_vars
  PROVE  /\ TypeOK /\ TypeOK' /\ NotesSound /\ NotesSound' /\ ReservationsBacked
         /\ \A a \in Agents : Sound(exposure[a])
BY NotesStep, EntriesSound DEF BackedInv, NotesInv, IInv

LEMMA IssueCanBacked ==
  ASSUME BackedInv, [Next]_vars, NEW n \in Notes, NEW a \in Agents, NEW c \in Chains,
         NEW max \in Amounts, IssueCan(n, a, c, max)
  PROVE  ReservationsBacked'
<1>1. /\ TypeOK /\ TypeOK' /\ NotesSound /\ NotesSound' /\ ReservationsBacked
      /\ Sound(exposure[a]) /\ max \in Nat
      /\ \A b \in Agents : exposure[b].reserved \in Nat
  BY BackedTypes, ConstantFacts, EntryAmounts
<1>2. /\ notes' = [notes EXCEPT ![n] =
           [status |-> "issued", agent |-> a, chain |-> c, max_draw |-> max,
            expired |-> FALSE]]
      /\ exposure' = [exposure EXCEPT ![a] = ReserveExposure(exposure[a], max)]
      /\ UNCHANGED <<drawn, request>> /\ notes[n].status = "none"
  BY DEF IssueCan, vaults, Unissued
<1>3. /\ exposure'[a].reserved = exposure[a].reserved + max
      /\ \A b \in Agents \ {a} : exposure'[b] = exposure[b]
  <2>1. ReserveExposure(exposure[a], max).reserved = exposure[a].reserved + max
    BY <1>1, EntryAmounts
  <2>2. QED
    BY <1>1, <1>2, <2>1, EntryMoves
<1>4. /\ notes'[n].agent = a /\ notes'[n].status = "issued" /\ notes'[n].max_draw = max
      /\ \A m \in Notes \ {n} : notes'[m] = notes[m] /\ drawn'[m] = drawn[m]
  <2>1. notes \in [Notes -> Note]
    BY <1>1 DEF TypeOK
  <2>2. QED
    BY <1>2, <2>1
<1>5. ASSUME NEW b \in Agents
      PROVE  SetAside(n, b) = 0 /\ SetAside(n, b)' = IF b = a THEN max ELSE 0
  BY <1>2, <1>4 DEF SetAside
<1>6. \A b \in Agents :
        exposure'[b].reserved = exposure[b].reserved - SetAside(n, b) + SetAside(n, b)'
  BY <1>1, <1>3, <1>5
<1>7. QED
  BY <1>1, <1>2, <1>4, <1>6, BackedByNote

LEMMA RevokeCanBacked ==
  ASSUME BackedInv, [Next]_vars, NEW n \in Notes, RevokeCan(n)
  PROVE  ReservationsBacked'
<1>1. /\ TypeOK /\ TypeOK' /\ NotesSound /\ NotesSound' /\ ReservationsBacked
      /\ \A b \in Agents : Sound(exposure[b]) /\ exposure[b].reserved \in Nat
  BY BackedTypes, EntryAmounts
<1>2. PICK a \in Agents : a = notes[n].agent
  BY <1>1, NoteTypes
<1>3. /\ notes' = [notes EXCEPT ![n].status = "revoked"]
      /\ exposure' = [exposure EXCEPT ![a] = ReleaseReservation(exposure[a], notes[n].max_draw)]
      /\ UNCHANGED <<drawn, request>> /\ notes[n].status = "issued"
  BY <1>2 DEF RevokeCan, vaults
<1>4. notes[n].max_draw \in Nat /\ notes[n].max_draw <= exposure[a].reserved
  BY <1>1, <1>2, <1>3, NoteTypes, Covered DEF IssuedTo
<1>5. /\ exposure'[a].reserved = exposure[a].reserved - notes[n].max_draw
      /\ \A b \in Agents \ {a} : exposure'[b] = exposure[b]
  <2>1. ReleaseReservation(exposure[a], notes[n].max_draw).reserved
          = exposure[a].reserved - notes[n].max_draw
    BY <1>1, <1>4, EntryCovered
  <2>2. QED
    BY <1>1, <1>3, <2>1, EntryMoves
<1>6. /\ notes'[n].agent = a /\ notes'[n].status = "revoked"
      /\ \A m \in Notes \ {n} : notes'[m] = notes[m] /\ drawn'[m] = drawn[m]
  <2>1. notes \in [Notes -> Note] /\ notes[n] \in Note
    BY <1>1 DEF TypeOK
  <2>2. QED
    BY <1>2, <1>3, <2>1 DEF Note
<1>7. ASSUME NEW b \in Agents
      PROVE  SetAside(n, b) = (IF b = a THEN notes[n].max_draw ELSE 0)
             /\ SetAside(n, b)' = 0
  BY <1>2, <1>3, <1>6 DEF SetAside
<1>8. \A b \in Agents :
        exposure'[b].reserved = exposure[b].reserved - SetAside(n, b) + SetAside(n, b)'
  BY <1>1, <1>4, <1>5, <1>7
<1>9. QED
  BY <1>1, <1>3, <1>6, <1>8, BackedByNote

\* A note whose terms and status stay sets aside what it did.
LEMMA SameAside ==
  ASSUME BackedInv, [Next]_vars, NEW n \in Notes, UNCHANGED <<exposure, request>>,
         \A m \in Notes \ {n} : notes'[m] = notes[m] /\ drawn'[m] = drawn[m],
         notes'[n].agent = notes[n].agent, notes'[n].status = notes[n].status,
         notes'[n].max_draw = notes[n].max_draw,
         notes[n].status = "consumed" => drawn'[n] = drawn[n]
  PROVE  ReservationsBacked'
<1>1. /\ TypeOK /\ TypeOK' /\ NotesSound /\ NotesSound' /\ ReservationsBacked
      /\ \A b \in Agents : Sound(exposure[b]) /\ exposure[b].reserved \in Nat
  BY BackedTypes, EntryAmounts
<1>2. notes[n].max_draw \in Nat /\ drawn[n] \in Nat
  BY <1>1, NoteTypes
<1>3. \A b \in Agents : SetAside(n, b)' = SetAside(n, b) /\ SetAside(n, b) \in Int
  BY <1>2 DEF SetAside
<1>4. \A b \in Agents :
        exposure'[b].reserved = exposure[b].reserved - SetAside(n, b) + SetAside(n, b)'
  BY <1>1, <1>3
<1>5. QED
  BY <1>1, <1>4, BackedByNote

LEMMA ExpireBacked ==
  ASSUME BackedInv, [Next]_vars, NEW n \in Notes, Expire(n)
  PROVE  ReservationsBacked'
<1>1. notes \in [Notes -> Note] /\ notes[n] \in Note
  BY DEF BackedInv, NotesInv, IInv, TypeOK
<1>2. notes' = [notes EXCEPT ![n].expired = TRUE] /\ UNCHANGED <<exposure, drawn, request>>
  BY DEF Expire, vaults
<1>3. /\ \A m \in Notes \ {n} : notes'[m] = notes[m]
      /\ notes'[n].agent = notes[n].agent /\ notes'[n].status = notes[n].status
      /\ notes'[n].max_draw = notes[n].max_draw
  BY <1>1, <1>2 DEF Note
<1>4. QED
  BY <1>2, <1>3, SameAside

LEMMA DrawOnNoteBacked ==
  ASSUME BackedInv, [Next]_vars, NEW n \in Notes, NEW amount \in Amounts,
         DrawOnNote(n, amount)
  PROVE  ReservationsBacked'
<1>1. /\ UNCHANGED <<exposure, notes, request>> /\ drawn[n] = 0
      /\ drawn' = [drawn EXCEPT ![n] = amount]
  BY DEF DrawOnNote, root
<1>2. \A m \in Notes \ {n} : drawn'[m] = drawn[m]
  BY <1>1 DEF BackedInv, NotesInv, IInv, TypeOK
<1>3. notes[n].status # "consumed"
  BY <1>1 DEF BackedInv, NotesInv, NotesSound
<1>4. QED
  BY <1>1, <1>2, <1>3, SameAside

LEMMA RouteDrawBacked ==
  ASSUME BackedInv, [Next]_vars, NEW c \in Chains, RouteDraw(c)
  PROVE  ReservationsBacked'
<1>1. /\ TypeOK /\ TypeOK' /\ NotesSound /\ NotesSound' /\ ReservationsBacked
      /\ \A b \in Agents : Sound(exposure[b]) /\ exposure[b].reserved \in Nat
      /\ UNCHANGED <<drawn, request>>
  BY BackedTypes, EntryAmounts DEF RouteDraw, vaults
<1>2. CASE UNCHANGED root
  BY <1>1, <1>2, BackedStays DEF root
<1>3. CASE ~(UNCHANGED root)
  <2> DEFINE e == NextEvent(c)
  <2>1. PICK n \in Notes : n = e.note
    BY NextDraw DEF RouteDraw, BackedInv
  <2>2. PICK a \in Agents : a = notes[n].agent
    BY <1>1, NoteTypes
  <2>3. e.agent = a /\ e.amount = drawn[n]
    BY <2>1, <2>2, NextDraw DEF RouteDraw, BackedInv
  <2>4. /\ notes' = [notes EXCEPT ![e.note].status = "consumed"]
        /\ exposure' = [exposure EXCEPT ![e.agent] = ActivateExposure(@, e.amount)]
        /\ notes[e.note].status = "issued"
    BY <1>3 DEF RouteDraw
  <2> HIDE DEF e
  <2>5. /\ notes' = [notes EXCEPT ![n].status = "consumed"]
        /\ exposure' = [exposure EXCEPT ![a] = ActivateExposure(exposure[a], drawn[n])]
        /\ notes[n].status = "issued"
    BY <2>1, <2>3, <2>4
  <2>6. /\ drawn[n] \in Nat /\ notes[n].max_draw \in Nat /\ drawn[n] <= notes[n].max_draw
        /\ notes[n].max_draw <= exposure[a].reserved
    BY <1>1, <2>2, <2>5, NoteTypes, Covered DEF IssuedTo, NotesSound
  <2>7. /\ exposure'[a].reserved = exposure[a].reserved - drawn[n]
        /\ \A b \in Agents \ {a} : exposure'[b] = exposure[b]
    <3>1. drawn[n] <= exposure[a].reserved
      BY <1>1, <2>6
    <3>2. ActivateExposure(exposure[a], drawn[n]).reserved = exposure[a].reserved - drawn[n]
      BY <1>1, <2>6, <3>1, EntryCovered
    <3>3. QED
      BY <1>1, <2>5, <3>2, EntryMoves
  <2>8. /\ notes'[n].agent = a /\ notes'[n].status = "consumed"
        /\ notes'[n].max_draw = notes[n].max_draw /\ drawn'[n] = drawn[n]
        /\ \A m \in Notes \ {n} : notes'[m] = notes[m] /\ drawn'[m] = drawn[m]
    <3>1. notes \in [Notes -> Note] /\ notes[n] \in Note
      BY <1>1 DEF TypeOK
    <3>2. QED
      BY <1>1, <2>2, <2>5, <3>1 DEF Note
  <2>9. ASSUME NEW b \in Agents
        PROVE  /\ SetAside(n, b) = (IF b = a THEN notes[n].max_draw ELSE 0)
               /\ SetAside(n, b)' = (IF b = a THEN notes[n].max_draw - drawn[n] ELSE 0)
    BY <2>2, <2>5, <2>8 DEF SetAside
  <2>10. \A b \in Agents :
           exposure'[b].reserved = exposure[b].reserved - SetAside(n, b) + SetAside(n, b)'
    BY <1>1, <2>6, <2>7, <2>9
  <2>11. QED
    BY <1>1, <2>8, <2>10, BackedByNote
<1>4. QED
  BY <1>2, <1>3

LEMMA AuthorizeDrawBacked ==
  ASSUME BackedInv, [Next]_vars, NEW r \in Requests, NEW a \in Agents, NEW amount \in Amounts,
         NEW price \in Prices, AuthorizeDraw(r, a, amount, price)
  PROVE  ReservationsBacked'
<1> DEFINE e   == EnsureAgent(exposure[a], FlareCap)
           usd == amount * price
<1>1. /\ TypeOK /\ TypeOK' /\ NotesSound /\ ReservationsBacked
      /\ \A b \in Agents : Sound(exposure[b]) /\ exposure[b].reserved \in Nat
      /\ UNCHANGED <<notes, drawn>>
  BY BackedTypes, EntryAmounts DEF AuthorizeDraw, vaults
<1>2. Sound(e) /\ e.reserved = exposure[a].reserved
  BY <1>1, EnsureFacts, ConstantFacts
<1>3. usd \in Nat
  BY ConstantFacts
<1>4. CASE /\ exposure' = [exposure EXCEPT ![a] = e]
           /\ UNCHANGED <<request, overlapped>>
  <2>1. \A b \in Agents : exposure'[b].reserved = exposure[b].reserved
    BY <1>1, <1>2, <1>4, EntryMoves
  <2>2. QED
    BY <1>1, <1>4, <2>1, BackedStays
<1>5. CASE /\ exposure' = [exposure EXCEPT ![a] = ReserveExposure(e, usd)]
           /\ Others(r) /\ request[r].pc = "none"
           /\ request'[r].pc \in {"pricing", "undone"} /\ request'[r].agent = a
           /\ request'[r].usd = usd
  <2>1. ReserveExposure(e, usd).reserved = exposure[a].reserved + usd
    BY <1>2, <1>3, EntryAmounts
  <2>2. /\ exposure'[a].reserved = exposure[a].reserved + usd
        /\ \A b \in Agents \ {a} : exposure'[b] = exposure[b]
    BY <1>1, <1>5, <2>1, EntryMoves
  <2>3. \A b \in Agents : Held(r, b) = 0 /\ Held(r, b)' = IF b = a THEN usd ELSE 0
    BY <1>5 DEF Held, BusyOf, Busy
  <2> HIDE DEF usd
  <2>4. \A b \in Agents :
          exposure'[b].reserved = exposure[b].reserved - Held(r, b) + Held(r, b)'
    BY <1>1, <1>3, <2>2, <2>3
  <2>5. QED
    BY <1>1, <1>5, <2>4, BackedByRequest
<1>6. QED
  BY <1>1, <1>4, <1>5, AuthorizeFacts

\* Between its ends a request moves nothing of the root's.
LEMMA GotoBacked ==
  ASSUME BackedInv, [Next]_vars, NEW r \in Requests,
         NEW pc \in {"undone", "executing", "drawn", "repaid"},
         r \in Busy, Goto(r, pc), UNCHANGED <<exposure, notes, drawn>>
  PROVE  ReservationsBacked'
<1>1. /\ TypeOK /\ TypeOK' /\ NotesSound /\ ReservationsBacked
      /\ \A b \in Agents : Sound(exposure[b]) /\ exposure[b].reserved \in Nat
  BY BackedTypes, EntryAmounts
<1>2. /\ Others(r) /\ request'[r].pc = pc /\ request'[r].agent = request[r].agent
      /\ request'[r].usd = request[r].usd
  BY <1>1, GotoFacts
<1>3. request[r].usd \in Nat
  BY <1>1 DEF TypeOK, Request
<1>4. \A b \in Agents : Held(r, b)' = Held(r, b) /\ Held(r, b) \in Int
  BY <1>2, <1>3 DEF Held, BusyOf, Busy
<1>5. \A b \in Agents :
        exposure'[b].reserved = exposure[b].reserved - Held(r, b) + Held(r, b)'
  BY <1>1, <1>4
<1>6. QED
  BY <1>1, <1>2, <1>5, BackedByRequest

\* A request that ends gives back what it holds.
LEMMA EndsBacked ==
  ASSUME BackedInv, [Next]_vars, NEW r \in Requests, r \in Busy, Ends(r),
         UNCHANGED <<notes, drawn>>, NEW a \in Agents, a = request[r].agent,
         exposure'[a].reserved = exposure[a].reserved - request[r].usd,
         \A b \in Agents \ {a} : exposure'[b] = exposure[b]
  PROVE  ReservationsBacked'
<1>1. /\ TypeOK /\ TypeOK' /\ NotesSound /\ ReservationsBacked
      /\ \A b \in Agents : Sound(exposure[b]) /\ exposure[b].reserved \in Nat
  BY BackedTypes, EntryAmounts
<1>2. Others(r) /\ request'[r].pc = "done"
  BY <1>1, EndsFacts
<1>3. request[r].usd \in Nat
  BY <1>1 DEF TypeOK, Request
<1>4. \A b \in Agents : /\ Held(r, b) = IF b = a THEN request[r].usd ELSE 0
                       /\ Held(r, b)' = 0
  BY <1>2 DEF Held, BusyOf, Busy
<1>5. \A b \in Agents :
        exposure'[b].reserved = exposure[b].reserved - Held(r, b) + Held(r, b)'
  BY <1>1, <1>3, <1>4
<1>6. QED
  BY <1>1, <1>2, <1>5, BackedByRequest

LEMMA BookDrawBacked ==
  ASSUME BackedInv, [Next]_vars, NEW r \in Requests, BookDraw(r)
  PROVE  ReservationsBacked'
<1>1. /\ TypeOK /\ NotesSound /\ ReservationsBacked
      /\ \A b \in Agents : Sound(exposure[b])
  BY BackedTypes
<1>2. PICK a \in Agents : a = request[r].agent
  BY <1>1 DEF TypeOK, Request
<1>3. r \in BusyOf(a) /\ r \in Busy
  BY <1>2 DEF BookDraw, BusyOf, Busy
<1>4. request[r].usd \in Nat /\ request[r].usd <= exposure[a].reserved
  BY <1>1, <1>3, Covered DEF TypeOK, Request
<1>5. PICK f : /\ exposure' = [exposure EXCEPT ![a] = f]
               /\ f.reserved = exposure[a].reserved - request[r].usd
  <2>1. \/ exposure' = [exposure EXCEPT ![a] = ActivateExposure(exposure[a], request[r].usd)]
        \/ exposure' = [exposure EXCEPT ![a] = ReleaseReservation(exposure[a], request[r].usd)]
    BY <1>2 DEF BookDraw
  <2>2. /\ ActivateExposure(exposure[a], request[r].usd).reserved
             = exposure[a].reserved - request[r].usd
        /\ ReleaseReservation(exposure[a], request[r].usd).reserved
             = exposure[a].reserved - request[r].usd
    BY <1>1, <1>4, EntryCovered
  <2>3. QED
    BY <2>1, <2>2
<1>6. /\ exposure'[a].reserved = exposure[a].reserved - request[r].usd
      /\ \A b \in Agents \ {a} : exposure'[b] = exposure[b]
  BY <1>1, <1>5, EntryMoves
<1>7. Ends(r) /\ UNCHANGED <<notes, drawn>>
  BY DEF BookDraw, vaults
<1>8. QED
  BY <1>2, <1>3, <1>6, <1>7, EndsBacked

LEMMA StartRepayBacked ==
  ASSUME BackedInv, [Next]_vars, NEW r \in Requests, NEW a \in Agents, NEW amount \in Amounts,
         StartRepay(r, a, amount)
  PROVE  ReservationsBacked'
<1>1. /\ TypeOK /\ TypeOK' /\ NotesSound /\ ReservationsBacked
      /\ \A b \in Agents : Sound(exposure[b]) /\ exposure[b].reserved \in Nat
      /\ UNCHANGED <<exposure, notes, drawn>>
  BY BackedTypes, EntryAmounts DEF StartRepay, root
<1>2. Others(r) /\ request[r].pc = "none" /\ request'[r].usd = 0
  BY <1>1, StartRepayFacts
<1>3. \A b \in Agents : Held(r, b) = 0 /\ Held(r, b)' = 0
  BY <1>2 DEF Held, BusyOf, Busy
<1>4. \A b \in Agents :
        exposure'[b].reserved = exposure[b].reserved - Held(r, b) + Held(r, b)'
  BY <1>1, <1>3
<1>5. QED
  BY <1>1, <1>2, <1>4, BackedByRequest

LEMMA RepayEndsBacked ==
  ASSUME BackedInv, [Next]_vars, NEW r \in Requests, RepayFailed(r) \/ BookRepay(r)
  PROVE  ReservationsBacked'
<1>1. /\ TypeOK /\ IInv /\ NotesSound /\ ReservationsBacked /\ RepaysReserveNothing
      /\ \A b \in Agents : Sound(exposure[b]) /\ exposure[b].reserved \in Nat
  BY BackedTypes, EntryAmounts DEF BackedInv, NotesInv
<1>2. PICK a \in Agents : a = request[r].agent
  BY <1>1 DEF TypeOK, Request
<1>3. /\ r \in Busy /\ Ends(r) /\ UNCHANGED <<notes, drawn>>
      /\ request[r].pc \in {"repaying", "repaid"}
  BY DEF RepayFailed, BookRepay, Busy, root, vaults
<1>4. request[r].usd = 0
  BY <1>1, <1>3 DEF RepaysReserveNothing
<1>5. /\ exposure'[a].reserved = exposure[a].reserved
      /\ \A b \in Agents \ {a} : exposure'[b] = exposure[b]
  <2>1. CASE RepayFailed(r)
    BY <2>1 DEF RepayFailed, root
  <2>2. CASE BookRepay(r)
    <3>1. exposure' = [exposure EXCEPT ![a] = DecreaseExposure(exposure[a], Release(r))]
      BY <1>2, <2>2 DEF BookRepay
    <3>2. Release(r) \in Nat
      BY <1>1, <2>2, ReleaseNat DEF BookRepay
    <3>3. DecreaseExposure(exposure[a], Release(r)).reserved = exposure[a].reserved
      BY <1>1, <3>2, EntryAmounts
    <3>4. QED
      BY <1>1, <3>1, <3>3, EntryMoves
  <2>3. QED
    BY <2>1, <2>2
<1>6. exposure'[a].reserved = exposure[a].reserved - request[r].usd
  BY <1>1, <1>4, <1>5
<1>7. QED
  BY <1>2, <1>3, <1>5, <1>6, EndsBacked

\* The steps that leave notes, draws, requests and reservations alone.
LEMMA RestBacked ==
  ASSUME BackedInv, [Next]_vars,
         \/ UNCHANGED vars
         \/ \E a \in Agents : Freeze(a) \/ \E cap \in Caps : RaiseCap(a, cap)
         \/ \E c \in Chains, a \in Agents, amount \in Amounts : RepayVault(c, a, amount)
         \/ \E c \in Chains :
              StartSync(c) \/ RouteRepay(c) \/ AbandonSync(c) \/ FinishSync(c)
  PROVE  ReservationsBacked'
<1>1. /\ TypeOK /\ IInv /\ ReservationsBacked
      /\ \A b \in Agents : Sound(exposure[b])
  BY BackedTypes DEF BackedInv, NotesInv
<1>2. UNCHANGED <<notes, drawn, request>>
  BY DEF Freeze, RaiseCap, RepayVault, StartSync, RouteRepay, AbandonSync, FinishSync,
         root, vaults, vars
<1>3. \A b \in Agents : exposure'[b].reserved = exposure[b].reserved
  <2>1. CASE UNCHANGED exposure
    BY <2>1
  <2>2. CASE \E a \in Agents : Freeze(a) \/ \E cap \in Caps : RaiseCap(a, cap)
    <3>1. PICK a \in Agents : \E f : /\ exposure' = [exposure EXCEPT ![a] = f]
                                     /\ f.reserved = exposure[a].reserved
      <4>1. PICK a \in Agents : Freeze(a) \/ \E cap \in Caps : RaiseCap(a, cap)
        BY <2>2
      <4>2. CASE Freeze(a)
        <5>1. FreezeAgentExposure(exposure[a]).reserved = exposure[a].reserved
          BY <1>1, EntryAmounts, 0 \in Nat
        <5>2. QED
          BY <4>2, <5>1 DEF Freeze
      <4>3. ASSUME NEW cap \in Caps, RaiseCap(a, cap)
            PROVE  \E f : /\ exposure' = [exposure EXCEPT ![a] = f]
                          /\ f.reserved = exposure[a].reserved
        <5>1. EnsureAgent(exposure[a], cap).reserved = exposure[a].reserved
          BY <1>1, EntryAmounts, ConstantFacts
        <5>2. QED
          BY <4>3, <5>1 DEF RaiseCap
      <4>4. QED
        BY <4>1, <4>2, <4>3
    <3>2. PICK f : exposure' = [exposure EXCEPT ![a] = f] /\ f.reserved = exposure[a].reserved
      BY <3>1
    <3>3. QED
      BY <1>1, <3>2, EntryMoves
  <2>3. ASSUME NEW c \in Chains, RouteRepay(c)
        PROVE  \A b \in Agents : exposure'[b].reserved = exposure[b].reserved
    <3>1. sync[c].next \in 1..Len(log[c])
      BY <1>1, <2>3 DEF RouteRepay, IInv, TypeOK, SyncsInLog
    <3>2. PICK a \in Agents, k \in Nat :
            exposure' = [exposure EXCEPT ![a] = DecreaseExposure(exposure[a], k)]
      BY <1>1, <2>3, <3>1, EventTypes DEF RouteRepay, NextEvent
    <3>3. DecreaseExposure(exposure[a], k).reserved = exposure[a].reserved
      BY <1>1, EntryAmounts
    <3>4. QED
      BY <1>1, <3>2, <3>3, EntryMoves
  <2>4. QED
    BY <2>1, <2>2, <2>3
    DEF RepayVault, StartSync, AbandonSync, FinishSync, root, vars
<1>4. QED
  BY <1>1, <1>2, <1>3, BackedStays

LEMMA FlareBacked ==
  ASSUME BackedInv, [Next]_vars, FlareRequest
  PROVE  ReservationsBacked'
<1>1. PICK r \in Requests :
        \/ \E a \in Agents, amount \in Amounts :
             \/ \E price \in Prices : AuthorizeDraw(r, a, amount, price)
             \/ StartRepay(r, a, amount)
        \/ \E price \in Prices : CommitDraw(r, price)
        \/ DrawExecuted(r) \/ DrawFailed(r) \/ BookDraw(r)
        \/ RepayExecuted(r) \/ RepayFailed(r) \/ BookRepay(r)
  BY DEF FlareRequest
<1>2. CASE \/ \E price \in Prices : CommitDraw(r, price)
           \/ DrawExecuted(r) \/ DrawFailed(r) \/ RepayExecuted(r)
  <2>1. /\ r \in Busy /\ UNCHANGED <<exposure, notes, drawn>>
        /\ \E pc \in {"undone", "executing", "drawn", "repaid"} : Goto(r, pc)
    BY <1>2 DEF CommitDraw, DrawExecuted, DrawFailed, RepayExecuted, Busy, root, vaults
  <2>2. QED
    BY <2>1, GotoBacked
<1>3. QED
  BY <1>1, <1>2, AuthorizeDrawBacked, StartRepayBacked, BookDrawBacked, RepayEndsBacked

\* The reservations stay backed.
LEMMA BackedStep == BackedInv /\ [Next]_vars => BackedInv'
<1> SUFFICES ASSUME BackedInv, [Next]_vars
             PROVE  BackedInv'
  OBVIOUS
<1>1. NotesInv'
  BY NotesStep DEF BackedInv
<1>2. ReservationsBacked'
  <2>1. CASE Root
    BY <2>1, RestBacked, IssueCanBacked, RevokeCanBacked, ExpireBacked DEF Root
  <2>2. CASE Vault
    BY <2>2, DrawOnNoteBacked, RestBacked DEF Vault
  <2>3. CASE Relay
    BY <2>3, RouteDrawBacked, RestBacked DEF Relay
  <2>4. CASE FlareRequest
    BY <2>4, FlareBacked
  <2>5. CASE UNCHANGED vars
    BY <2>5, RestBacked
  <2>6. QED
    BY <2>1, <2>2, <2>3, <2>4, <2>5 DEF Next
<1>3. QED
  BY <1>1, <1>2 DEF BackedInv

LEMMA BackedInit == Init => BackedInv
<1> SUFFICES ASSUME Init PROVE ReservationsBacked
  BY NotesInit DEF BackedInv
<1>1. SUFFICES ASSUME NEW a \in Agents
               PROVE  exposure[a].reserved = Limits(a) + Unused(a) + InFlight(a)
  BY BackedIs
<1>2. IssuedTo(a) = {} /\ ConsumedOf(a) = {} /\ BusyOf(a) = {}
  BY DEF Init, IssuedTo, ConsumedOf, BusyOf, Busy, NoRequest
<1>3. Limits(a) = 0 /\ Unused(a) = 0 /\ InFlight(a) = 0
  BY <1>2, SumEmpty DEF Limits, Unused, InFlight, SumOf
<1>4. exposure[a].reserved = 0
  BY DEF Init, NoExposure
<1>5. QED
  BY <1>3, <1>4

LEMMA BackedInvariance == Spec => []BackedInv
BY BackedInit, BackedStep, PTL DEF Spec

\* What is reserved is accounted for, to the cent (issue_can, consume_can, revoke_can,
\* satellite.ts draw).
THEOREM OmnichainReservations == Spec => []ReservationsBacked
<1>1. BackedInv => ReservationsBacked
  BY DEF BackedInv
<1>2. QED
  BY <1>1, BackedInvariance, PTL

-------------------------------------------------------------------------------
(* What a log says *)

\* What was drawn, or repaid, after the first k events of a log.
Places(l, type, a, k) == {i \in k + 1 .. Len(l) : l[i].type = type /\ l[i].agent = a}

Sent(l, type, a, k) == SumOf(Places(l, type, a, k), LAMBDA i : l[i].amount)

\* What one event counts for.
Counted(type, a, e) == IF e.type = type /\ e.agent = a THEN e.amount ELSE 0

\* What an entry of a log says.
LEMMA EventAmounts ==
  ASSUME NEW l \in Seq(Event), NEW i \in 1..Len(l)
  PROVE  l[i] \in Event /\ l[i].agent \in Agents /\ l[i].amount \in Nat \ {0}
<1>1. l[i] \in Event
  OBVIOUS
<1>2. QED
  BY <1>1, OmnichainConstants DEF Event

\* The places of one kind of event are finitely many.
LEMMA PlacesFinite ==
  ASSUME NEW l \in Seq(Event), NEW type, NEW a, NEW k \in Nat
  PROVE  /\ IsFiniteSet(Places(l, type, a, k))
         /\ \A i \in Places(l, type, a, k) : i \in 1..Len(l) /\ i > k /\ l[i].amount \in Nat
<1>1. Len(l) \in Nat
  OBVIOUS
<1>2. Places(l, type, a, k) \subseteq k + 1 .. Len(l)
  BY DEF Places
<1>3. IsFiniteSet(k + 1 .. Len(l))
  BY <1>1, FS_Interval
<1>4. \A i \in k + 1 .. Len(l) : i \in 1..Len(l) /\ i > k
  BY <1>1
<1>5. QED
  BY <1>2, <1>3, <1>4, FS_Subset, EventAmounts

\* What they sum up to is a natural number ...
LEMMA SentNat ==
  ASSUME NEW l \in Seq(Event), NEW type, NEW a, NEW k \in Nat
  PROVE  Sent(l, type, a, k) \in Nat
<1> DEFINE S == Places(l, type, a, k)
           f == [i \in S |-> l[i].amount]
<1>1. IsFiniteSet(S) /\ \A i \in S : f[i] \in Nat
  BY PlacesFinite
<1>2. Sent(l, type, a, k) = SumFunctionOnSet(f, S)
  BY DEF Sent, SumOf
<1> HIDE DEF S, f
<1>3. QED
  BY <1>1, <1>2, SumNat

\* ... nothing, behind the last event ...
LEMMA SentAtEnd ==
  ASSUME NEW l \in Seq(Event), NEW type, NEW a, NEW k \in Nat, k >= Len(l)
  PROVE  Sent(l, type, a, k) = 0
<1>1. Places(l, type, a, k) = {}
  BY DEF Places
<1>2. QED
  BY <1>1, SumEmpty DEF Sent, SumOf

\* Event by event.
LEMMA SentFirst ==
  ASSUME NEW l \in Seq(Event), NEW type, NEW a, NEW k \in Nat, k < Len(l)
  PROVE  Sent(l, type, a, k) = Counted(type, a, l[k + 1]) + Sent(l, type, a, k + 1)
<1>1. Len(l) \in Nat /\ k + 1 \in 1..Len(l) /\ k + 1 \in Nat
  OBVIOUS
<1> DEFINE S == Places(l, type, a, k)
           T == Places(l, type, a, k + 1)
           f == [i \in S |-> l[i].amount]
           g == [i \in T |-> l[i].amount]
<1>2. IsFiniteSet(S) /\ IsFiniteSet(T) /\ S \ {k + 1} = T \ {k + 1} /\ k + 1 \notin T
  <2>1. IsFiniteSet(S) /\ IsFiniteSet(T)
    BY <1>1, PlacesFinite
  <2>2. S \ {k + 1} = T \ {k + 1} /\ k + 1 \notin T
    BY <1>1 DEF Places
  <2>3. QED
    BY <2>1, <2>2
<1>3. /\ \A i \in S : f[i] \in Nat /\ f[i] = l[i].amount
      /\ \A i \in T : g[i] \in Nat /\ g[i] = l[i].amount
  BY <1>1, PlacesFinite
<1>4. /\ \A i \in S : f[i] \in Int
      /\ \A i \in T : g[i] \in Int
      /\ \A i \in S \ {k + 1} : f[i] = g[i]
  BY <1>2, <1>3
<1>5. /\ Sent(l, type, a, k) = SumFunctionOnSet(f, S)
      /\ Sent(l, type, a, k + 1) = SumFunctionOnSet(g, T)
  BY DEF Sent, SumOf
<1>6. Counted(type, a, l[k + 1]) = IF k + 1 \in S THEN f[k + 1] ELSE 0
  BY <1>1, <1>3 DEF Counted, Places
<1> HIDE DEF S, T, f, g
<1>7. SumFunctionOnSet(g, T) = SumFunctionOnSet(f, S)
        - (IF k + 1 \in S THEN f[k + 1] ELSE 0) + (IF k + 1 \in T THEN g[k + 1] ELSE 0)
  BY <1>2, <1>4, SumChange
<1>8. SumFunctionOnSet(f, S) \in Int /\ Counted(type, a, l[k + 1]) \in Int
  BY <1>2, <1>4, <1>6, SumInt
<1>9. QED
  BY <1>2, <1>5, <1>6, <1>7, <1>8

\* ... and more by the event that is added.
LEMMA SentAdded ==
  ASSUME NEW l \in Seq(Event), NEW type, NEW a, NEW e \in Event, NEW k \in 0..Len(l)
  PROVE  Sent(Append(l, e), type, a, k) = Sent(l, type, a, k) + Counted(type, a, e)
<1> DEFINE j == Len(l) + 1
           m == Append(l, e)
           S == Places(l, type, a, k)
           T == Places(m, type, a, k)
           f == [i \in S |-> l[i].amount]
           g == [i \in T |-> m[i].amount]
<1>1. /\ m \in Seq(Event) /\ Len(m) = j /\ m[j] = e /\ Len(l) \in Nat /\ k \in Nat
      /\ \A i \in 1..Len(l) : m[i] = l[i]
  OBVIOUS
<1>2. IsFiniteSet(S) /\ IsFiniteSet(T) /\ S \ {j} = T \ {j} /\ j \notin S
  <2>1. IsFiniteSet(S) /\ IsFiniteSet(T)
    BY <1>1, PlacesFinite
  <2> HIDE DEF m
  <2>2. S \ {j} = T \ {j} /\ j \notin S
    BY <1>1 DEF Places
  <2>3. QED
    BY <2>1, <2>2
<1>3. /\ \A i \in S : f[i] \in Nat /\ f[i] = l[i].amount /\ i \in 1..Len(l)
      /\ \A i \in T : g[i] \in Nat /\ g[i] = m[i].amount
  BY <1>1, PlacesFinite
<1>4. /\ \A i \in S : f[i] \in Int
      /\ \A i \in T : g[i] \in Int
      /\ \A i \in S \ {j} : f[i] = g[i]
  BY <1>1, <1>2, <1>3
<1>5. /\ Sent(l, type, a, k) = SumFunctionOnSet(f, S)
      /\ Sent(m, type, a, k) = SumFunctionOnSet(g, T)
  BY DEF Sent, SumOf
<1>6. Counted(type, a, e) = IF j \in T THEN g[j] ELSE 0
  <2> HIDE DEF m
  <2>1. QED
    BY <1>1, <1>3 DEF Counted, Places
<1> HIDE DEF S, T, f, g, j
<1>7. SumFunctionOnSet(g, T) = SumFunctionOnSet(f, S)
        - (IF j \in S THEN f[j] ELSE 0) + (IF j \in T THEN g[j] ELSE 0)
  BY <1>2, <1>4, SumChange
<1>8. SumFunctionOnSet(f, S) \in Int /\ Counted(type, a, e) \in Int
  BY <1>2, <1>4, <1>6, SumInt
<1>9. QED
  BY <1>2, <1>5, <1>6, <1>7, <1>8

-------------------------------------------------------------------------------
(* How far a chain is booked *)

\* Events up to here are booked.
Booked(c) == IF Syncing(c) THEN sync[c].next - 1 ELSE checkpoint[c]

\* The repayments to be booked are those behind the last booked event.
LEMMA UnbookedAreSent ==
  ASSUME NEW c, NEW a
  PROVE  /\ UnbookedRepayments(c, a) = Sent(log[c], "CreditRepaid", a, Booked(c))
         /\ UnbookedRepayments(c, a)' = Sent(log'[c], "CreditRepaid", a, Booked(c)')
BY DEF UnbookedRepayments, Sent, SumOf, Places, Booked, Syncing

\* A sync starts at its checkpoint and works forward.
SyncsForward ==
  \A c \in Chains : /\ checkpoint[c] <= Len(log[c])
                    /\ Syncing(c) => checkpoint[c] < sync[c].next

\* The draw of an issued note is still to be booked.
DrawsLogged ==
  \A n \in Notes : notes[n].status = "issued" /\ drawn[n] > 0 =>
    \E i \in Booked(notes[n].chain) + 1 .. Len(log[notes[n].chain]) :
      /\ log[notes[n].chain][i].type = "CreditDrawn"
      /\ log[notes[n].chain][i].note = n

\* At no point of its log has a chain taken back more than it had lent.
DebtsSound ==
  \A a \in Agents \ loose :
    /\ flareUsd[a] >= 0
    /\ \A c \in Chains : \A k \in 0..Len(log[c]) :
         Sent(log[c], "CreditDrawn", a, k)
           <= debt[c][a] + Sent(log[c], "CreditRepaid", a, k)

ForwardInv == BackedInv /\ SyncsForward

\* Where a relayer stands in its log.
LEMMA RelayTypes ==
  ASSUME ForwardInv, NEW c \in Chains
  PROVE  /\ sync \in [Chains -> [next: Nat, last: Nat]] /\ checkpoint \in [Chains -> Nat]
         /\ sync[c].next \in Nat /\ sync[c].last \in Nat /\ checkpoint[c] \in Nat
         /\ Len(log[c]) \in Nat /\ checkpoint[c] <= Len(log[c])
         /\ Booked(c) \in 0..Len(log[c])
         /\ Syncing(c) => /\ checkpoint[c] <= Booked(c) /\ Booked(c) + 1 = sync[c].next
                          /\ sync[c].next <= sync[c].last + 1
                          /\ sync[c].last <= Len(log[c])
<1>1. TypeOK /\ SyncsInLog /\ SyncsForward
  BY DEF ForwardInv, BackedInv, NotesInv, IInv
<1>2. /\ sync \in [Chains -> [next: Nat, last: Nat]] /\ checkpoint \in [Chains -> Nat]
      /\ sync[c].next \in Nat /\ sync[c].last \in Nat /\ checkpoint[c] \in Nat
      /\ Len(log[c]) \in Nat /\ checkpoint[c] <= Len(log[c])
  BY <1>1 DEF TypeOK, SyncsForward
<1>3. Syncing(c) => /\ sync[c].next \in 1..sync[c].last + 1
                    /\ sync[c].last <= Len(log[c]) /\ checkpoint[c] < sync[c].next
  BY <1>1 DEF SyncsInLog, SyncsForward
<1>4. CASE Syncing(c)
  BY <1>2, <1>3, <1>4 DEF Booked
<1>5. CASE ~Syncing(c)
  BY <1>2, <1>5 DEF Booked
<1>6. QED
  BY <1>2, <1>4, <1>5

\* What each step of a relayer books.
LEMMA BookedStays ==
  ASSUME UNCHANGED <<checkpoint, sync>>, NEW c
  PROVE  Booked(c)' = Booked(c) /\ Syncing(c)' = Syncing(c)
BY DEF Booked, Syncing

LEMMA StartFinishBooked ==
  ASSUME ForwardInv, NEW c \in Chains, StartSync(c) \/ FinishSync(c), NEW d \in Chains
  PROVE  Booked(d)' = Booked(d)
<1>1. /\ sync \in [Chains -> [next: Nat, last: Nat]] /\ checkpoint \in [Chains -> Nat]
      /\ checkpoint[c] \in Nat
  BY RelayTypes
<1>2. CASE d # c
  <2>1. sync'[d] = sync[d] /\ checkpoint'[d] = checkpoint[d]
    BY <1>1, <1>2 DEF StartSync, FinishSync
  <2>2. QED
    BY <2>1 DEF Booked, Syncing
<1>3. CASE StartSync(c) /\ d = c
  <2>1. /\ sync'[c] = [next |-> checkpoint[c] + 1, last |-> Len(log[c])]
        /\ ~Syncing(c) /\ checkpoint[c] < Len(log[c]) /\ Len(log[c]) \in Nat
    BY <1>1, <1>3, RelayTypes DEF StartSync
  <2>2. Booked(c)' = checkpoint[c]
    BY <1>1, <2>1 DEF Booked, Syncing
  <2>3. QED
    BY <1>3, <2>1, <2>2 DEF Booked
<1>4. CASE FinishSync(c) /\ d = c
  <2>1. /\ Syncing(c) /\ sync[c].next > sync[c].last /\ sync'[c] = NoSync
        /\ checkpoint'[c] = sync[c].last
    BY <1>1, <1>4 DEF FinishSync
  <2>2. /\ sync[c].next \in Nat /\ sync[c].last \in Nat
        /\ Booked(c) + 1 = sync[c].next /\ sync[c].next <= sync[c].last + 1
    BY <2>1, RelayTypes
  <2>3. Booked(c)' = sync[c].last
    BY <2>1 DEF Booked, Syncing, NoSync
  <2>4. Booked(c) = sync[c].last
    <3>1. Booked(c) = sync[c].next - 1
      BY <2>1 DEF Booked
    <3>2. QED
      BY <2>1, <2>2, <3>1
  <2>5. QED
    BY <1>4, <2>3, <2>4
<1>5. QED
  BY <1>2, <1>3, <1>4

LEMMA RoutedBooked ==
  ASSUME ForwardInv, NEW c \in Chains, Syncing(c), sync[c].next <= sync[c].last, Routed(c),
         UNCHANGED checkpoint
  PROVE  /\ Booked(c) \in Nat /\ Booked(c) < Len(log[c])
         /\ Booked(c)' = Booked(c) + 1 /\ Booked(c) + 1 \in 1..Len(log[c])
         /\ NextEvent(c) = log[c][Booked(c) + 1]
         /\ \A d \in Chains \ {c} : Booked(d)' = Booked(d)
<1>1. /\ sync \in [Chains -> [next: Nat, last: Nat]]
      /\ sync[c].next \in Nat /\ sync[c].last \in Nat /\ Len(log[c]) \in Nat
      /\ Booked(c) \in 0..Len(log[c]) /\ Booked(c) + 1 = sync[c].next
      /\ sync[c].last <= Len(log[c])
  BY RelayTypes
<1>2. sync' = [sync EXCEPT ![c].next = @ + 1]
  BY DEF Routed
<1>3. /\ sync'[c].next = sync[c].next + 1 /\ sync'[c].last = sync[c].last
      /\ \A d \in Chains \ {c} : sync'[d] = sync[d]
  BY <1>1, <1>2
<1>4. Booked(c)' = sync[c].next
  BY <1>1, <1>3 DEF Booked, Syncing
<1>5. \A d \in Chains \ {c} : Booked(d)' = Booked(d)
  BY <1>3 DEF Booked, Syncing
<1>6. QED
  BY <1>1, <1>4, <1>5 DEF NextEvent

LEMMA AbandonBooked ==
  ASSUME ForwardInv, NEW c \in Chains, AbandonSync(c)
  PROVE  /\ Booked(c)' = checkpoint[c] /\ checkpoint[c] <= Booked(c)
         /\ checkpoint[c] \in Nat /\ Booked(c) = sync[c].next - 1
         /\ \A d \in Chains \ {c} : Booked(d)' = Booked(d)
<1>1. /\ sync \in [Chains -> [next: Nat, last: Nat]] /\ checkpoint[c] \in Nat
      /\ Syncing(c) /\ checkpoint[c] <= Booked(c) /\ checkpoint' = checkpoint
  BY RelayTypes DEF AbandonSync
<1>2. sync'[c] = NoSync /\ \A d \in Chains \ {c} : sync'[d] = sync[d]
  BY <1>1 DEF AbandonSync
<1>3. Booked(c)' = checkpoint[c] /\ Booked(c) = sync[c].next - 1
  BY <1>1, <1>2 DEF Booked, Syncing, NoSync
<1>4. \A d \in Chains \ {c} : Booked(d)' = Booked(d)
  BY <1>1, <1>2 DEF Booked, Syncing
<1>5. QED
  BY <1>1, <1>3, <1>4

\* Syncs go forward.
LEMMA ForwardStep ==
  ASSUME ForwardInv, [Next]_vars
  PROVE  ForwardInv'
<1>1. BackedInv'
  BY BackedStep DEF ForwardInv
<1>2. SUFFICES ASSUME NEW d \in Chains
               PROVE  /\ checkpoint'[d] <= Len(log'[d])
                      /\ Syncing(d)' => checkpoint'[d] < sync'[d].next
  BY <1>1 DEF ForwardInv, SyncsForward, Syncing
<1>3. /\ sync \in [Chains -> [next: Nat, last: Nat]] /\ checkpoint \in [Chains -> Nat]
      /\ sync[d].next \in Nat /\ sync[d].last \in Nat /\ checkpoint[d] \in Nat
      /\ Len(log[d]) \in Nat /\ checkpoint[d] <= Len(log[d])
      /\ Syncing(d) => checkpoint[d] < sync[d].next
  BY RelayTypes DEF ForwardInv, SyncsForward
<1>4. CASE UNCHANGED <<log, checkpoint, sync>>
  BY <1>3, <1>4 DEF Syncing
<1>5. CASE Vault
  <2>1. UNCHANGED <<checkpoint, sync>> /\ \E c \in Chains, e \in Event : Emit(c, e)
    <3>1. TypeOK
      BY DEF ForwardInv, BackedInv, NotesInv, IInv
    <3>2. ASSUME NEW n \in Notes, NEW amount \in Amounts, DrawOnNote(n, amount)
          PROVE  UNCHANGED <<checkpoint, sync>> /\ \E c \in Chains, e \in Event : Emit(c, e)
      BY <3>1, <3>2, NoteTypes DEF DrawOnNote, Event
    <3>3. ASSUME NEW c \in Chains, NEW a \in Agents, NEW amount \in Amounts,
                 RepayVault(c, a, amount)
          PROVE  UNCHANGED <<checkpoint, sync>> /\ \E e \in Event : Emit(c, e)
      BY <3>3 DEF RepayVault, Event
    <3>4. QED
      BY <1>5, <3>2, <3>3 DEF Vault
  <2>2. PICK c \in Chains, e \in Event : Emit(c, e)
    BY <2>1
  <2>3. Len(log'[d]) = Len(log[d]) \/ Len(log'[d]) = Len(log[d]) + 1
    BY <2>2, EventAdded DEF ForwardInv, BackedInv, NotesInv, IInv
  <2>4. QED
    BY <1>3, <2>1, <2>3 DEF Syncing
<1>6. CASE Relay
  <2>1. PICK c \in Chains :
          StartSync(c) \/ RouteDraw(c) \/ RouteRepay(c) \/ AbandonSync(c) \/ FinishSync(c)
    BY <1>6 DEF Relay
  <2>2. log' = log
    BY <2>1 DEF StartSync, RouteDraw, RouteRepay, AbandonSync, FinishSync
  <2>3. CASE d # c
    <3>1. sync'[d] = sync[d] /\ checkpoint'[d] = checkpoint[d]
      BY <1>3, <2>1, <2>3 DEF StartSync, RouteDraw, RouteRepay, AbandonSync, FinishSync, Routed
    <3>2. QED
      BY <1>3, <2>2, <3>1 DEF Syncing
  <2>4. CASE d = c
    <3>1. CASE StartSync(c)
      <4>1. /\ sync'[c] = [next |-> checkpoint[c] + 1, last |-> Len(log[c])]
            /\ checkpoint' = checkpoint
        BY <1>3, <3>1 DEF StartSync
      <4>2. QED
        BY <1>3, <2>2, <2>4, <4>1
    <3>2. CASE RouteDraw(c) \/ RouteRepay(c)
      <4>1. /\ sync' = [sync EXCEPT ![c].next = @ + 1] /\ checkpoint' = checkpoint
            /\ Syncing(c)
        BY <3>2 DEF RouteDraw, RouteRepay, Routed
      <4>2. sync'[c].next = sync[c].next + 1
        BY <1>3, <4>1
      <4>3. QED
        BY <1>3, <2>2, <2>4, <4>1, <4>2
    <3>3. CASE AbandonSync(c) \/ FinishSync(c)
      <4>1. sync'[c] = NoSync
        BY <1>3, <3>3 DEF AbandonSync, FinishSync
      <4>2. checkpoint'[c] = checkpoint[c] \/ (Syncing(c) /\ checkpoint'[c] = sync[c].last)
        BY <1>3, <3>3 DEF AbandonSync, FinishSync
      <4>3. Syncing(c) => sync[c].last <= Len(log[c])
        BY RelayTypes
      <4>4. QED
        BY <1>3, <2>2, <2>4, <4>1, <4>2, <4>3 DEF Syncing, NoSync
    <3>4. QED
      BY <2>1, <3>1, <3>2, <3>3
  <2>5. QED
    BY <2>3, <2>4
<1>7. CASE Root \/ FlareRequest \/ UNCHANGED vars
  <2>1. UNCHANGED <<log, checkpoint, sync>>
    BY <1>7, FlareApart DEF Root, RaiseCap, Freeze, IssueCan, RevokeCan, Expire, relayer, vars
  <2>2. QED
    BY <1>4, <2>1
<1>8. QED
  BY <1>5, <1>6, <1>7 DEF Next

LogInv == ForwardInv /\ DrawsLogged /\ DebtsSound

\* What the invariant so far consists of.
LEMMA LogInvParts ==
  ASSUME LogInv
  PROVE  /\ TypeOK /\ IInv /\ NotesInv /\ BackedInv /\ ForwardInv /\ NotesSound /\ LogFits
         /\ DrawsLogged /\ DebtsSound /\ ReservationsBacked
         /\ \A a \in Agents : Sound(exposure[a])
BY EntriesSound DEF LogInv, ForwardInv, BackedInv, NotesInv, IInv

-------------------------------------------------------------------------------
(* Draws stay logged *)

\* A log only grows.
LEMMA LogKept ==
  ASSUME LogInv, [Next]_vars
  PROVE  \/ log' = log
         \/ \E c \in Chains, e \in Event : Emit(c, e)
<1>1. CASE Vault
  <2>1. ASSUME NEW n \in Notes, NEW amount \in Amounts, DrawOnNote(n, amount)
        PROVE  \E c \in Chains, e \in Event : Emit(c, e)
    BY <2>1, LogInvParts, NoteTypes DEF DrawOnNote, Event
  <2>2. ASSUME NEW c \in Chains, NEW a \in Agents, NEW amount \in Amounts,
               RepayVault(c, a, amount)
        PROVE  \E e \in Event : Emit(c, e)
    BY <2>2 DEF RepayVault, Event
  <2>3. QED
    BY <1>1, <2>1, <2>2 DEF Vault
<1>2. CASE Root \/ Relay \/ FlareRequest \/ UNCHANGED vars
  BY <1>2, FlareApart DEF Root, RaiseCap, Freeze, IssueCan, RevokeCan, Expire, Relay, StartSync,
     RouteDraw, RouteRepay, AbandonSync, FinishSync, relayer, vars
<1>3. QED
  BY <1>1, <1>2 DEF Next

\* An event stays where it is.
LEMMA EventsKept ==
  ASSUME LogInv, [Next]_vars, NEW c \in Chains, NEW i \in 1..Len(log[c])
  PROVE  i \in 1..Len(log'[c]) /\ log'[c][i] = log[c][i]
<1>1. CASE log' = log
  BY <1>1
<1>2. ASSUME NEW d \in Chains, NEW e \in Event, Emit(d, e)
      PROVE  i \in 1..Len(log'[c]) /\ log'[c][i] = log[c][i]
  <2>1. /\ Len(log'[d]) = Len(log[d]) + 1 /\ Len(log[d]) \in Nat
        /\ \A j \in 1..Len(log[d]) : log'[d][j] = log[d][j]
        /\ \A b \in Chains \ {d} : log'[b] = log[b]
    BY <1>2, EventAdded, LogInvParts
  <2>2. CASE c = d
    BY <2>1, <2>2
  <2>3. CASE c # d
    BY <2>1, <2>3
  <2>4. QED
    BY <2>2, <2>3
<1>3. QED
  BY <1>1, <1>2, LogKept

Logged(n) ==
  \E i \in Booked(notes[n].chain) + 1 .. Len(log[notes[n].chain]) :
    log[notes[n].chain][i].type = "CreditDrawn" /\ log[notes[n].chain][i].note = n

\* An event that was not booked and is not booked now.
LEMMA StaysLogged ==
  ASSUME LogInv, [Next]_vars, NEW n \in Notes, notes[n].status = "issued", drawn[n] > 0,
         NEW c \in Chains, c = notes[n].chain, notes'[n].chain = c,
         \A i \in 1..Len(log[c]) :
           i > Booked(c) /\ log[c][i].type = "CreditDrawn" /\ log[c][i].note = n
             => i > Booked(c)',
         Booked(c)' \in Nat
  PROVE  Logged(n)'
<1>1. Booked(c) \in 0..Len(log[c]) /\ Len(log[c]) \in Nat
  BY RelayTypes, LogInvParts
<1>2. PICK i \in Booked(c) + 1 .. Len(log[c]) :
        log[c][i].type = "CreditDrawn" /\ log[c][i].note = n
  BY LogInvParts DEF DrawsLogged
<1>3. i \in 1..Len(log[c]) /\ i > Booked(c) /\ i \in Nat
  BY <1>1
<1>4. i \in 1..Len(log'[c]) /\ log'[c][i] = log[c][i] /\ i <= Len(log'[c])
  BY <1>3, EventsKept
<1>5. i > Booked(c)'
  BY <1>2, <1>3
<1>6. Len(log'[c]) \in Nat
  <2>1. TypeOK'
    BY LogInvParts, StepInv DEF IInv
  <2>2. QED
    BY <2>1 DEF TypeOK
<1>7. i \in Booked(c)' + 1 .. Len(log'[c])
  BY <1>3, <1>4, <1>5, <1>6
<1>8. QED
  BY <1>2, <1>4, <1>7 DEF Logged, Booked, Syncing

\* A note that was issued and drawn on, its chain booked no further.
LEMMA LoggedWhere ==
  ASSUME LogInv, [Next]_vars, NEW n \in Notes, notes[n].status = "issued", drawn[n] > 0,
         notes'[n].chain = notes[n].chain,
         \A c \in Chains : Booked(c)' = Booked(c)
  PROVE  Logged(n)'
<1>1. PICK c \in Chains : c = notes[n].chain
  BY LogInvParts, NoteTypes
<1>2. Booked(c)' = Booked(c) /\ Booked(c) \in Nat
  BY RelayTypes, LogInvParts
<1>3. QED
  BY <1>1, <1>2, StaysLogged

LEMMA RootLogged ==
  ASSUME LogInv, [Next]_vars, Root, NEW n \in Notes, notes'[n].status = "issued", drawn'[n] > 0
  PROVE  Logged(n)'
<1>1. /\ TypeOK /\ notes \in [Notes -> Note] /\ drawn' = drawn
      /\ UNCHANGED <<checkpoint, sync>>
  BY LogInvParts DEF TypeOK, Root, RaiseCap, Freeze, IssueCan, RevokeCan, Expire,
     vaults, relayer
<1>2. notes[n].status = "issued" /\ notes'[n].chain = notes[n].chain
  <2>1. CASE notes' = notes
    BY <2>1
  <2>2. ASSUME NEW m \in Notes, NEW a \in Agents, NEW c \in Chains, NEW max \in Amounts,
               IssueCan(m, a, c, max)
        PROVE  notes'[n] = notes[n]
    <3>1. drawn[m] = 0
      BY <2>2, LogInvParts DEF IssueCan, NotesSound
    <3>2. n # m
      BY <1>1, <3>1
    <3>3. QED
      BY <1>1, <2>2, <3>2 DEF IssueCan
  <2>3. ASSUME NEW m \in Notes, RevokeCan(m) \/ Expire(m)
        PROVE  notes[n].status = "issued" /\ notes'[n].chain = notes[n].chain
    <3>1. notes[m] \in Note
      BY <1>1
    <3>2. CASE n # m
      BY <1>1, <2>3, <3>2 DEF RevokeCan, Expire
    <3>3. CASE n = m
      <4>1. notes' = [notes EXCEPT ![m].expired = TRUE]
        BY <1>1, <2>3, <3>1, <3>3 DEF RevokeCan, Expire, Note
      <4>2. QED
        BY <1>1, <3>1, <3>3, <4>1 DEF Note
    <3>4. QED
      BY <3>2, <3>3
  <2>4. QED
    BY <2>1, <2>2, <2>3 DEF Root, RaiseCap, Freeze
<1>3. \A c \in Chains : Booked(c)' = Booked(c)
  BY <1>1, BookedStays
<1>4. QED
  BY <1>1, <1>2, <1>3, LoggedWhere

LEMMA VaultLogged ==
  ASSUME LogInv, [Next]_vars, Vault, NEW n \in Notes, notes'[n].status = "issued",
         drawn'[n] > 0
  PROVE  Logged(n)'
<1>1. /\ TypeOK /\ drawn \in [Notes -> Nat] /\ notes' = notes
      /\ UNCHANGED <<checkpoint, sync>>
  BY LogInvParts DEF TypeOK, Vault, DrawOnNote, RepayVault, root
<1>2. \A c \in Chains : Booked(c)' = Booked(c)
  BY <1>1, BookedStays
<1>3. CASE drawn'[n] = drawn[n]
  BY <1>1, <1>2, <1>3, LoggedWhere
<1>4. ASSUME NEW amount \in Amounts, DrawOnNote(n, amount)
      PROVE  Logged(n)'
  <2>1. PICK c \in Chains, a \in Agents : c = notes[n].chain /\ a = notes[n].agent
    BY <1>1, NoteTypes
  <2> DEFINE e == [type |-> "CreditDrawn", agent |-> a, note |-> n, amount |-> amount]
  <2>2. e \in Event /\ Emit(c, e)
    BY <1>4, <2>1 DEF Event, DrawOnNote
  <2>3. /\ Len(log'[c]) = Len(log[c]) + 1 /\ log'[c][Len(log[c]) + 1] = e
        /\ Len(log[c]) \in Nat
    BY <1>1, <2>2, EventAdded
  <2>4. Booked(c)' \in 0..Len(log[c])
    BY <1>2, RelayTypes, LogInvParts
  <2>5. Len(log[c]) + 1 \in Booked(c)' + 1 .. Len(log'[c])
    BY <2>3, <2>4
  <2>6. e.type = "CreditDrawn" /\ e.note = n
    OBVIOUS
  <2> HIDE DEF e
  <2>7. QED
    BY <1>1, <2>1, <2>3, <2>5, <2>6 DEF Logged, Booked, Syncing
<1>5. ASSUME NEW m \in Notes, NEW amount \in Amounts, DrawOnNote(m, amount), m # n
      PROVE  drawn'[n] = drawn[n]
  BY <1>1, <1>5 DEF DrawOnNote
<1>6. ASSUME NEW c \in Chains, NEW a \in Agents, NEW amount \in Amounts,
             RepayVault(c, a, amount)
      PROVE  drawn'[n] = drawn[n]
  BY <1>6 DEF RepayVault
<1>7. QED
  BY <1>3, <1>4, <1>5, <1>6 DEF Vault

\* A routed event that is not the draw of an issued note.
LEMMA RouteLogged ==
  ASSUME LogInv, [Next]_vars, NEW c \in Chains, RouteDraw(c) \/ RouteRepay(c),
         NEW n \in Notes, notes'[n].status = "issued", drawn'[n] > 0
  PROVE  Logged(n)'
<1>1. /\ TypeOK /\ notes \in [Notes -> Note] /\ drawn' = drawn
      /\ Syncing(c) /\ sync[c].next <= sync[c].last /\ Routed(c) /\ UNCHANGED checkpoint
  BY LogInvParts DEF TypeOK, RouteDraw, RouteRepay, vaults
<1>2. /\ Booked(c) \in Nat /\ Booked(c)' = Booked(c) + 1
      /\ NextEvent(c) = log[c][Booked(c) + 1]
      /\ \A d \in Chains \ {c} : Booked(d)' = Booked(d)
  BY <1>1, RoutedBooked, LogInvParts
<1>3. /\ notes[n].status = "issued" /\ notes'[n].chain = notes[n].chain
      /\ ~(NextEvent(c).type = "CreditDrawn" /\ NextEvent(c).note = n)
  <2>1. CASE RouteRepay(c)
    BY <2>1 DEF RouteRepay
  <2>2. CASE RouteDraw(c) /\ notes' = notes
    <3>1. PICK m \in Notes : m = NextEvent(c).note
      BY <2>2, NextDraw, LogInvParts DEF RouteDraw
    <3>2. notes[m] \in Note
      BY <1>1
    <3>3. notes[m].status # "issued"
      <4>1. SUFFICES ASSUME notes[m].status = "issued" PROVE FALSE
        OBVIOUS
      <4>2. notes' = [notes EXCEPT ![m].status = "consumed"]
        BY <2>2, <3>1, <4>1 DEF RouteDraw
      <4>3. notes'[m].status = "consumed"
        BY <1>1, <3>2, <4>2 DEF Note
      <4>4. QED
        BY <2>2, <4>1, <4>3
    <3>4. QED
      BY <2>2, <3>1, <3>3
  <2>3. CASE RouteDraw(c) /\ notes' # notes
    <3>1. PICK m \in Notes : m = NextEvent(c).note
      BY <2>3, NextDraw, LogInvParts DEF RouteDraw
    <3>2. notes' = [notes EXCEPT ![m].status = "consumed"]
      BY <2>3, <3>1 DEF RouteDraw, root
    <3>3. notes[m] \in Note
      BY <1>1
    <3>4. n # m
      BY <1>1, <3>2, <3>3 DEF Note
    <3>5. QED
      BY <1>1, <3>1, <3>2, <3>4
  <2>4. QED
    BY <2>1, <2>2, <2>3
<1>4. PICK d \in Chains : d = notes[n].chain
  BY <1>1, NoteTypes
<1>5. Booked(d) \in 0..Len(log[d]) /\ Len(log[d]) \in Nat
  BY RelayTypes, LogInvParts
<1>6. CASE d # c
  BY <1>1, <1>2, <1>3, <1>4, <1>5, <1>6, StaysLogged
<1>7. CASE d = c
  <2>1. \A i \in 1..Len(log[c]) :
          i > Booked(c) /\ log[c][i].type = "CreditDrawn" /\ log[c][i].note = n
            => i > Booked(c)'
    <3>1. SUFFICES ASSUME NEW i \in 1..Len(log[c]), i > Booked(c),
                          log[c][i].type = "CreditDrawn", log[c][i].note = n
                   PROVE  i > Booked(c) + 1
      BY <1>2
    <3>2. i \in Nat
      OBVIOUS
    <3>3. i # Booked(c) + 1
      <4>1. SUFFICES ASSUME i = Booked(c) + 1 PROVE FALSE
        OBVIOUS
      <4>2. log[c][i] = NextEvent(c)
        BY <1>2, <4>1
      <4>3. QED
        BY <1>3, <3>1, <4>2
    <3>4. QED
      BY <1>2, <3>1, <3>2, <3>3
  <2>2. Booked(c)' \in Nat /\ drawn[n] > 0 /\ c = notes[n].chain /\ notes'[n].chain = c
    BY <1>1, <1>2, <1>3, <1>4, <1>7
  <2>3. QED
    BY <1>3, <2>1, <2>2, StaysLogged
<1>8. QED
  BY <1>6, <1>7

LEMMA RelayLogged ==
  ASSUME LogInv, [Next]_vars, Relay, NEW n \in Notes, notes'[n].status = "issued",
         drawn'[n] > 0
  PROVE  Logged(n)'
<1>1. CASE \E c \in Chains : StartSync(c) \/ FinishSync(c)
  <2>1. notes' = notes /\ drawn' = drawn
    BY <1>1 DEF StartSync, FinishSync, root, vaults
  <2>2. \A d \in Chains : Booked(d)' = Booked(d)
    BY <1>1, StartFinishBooked, LogInvParts
  <2>3. QED
    BY <2>1, <2>2, LoggedWhere
<1>2. ASSUME NEW c \in Chains, AbandonSync(c)
      PROVE  Logged(n)'
  <2>1. notes' = notes /\ drawn' = drawn
    BY <1>2 DEF AbandonSync, root, vaults
  <2>2. /\ Booked(c)' \in Nat /\ Booked(c)' <= Booked(c)
        /\ \A d \in Chains \ {c} : Booked(d)' = Booked(d)
    BY <1>2, AbandonBooked, LogInvParts
  <2>3. PICK d \in Chains : d = notes[n].chain
    BY LogInvParts, NoteTypes
  <2>4. Booked(d) \in 0..Len(log[d]) /\ Len(log[d]) \in Nat
    BY RelayTypes, LogInvParts
  <2>5. Booked(d)' \in Nat /\ Booked(d)' <= Booked(d) /\ Booked(d) \in Nat
    BY <2>2, <2>4
  <2>6. \A i \in 1..Len(log[d]) :
          i > Booked(d) /\ log[d][i].type = "CreditDrawn" /\ log[d][i].note = n
            => i > Booked(d)'
    <3>1. \A i, x, y \in Int : i > x /\ y <= x => i > y
      OBVIOUS
    <3>2. \A i \in 1..Len(log[d]) : i \in Int
      OBVIOUS
    <3>3. Booked(d) \in Int /\ Booked(d)' \in Int
      BY <2>5
    <3>4. QED
      BY <2>5, <3>1, <3>2, <3>3
  <2>7. notes[n].status = "issued" /\ drawn[n] > 0 /\ notes'[n].chain = d
    BY <2>1, <2>3
  <2>8. QED
    BY <2>3, <2>5, <2>6, <2>7, StaysLogged
<1>3. QED
  BY <1>1, <1>2, RouteLogged DEF Relay

\* The draw of an issued note stays to be booked.
LEMMA DrawsLoggedStep ==
  ASSUME LogInv, [Next]_vars
  PROVE  DrawsLogged'
<1>1. SUFFICES ASSUME NEW n \in Notes, notes'[n].status = "issued", drawn'[n] > 0
               PROVE  Logged(n)'
  BY DEF DrawsLogged, Logged
<1>2. CASE FlareRequest \/ UNCHANGED vars
  <2>1. UNCHANGED <<notes, drawn, checkpoint, sync>>
    BY <1>2, FlareApart DEF root, vaults, relayer, vars
  <2>2. \A c \in Chains : Booked(c)' = Booked(c)
    BY <2>1, BookedStays
  <2>3. QED
    BY <1>1, <2>1, <2>2, LoggedWhere
<1>3. QED
  BY <1>1, <1>2, RootLogged, VaultLogged, RelayLogged DEF Next

-------------------------------------------------------------------------------
(* No chain takes back more than it lent *)

\* Sound for one agent on one chain.
DebtSound(c, a) ==
  \A k \in 0..Len(log[c]) :
    Sent(log[c], "CreditDrawn", a, k) <= debt[c][a] + Sent(log[c], "CreditRepaid", a, k)

LEMMA LogTypes ==
  ASSUME LogInv, NEW c \in Chains
  PROVE  /\ log \in [Chains -> Seq(Event)] /\ log[c] \in Seq(Event) /\ Len(log[c]) \in Nat
         /\ \A a \in Agents : debt[c][a] \in Int /\ flareUsd[a] \in Int
         /\ \A a \in Agents \ loose : flareUsd[a] >= 0 /\ DebtSound(c, a)
         /\ \A a \in Agents \ loose : debt[c][a] >= 0
<1>1. TypeOK /\ DebtsSound
  BY LogInvParts
<1>2. /\ log \in [Chains -> Seq(Event)] /\ log[c] \in Seq(Event) /\ Len(log[c]) \in Nat
      /\ \A a \in Agents : debt[c][a] \in Int /\ flareUsd[a] \in Int
  BY <1>1 DEF TypeOK, AllChains
<1>3. \A a \in Agents \ loose : flareUsd[a] >= 0 /\ DebtSound(c, a)
  BY <1>1 DEF DebtsSound, DebtSound
<1>4. ASSUME NEW a \in Agents \ loose
      PROVE  debt[c][a] >= 0
  <2>1. /\ Sent(log[c], "CreditDrawn", a, Len(log[c])) = 0
        /\ Sent(log[c], "CreditRepaid", a, Len(log[c])) = 0
    BY <1>2, SentAtEnd
  <2>2. Sent(log[c], "CreditDrawn", a, Len(log[c]))
          <= debt[c][a] + Sent(log[c], "CreditRepaid", a, Len(log[c]))
    BY <1>2, <1>3 DEF DebtSound
  <2>3. QED
    BY <1>2, <2>1, <2>2
<1>5. QED
  BY <1>2, <1>3, <1>4

\* An event e, and the debt that goes with it.
LEMMA DebtFollows ==
  ASSUME LogInv, NEW c \in Chains, NEW e \in Event, log'[c] = Append(log[c], e),
         NEW b \in Agents, debt[c][b] \in Int, DebtSound(c, b), debt'[c][b] \in Int,
         debt'[c][b] >= 0,
         Counted("CreditDrawn", b, e) - Counted("CreditRepaid", b, e)
           <= debt'[c][b] - debt[c][b]
  PROVE  DebtSound(c, b)'
<1>1. log[c] \in Seq(Event) /\ Len(log[c]) \in Nat
  BY LogTypes
<1> DEFINE l == log[c]
           m == Append(log[c], e)
<1>2. m \in Seq(Event) /\ Len(m) = Len(l) + 1
  BY <1>1
<1>3. SUFFICES ASSUME NEW k \in 0..Len(m)
               PROVE  Sent(m, "CreditDrawn", b, k)
                        <= debt'[c][b] + Sent(m, "CreditRepaid", b, k)
  BY DEF DebtSound
<1>4. Counted("CreditDrawn", b, e) \in Nat /\ Counted("CreditRepaid", b, e) \in Nat
  BY ConstantFacts DEF Counted, Event
<1> HIDE DEF m
<1>5. CASE k = Len(m)
  <2>1. Sent(m, "CreditDrawn", b, k) = 0 /\ Sent(m, "CreditRepaid", b, k) = 0
    BY <1>1, <1>2, <1>5, SentAtEnd
  <2>2. QED
    BY <2>1
<1>6. CASE k \in 0..Len(l)
  <2> DEFINE d == Sent(l, "CreditDrawn", b, k)
             p == Sent(l, "CreditRepaid", b, k)
  <2>1. /\ Sent(m, "CreditDrawn", b, k) = d + Counted("CreditDrawn", b, e)
        /\ Sent(m, "CreditRepaid", b, k) = p + Counted("CreditRepaid", b, e)
    BY <1>1, <1>6, SentAdded DEF m
  <2>2. d \in Nat /\ p \in Nat
    BY <1>1, <1>6, SentNat
  <2>3. d <= debt[c][b] + p
    BY <1>6 DEF DebtSound
  <2> DEFINE x == Counted("CreditDrawn", b, e)
             y == Counted("CreditRepaid", b, e)
             v == debt[c][b]
             w == debt'[c][b]
  <2>4. x \in Nat /\ y \in Nat /\ v \in Int /\ w \in Int /\ x - y <= w - v
    BY <1>4
  <2>5. /\ Sent(m, "CreditDrawn", b, k) = d + x /\ Sent(m, "CreditRepaid", b, k) = p + y
        /\ d <= v + p
    BY <2>1, <2>3
  <2> HIDE DEF d, p, x, y, v, w
  <2>6. d + x <= w + (p + y)
    BY <2>2, <2>4, <2>5
  <2>7. QED
    BY <2>5, <2>6 DEF w
<1>7. QED
  BY <1>1, <1>2, <1>5, <1>6

LEMMA DebtStays ==
  ASSUME NEW c, NEW b, DebtSound(c, b), log'[c] = log[c], debt'[c][b] = debt[c][b]
  PROVE  DebtSound(c, b)'
BY DEF DebtSound

\* Where nothing happens on the relay chains.
LEMMA DebtsStay ==
  ASSUME LogInv, [Next]_vars, loose \subseteq loose', UNCHANGED log,
         \A c \in Chains : debt'[c] = debt[c],
         \A a \in Agents \ loose' : flareUsd'[a] >= 0
  PROVE  DebtsSound'
<1>1. SUFFICES ASSUME NEW a \in Agents \ loose', NEW c \in Chains
               PROVE  DebtSound(c, a)'
  BY DEF DebtsSound, DebtSound
<1>2. DebtSound(c, a) /\ log'[c] = log[c] /\ debt'[c][a] = debt[c][a]
  BY LogTypes
<1>3. QED
  BY <1>2, DebtStays

LEMMA VaultMoves ==
  ASSUME LogInv, [Next]_vars, NEW c \in Chains, NEW a \in Agents, NEW e \in Event,
         Emit(c, e), e.agent = a, loose \subseteq loose', UNCHANGED flareUsd,
         NEW y, debt' = [debt EXCEPT ![c][a] = y],
         a \notin loose' => y >= 0 /\ Counted("CreditDrawn", a, e) - Counted("CreditRepaid", a, e)
                                        <= y - debt[c][a]
  PROVE  DebtsSound'
<1>1. TypeOK /\ log \in [Chains -> Seq(Event)] /\ debt \in [AllChains -> [Agents -> Int]]
      /\ Chains \subseteq AllChains
  BY LogInvParts DEF TypeOK, AllChains
<1>2. log' = [log EXCEPT ![c] = Append(@, e)]
  BY DEF Emit
<1>3. SUFFICES ASSUME NEW b \in Agents \ loose', NEW d \in Chains
               PROVE  flareUsd'[b] >= 0 /\ DebtSound(d, b)'
  <2>1. Chains # {}
    BY OmnichainConstants
  <2>2. QED
    BY <1>3, <2>1 DEF DebtsSound, DebtSound
<1>4. flareUsd'[b] >= 0 /\ DebtSound(d, b) /\ debt[d][b] >= 0 /\ debt[d][b] \in Int
  BY LogTypes
<1>5. CASE d # c
  <2>1. log'[d] = log[d] /\ debt'[d] = debt[d]
    BY <1>1, <1>2, <1>5
  <2>2. QED
    BY <1>4, <2>1, DebtStays
<1>6. CASE d = c
  <2>1. log'[c] = Append(log[c], e)
    BY <1>1, <1>2
  <2>2. TypeOK'
    BY LogInvParts, StepInv DEF IInv
  <2>3. debt'[c][b] \in Int
    BY <2>2 DEF TypeOK, AllChains
  <2>4. debt'[c][a] = y /\ (b # a => debt'[c][b] = debt[c][b])
    BY <1>1
  <2>5. /\ debt'[c][b] >= 0
        /\ Counted("CreditDrawn", b, e) - Counted("CreditRepaid", b, e)
             <= debt'[c][b] - debt[c][b]
    <3>1. CASE b = a
      BY <2>4, <3>1
    <3>2. CASE b # a
      <4>1. Counted("CreditDrawn", b, e) = 0 /\ Counted("CreditRepaid", b, e) = 0
        BY <3>2 DEF Counted
      <4>2. QED
        BY <1>4, <1>6, <2>4, <3>2, <4>1
    <3>3. QED
      BY <3>1, <3>2
  <2>6. QED
    BY <1>4, <1>6, <2>1, <2>3, <2>5, DebtFollows
<1>7. QED
  BY <1>5, <1>6

LEMMA VaultDebts ==
  ASSUME LogInv, [Next]_vars, Vault
  PROVE  DebtsSound'
<1>1. TypeOK
  BY LogInvParts
<1>2. ASSUME NEW n \in Notes, NEW amount \in Amounts, DrawOnNote(n, amount)
      PROVE  DebtsSound'
  <2>1. PICK c \in Chains, a \in Agents : c = notes[n].chain /\ a = notes[n].agent
    BY <1>1, NoteTypes
  <2> DEFINE e == [type |-> "CreditDrawn", agent |-> a, note |-> n, amount |-> amount]
             y == debt[c][a] + amount
  <2>2. /\ e \in Event /\ Emit(c, e) /\ debt' = [debt EXCEPT ![c][a] = y]
        /\ loose \subseteq loose' /\ UNCHANGED flareUsd
    BY <1>2, <2>1 DEF Event, DrawOnNote
  <2>3. /\ e.agent = a /\ Counted("CreditDrawn", a, e) = amount
        /\ Counted("CreditRepaid", a, e) = 0
    BY DEF Counted
  <2>4. amount \in Nat /\ debt[c][a] \in Int
    BY LogTypes, ConstantFacts
  <2>5. a \notin loose' => debt[c][a] >= 0
    BY <2>2, LogTypes
  <2>6. a \notin loose' =>
          y >= 0 /\ Counted("CreditDrawn", a, e) - Counted("CreditRepaid", a, e)
                      <= y - debt[c][a]
    BY <2>3, <2>4, <2>5
  <2> HIDE DEF e, y
  <2>7. QED
    BY <2>2, <2>3, <2>6, VaultMoves
<1>3. ASSUME NEW c \in Chains, NEW a \in Agents, NEW amount \in Amounts,
             RepayVault(c, a, amount)
      PROVE  DebtsSound'
  <2> DEFINE e == [type |-> "CreditRepaid", agent |-> a, note |-> NoNote, amount |-> amount]
             paid == Lesser(amount, debt[c][a])
             y == debt[c][a] - paid
  <2>1. /\ e \in Event /\ Emit(c, e) /\ debt' = [debt EXCEPT ![c][a] = y]
        /\ loose' = (IF amount > paid THEN loose \cup {a} ELSE loose)
        /\ UNCHANGED flareUsd
    BY <1>3 DEF Event, RepayVault
  <2>2. /\ e.agent = a /\ Counted("CreditDrawn", a, e) = 0
        /\ Counted("CreditRepaid", a, e) = amount
    BY DEF Counted
  <2>3. amount \in Nat /\ debt[c][a] \in Int
    BY LogTypes, ConstantFacts
  <2>4. loose \subseteq loose' /\ (a \notin loose' => ~(amount > paid))
    BY <2>1
  <2>5. ~(amount > paid) => paid = amount /\ amount <= debt[c][a]
    BY <2>3 DEF Lesser
  <2>6. a \notin loose' =>
          y >= 0 /\ Counted("CreditDrawn", a, e) - Counted("CreditRepaid", a, e)
                      <= y - debt[c][a]
    <3> HIDE DEF paid, e
    <3>1. QED
      BY <2>2, <2>3, <2>4, <2>5
  <2> HIDE DEF e, y
  <2>7. QED
    BY <2>1, <2>2, <2>4, <2>6, VaultMoves
<1>4. QED
  BY <1>2, <1>3 DEF Vault

\* What a request does to the dollars drawn on Flare.
LEMMA FlareDollars ==
  ASSUME LogInv, [Next]_vars, FlareRequest
  PROVE  /\ loose \subseteq loose'
         /\ \A c \in Chains : debt'[c] = debt[c]
         /\ \A a \in Agents \ loose' : flareUsd'[a] >= 0
<1>1. /\ TypeOK /\ IInv /\ Flare \notin Chains
      /\ debt \in [AllChains -> [Agents -> Int]] /\ flareUsd \in [Agents -> Int]
  BY LogInvParts, OmnichainConstants DEF TypeOK
<1>2. PICK r \in Requests :
        \/ \E a \in Agents, amount \in Amounts :
             \/ \E price \in Prices : AuthorizeDraw(r, a, amount, price)
             \/ StartRepay(r, a, amount)
        \/ \E price \in Prices : CommitDraw(r, price)
        \/ DrawExecuted(r) \/ DrawFailed(r) \/ BookDraw(r)
        \/ RepayExecuted(r) \/ RepayFailed(r) \/ BookRepay(r)
  BY DEF FlareRequest
<1>3. \A a \in Agents \ loose : flareUsd[a] >= 0
  BY LogInvParts DEF DebtsSound
<1>4. \A c \in Chains : debt'[c] = debt[c]
  <2>1. \/ debt' = debt \/ \E a \in Agents : \E y : debt' = [debt EXCEPT ![Flare][a] = y]
    <3>1. request[r].agent \in Agents
      BY <1>1 DEF TypeOK, Request
    <3>2. QED
      BY <1>2, <3>1 DEF AuthorizeDraw, StartRepay, CommitDraw, DrawExecuted, DrawFailed,
         BookDraw, RepayExecuted, RepayFailed, BookRepay, vaults
  <2>2. QED
    BY <1>1, <2>1 DEF AllChains
<1>5. CASE UNCHANGED <<flareUsd, loose>>
  BY <1>3, <1>4, <1>5
<1>6. CASE BookDraw(r)
  <2>1. /\ loose' = loose /\ request[r].agent \in Agents /\ request[r].usd \in Nat
        /\ \/ flareUsd' = flareUsd
           \/ flareUsd' = [flareUsd EXCEPT ![request[r].agent] = @ + request[r].usd]
    BY <1>1, <1>6 DEF BookDraw, TypeOK, Request
  <2>2. QED
    BY <1>1, <1>3, <1>4, <2>1
<1>7. CASE BookRepay(r)
  <2>1. PICK a \in Agents : a = request[r].agent
    BY <1>1 DEF TypeOK, Request
  <2>2. Release(r) \in Nat
    BY <1>1, <1>7, ReleaseNat DEF BookRepay
  <2>3. /\ flareUsd' = [flareUsd EXCEPT ![a] = @ - Release(r)]
        /\ loose' = IF flareUsd[a] < Release(r) THEN loose \cup {a} ELSE loose
    BY <1>7, <2>1 DEF BookRepay
  <2>4. QED
    BY <1>1, <1>3, <1>4, <2>2, <2>3
<1>8. QED
  <2>1. CASE ~(BookDraw(r) \/ BookRepay(r))
    <3>1. UNCHANGED <<flareUsd, loose>>
      BY <1>2, <2>1 DEF AuthorizeDraw, StartRepay, CommitDraw, DrawExecuted, DrawFailed,
         RepayExecuted, RepayFailed, history
    <3>2. QED
      BY <1>5, <3>1
  <2>2. QED
    BY <1>6, <1>7, <2>1

\* No chain takes back more than it lent.
LEMMA DebtsSoundStep ==
  ASSUME LogInv, [Next]_vars
  PROVE  DebtsSound'
<1>1. CASE Root \/ Relay \/ UNCHANGED vars
  <2>1. UNCHANGED <<log, debt, flareUsd>> /\ loose \subseteq loose'
    BY <1>1 DEF Root, RaiseCap, Freeze, IssueCan, RevokeCan, Expire, Relay, StartSync, RouteDraw,
       RouteRepay, AbandonSync, FinishSync, vaults, relayer, history, vars
  <2>2. \A a \in Agents \ loose' : flareUsd'[a] >= 0
    BY <2>1, LogInvParts DEF DebtsSound
  <2>3. QED
    BY <2>1, <2>2, DebtsStay
<1>2. CASE FlareRequest
  BY <1>2, FlareDollars, FlareApart, DebtsStay
<1>3. QED
  BY <1>1, <1>2, VaultDebts DEF Next

LEMMA LogStep ==
  ASSUME LogInv, [Next]_vars
  PROVE  LogInv'
BY ForwardStep, DrawsLoggedStep, DebtsSoundStep DEF LogInv

LEMMA LogInit == Init => LogInv
<1> SUFFICES ASSUME Init PROVE LogInv
  OBVIOUS
<1>1. SyncsForward
  BY DEF Init, SyncsForward, Syncing, NoSync
<1>2. DrawsLogged
  BY DEF Init, DrawsLogged
<1>3. DebtsSound
  <2>1. \A a \in Agents : flareUsd[a] = 0
    BY DEF Init
  <2>2. ASSUME NEW a \in Agents, NEW c \in Chains, NEW k \in 0..Len(log[c])
        PROVE  Sent(log[c], "CreditDrawn", a, k)
                 <= debt[c][a] + Sent(log[c], "CreditRepaid", a, k)
    <3>1. log[c] = <<>> /\ debt[c][a] = 0
      BY DEF Init, AllChains
    <3>2. log[c] \in Seq(Event) /\ k \in Nat /\ k >= Len(log[c])
      BY <2>2, <3>1
    <3>3. /\ Sent(log[c], "CreditDrawn", a, k) = 0
          /\ Sent(log[c], "CreditRepaid", a, k) = 0
      BY <3>2, SentAtEnd
    <3>4. QED
      BY <3>1, <3>3
  <2>3. QED
    BY <2>1, <2>2 DEF DebtsSound
<1>4. QED
  BY <1>1, <1>2, <1>3, BackedInit DEF LogInv, ForwardInv

-------------------------------------------------------------------------------
(* The books *)

\* What the root will have to book for an agent on a chain.
Due(c, a) == debt[c][a] + UnbookedRepayments(c, a)

Dues(a) == SumOf(Chains, LAMBDA c : Due(c, a))

\* The books as one equation per agent.
LEMMA BooksAre ==
  /\ BooksAgree <=>
       \A a \in Agents \ loose :
         exposure[a].outstanding + UnbookedDraws(a) = Dues(a) + flareUsd[a]
  /\ BooksAgree' <=>
       \A a \in Agents \ loose' :
         exposure'[a].outstanding + UnbookedDraws(a)' = Dues(a)' + flareUsd'[a]
BY DEF BooksAgree, Dues, Due, SumOf

\* What is due on a chain is a number.
LEMMA DueTypes ==
  ASSUME LogInv, NEW a \in Agents
  PROVE  \A c \in Chains : Due(c, a) \in Int /\ UnbookedRepayments(c, a) \in Nat
<1>1. SUFFICES ASSUME NEW c \in Chains
               PROVE  Due(c, a) \in Int /\ UnbookedRepayments(c, a) \in Nat
  OBVIOUS
<1>2. log[c] \in Seq(Event) /\ debt[c][a] \in Int
  BY LogTypes
<1>3. Booked(c) \in Nat
  BY RelayTypes, LogInvParts
<1>4. Sent(log[c], "CreditRepaid", a, Booked(c)) \in Nat
  BY <1>2, <1>3, SentNat
<1>5. UnbookedRepayments(c, a) \in Nat
  BY <1>4, UnbookedAreSent
<1>6. QED
  BY <1>2, <1>5 DEF Due

LEMMA DueTypesNext ==
  ASSUME LogInv, [Next]_vars, NEW a \in Agents
  PROVE  \A c \in Chains : Due(c, a)' \in Int /\ UnbookedRepayments(c, a)' \in Nat
<1>1. SUFFICES ASSUME NEW c \in Chains
               PROVE  Due(c, a)' \in Int /\ UnbookedRepayments(c, a)' \in Nat
  OBVIOUS
<1>2. TypeOK' /\ SyncsInLog' /\ SyncsForward'
  BY LogStep, LogInvParts, StepInv, ForwardStep DEF IInv, ForwardInv
<1>3. log'[c] \in Seq(Event) /\ debt'[c][a] \in Int /\ Len(log'[c]) \in Nat
      /\ checkpoint'[c] \in Nat /\ sync'[c].next \in Nat
  <2>1. /\ log' \in [Chains -> Seq(Event)] /\ debt' \in [AllChains -> [Agents -> Int]]
        /\ checkpoint' \in [Chains -> Nat] /\ sync' \in [Chains -> [next: Nat, last: Nat]]
    BY <1>2 DEF TypeOK
  <2>2. QED
    BY <2>1 DEF AllChains
<1>4. Booked(c)' \in Nat
  <2>1. Syncing(c)' => sync'[c].next >= 1
    BY <1>2 DEF SyncsInLog, Syncing
  <2>2. QED
    BY <1>3, <2>1 DEF Booked, Syncing
<1>5. Sent(log'[c], "CreditRepaid", a, Booked(c)') \in Nat
  BY <1>3, <1>4, SentNat
<1>6. UnbookedRepayments(c, a)' \in Nat
  BY <1>5, UnbookedAreSent
<1>7. QED
  BY <1>3, <1>6 DEF Due

\* What is due moves with one chain.
LEMMA DuesMove ==
  ASSUME LogInv, [Next]_vars, NEW a \in Agents, NEW c \in Chains,
         \A d \in Chains \ {c} : Due(d, a)' = Due(d, a)
  PROVE  /\ Dues(a)' = Dues(a) - Due(c, a) + Due(c, a)'
         /\ Dues(a) \in Int /\ Due(c, a) \in Int /\ Due(c, a)' \in Int
<1> DEFINE f == [d \in Chains |-> Due(d, a)]
           g == [d \in Chains |-> Due(d, a)']
<1>1. /\ \A d \in Chains : f[d] \in Int /\ g[d] \in Int
      /\ \A d \in Chains \ {c} : f[d] = g[d]
      /\ f[c] = Due(c, a) /\ g[c] = Due(c, a)' /\ IsFiniteSet(Chains)
  BY DueTypes, DueTypesNext, FiniteWorld
<1>2. Dues(a) = SumFunctionOnSet(f, Chains) /\ Dues(a)' = SumFunctionOnSet(g, Chains)
  BY DEF Dues, SumOf
<1> HIDE DEF f, g
<1>3. SumFunctionOnSet(g, Chains) = SumFunctionOnSet(f, Chains) - f[c] + g[c]
  BY <1>1, SumUpdate
<1>4. SumFunctionOnSet(f, Chains) \in Int
  BY <1>1, SumInt
<1>5. QED
  BY <1>1, <1>2, <1>3, <1>4

\* Nothing changes what is due when no chain does.
LEMMA DuesStay ==
  ASSUME LogInv, [Next]_vars, NEW a \in Agents, \A d \in Chains : Due(d, a)' = Due(d, a)
  PROVE  Dues(a)' = Dues(a) /\ Dues(a) \in Int
<1>1. PICK c \in Chains : TRUE
  BY OmnichainConstants
<1>2. /\ Dues(a)' = Dues(a) - Due(c, a) + Due(c, a)' /\ Due(c, a)' = Due(c, a)
      /\ Dues(a) \in Int /\ Due(c, a) \in Int
  BY <1>1, DuesMove
<1>3. QED
  BY <1>2

\* A chain whose log, debts and bookings stay.
LEMMA DueStays ==
  ASSUME NEW c, NEW a, log'[c] = log[c], debt'[c][a] = debt[c][a], Booked(c)' = Booked(c)
  PROVE  Due(c, a)' = Due(c, a) /\ UnbookedRepayments(c, a)' = UnbookedRepayments(c, a)
<1>1. UnbookedRepayments(c, a)' = UnbookedRepayments(c, a)
  BY UnbookedAreSent
<1>2. QED
  BY <1>1 DEF Due

\* Drawn, and still to be booked, on one chain.
DrawnOn(c, a) == {n \in IssuedTo(a) : notes[n].chain = c}

UnbookedOn(c, a) == SumFunctionOnSet([n \in IssuedTo(a) |-> drawn[n]], DrawnOn(c, a))

\* The draws to be booked, chain by chain.
LEMMA UnbookedByChain ==
  ASSUME LogInv, NEW a \in Agents
  PROVE  UnbookedDraws(a) = SumFunctionOnSet([c \in Chains |-> UnbookedOn(c, a)], Chains)
<1> DEFINE S == IssuedTo(a)
           f == [n \in S |-> drawn[n]]
           k == [n \in S |-> notes[n].chain]
           fiber(c) == {n \in S : k[n] = c}
<1>1. TypeOK /\ S \subseteq Notes /\ IsFiniteSet(S) /\ IsFiniteSet(Chains)
  <2>1. S \subseteq Notes
    BY DEF IssuedTo
  <2>2. QED
    BY <2>1, LogInvParts, FiniteWorld, FS_Subset
<1>2. \A n \in S : f[n] \in Int /\ k[n] \in Chains /\ k[n] = notes[n].chain
  BY <1>1, NoteTypes
<1>3. \A c \in Chains : fiber(c) = DrawnOn(c, a)
  BY <1>2 DEF DrawnOn
<1>4. UnbookedDraws(a) = SumFunctionOnSet(f, S)
  BY DEF UnbookedDraws, SumOf, IssuedTo
<1>5. SumFunctionOnSet(f, S) =
        SumFunctionOnSet([c \in Chains |-> SumFunctionOnSet(f, {n \in S : k[n] = c})], Chains)
  <2>1. \A n \in S : f[n] \in Int /\ k[n] \in Chains
    BY <1>2
  <2> HIDE DEF f, k, S
  <2>2. QED
    BY <1>1, <2>1, SumFibers
<1>6. [c \in Chains |-> SumFunctionOnSet(f, {n \in S : k[n] = c})]
        = [c \in Chains |-> UnbookedOn(c, a)]
  BY <1>3 DEF UnbookedOn
<1>7. QED
  BY <1>4, <1>5, <1>6

\* Each draw still to be booked has an event of its own among those still to be booked.
LEMMA UnbookedLogged ==
  ASSUME LogInv, NEW a \in Agents, NEW c \in Chains
  PROVE  /\ UnbookedOn(c, a) \in Nat
         /\ UnbookedOn(c, a) <= Sent(log[c], "CreditDrawn", a, Booked(c))
<1> DEFINE S == DrawnOn(c, a)
           T == Places(log[c], "CreditDrawn", a, Booked(c))
           f == [n \in IssuedTo(a) |-> drawn[n]]
           g == [i \in T |-> log[c][i].amount]
           OfNote(i, n) == i \in T /\ log[c][i].note = n
           h == [n \in S |-> CHOOSE i : OfNote(i, n)]
<1>1. /\ TypeOK /\ log[c] \in Seq(Event) /\ Booked(c) \in Nat
      /\ DrawsLogged /\ LogFits
  BY LogTypes, RelayTypes, LogInvParts
<1>2. S \subseteq Notes /\ S \subseteq IssuedTo(a) /\ IsFiniteSet(S)
  <2>1. S \subseteq Notes /\ S \subseteq IssuedTo(a)
    BY DEF DrawnOn, IssuedTo
  <2>2. QED
    BY <2>1, FiniteWorld, FS_Subset
<1>3. \A n \in S : f[n] \in Nat /\ f[n] = drawn[n]
  BY <1>1, <1>2, NoteTypes
<1>4. IsFiniteSet(T) /\ \A i \in T : g[i] \in Nat /\ g[i] = log[c][i].amount /\ i \in 1..Len(log[c])
  BY <1>1, PlacesFinite
<1>5. ASSUME NEW n \in S, f[n] > 0
      PROVE  OfNote(h[n], n)
  <2>1. notes[n].status = "issued" /\ drawn[n] > 0 /\ notes[n].chain = c
        /\ notes[n].agent = a /\ n \in Notes
    BY <1>2, <1>3, <1>5 DEF DrawnOn, IssuedTo
  <2>2. PICK i \in Booked(c) + 1 .. Len(log[c]) :
          log[c][i].type = "CreditDrawn" /\ log[c][i].note = n
    BY <1>1, <2>1 DEF DrawsLogged
  <2>3. i \in 1..Len(log[c])
    BY <1>1, <2>2
  <2>4. log[c][i].agent = a
    BY <1>1, <2>1, <2>2, <2>3 DEF LogFits
  <2>5. OfNote(i, n)
    BY <2>2, <2>4 DEF Places
  <2> HIDE DEF OfNote
  <2>6. QED
    BY <2>5
<1>6. ASSUME NEW n \in S, f[n] > 0
      PROVE  h[n] \in T /\ f[n] <= g[h[n]]
  <2>1. h[n] \in T /\ log[c][h[n]].note = n
    BY <1>5, <1>6
  <2>2. h[n] \in 1..Len(log[c]) /\ log[c][h[n]].type = "CreditDrawn"
        /\ g[h[n]] = log[c][h[n]].amount
    <3>1. h[n] \in 1..Len(log[c]) /\ g[h[n]] = log[c][h[n]].amount
      BY <1>4, <2>1
    <3>2. log[c][h[n]].type = "CreditDrawn"
      BY <2>1 DEF Places
    <3>3. QED
      BY <3>1, <3>2
  <2> HIDE DEF h
  <2>3. drawn[n] = log[c][h[n]].amount
    BY <1>1, <2>1, <2>2 DEF LogFits
  <2>4. QED
    BY <1>3, <1>4, <2>1, <2>2, <2>3
<1>7. ASSUME NEW m \in S, NEW n \in S, f[m] > 0, f[n] > 0, h[m] = h[n]
      PROVE  m = n
  <2>1. log[c][h[m]].note = m /\ log[c][h[n]].note = n
    BY <1>5, <1>7
  <2>2. QED
    BY <1>7, <2>1
<1>8. /\ UnbookedOn(c, a) = SumFunctionOnSet(f, S)
      /\ Sent(log[c], "CreditDrawn", a, Booked(c)) = SumFunctionOnSet(g, T)
  BY DEF UnbookedOn, Sent, SumOf
<1>9. \A n \in S : f[n] \in Nat
  BY <1>3
<1>10. \A i \in T : g[i] \in Nat
  BY <1>4
<1> HIDE DEF S, T, f, g, h, OfNote
<1>11. SumFunctionOnSet(f, S) <= SumFunctionOnSet(g, T)
  BY <1>2, <1>4, <1>6, <1>7, <1>9, <1>10, SumInjection
<1>12. SumFunctionOnSet(f, S) \in Nat
  BY <1>2, <1>9, SumNat
<1>13. QED
  BY <1>8, <1>11, <1>12

\* On each chain what is due covers what is drawn there and not booked yet.
LEMMA DueCovers ==
  ASSUME LogInv, NEW a \in Agents \ loose, NEW c \in Chains
  PROVE  UnbookedOn(c, a) <= Due(c, a)
<1>1. /\ log[c] \in Seq(Event) /\ debt[c][a] \in Int /\ DebtSound(c, a)
      /\ Booked(c) \in 0..Len(log[c]) /\ Booked(c) \in Nat
  BY LogTypes, RelayTypes, LogInvParts
<1> DEFINE d == Sent(log[c], "CreditDrawn", a, Booked(c))
           p == Sent(log[c], "CreditRepaid", a, Booked(c))
<1>2. d \in Nat /\ p \in Nat
  BY <1>1, SentNat
<1>3. d <= debt[c][a] + p
  BY <1>1 DEF DebtSound
<1>4. UnbookedOn(c, a) \in Nat /\ UnbookedOn(c, a) <= d
  BY UnbookedLogged
<1>5. Due(c, a) = debt[c][a] + p
  BY UnbookedAreSent DEF Due
<1> HIDE DEF d, p
<1>6. QED
  BY <1>1, <1>2, <1>3, <1>4, <1>5

\* A repayment about to be booked takes off no more than is outstanding.
LEMMA RepaymentCovered ==
  ASSUME LogInv, BooksAgree, NEW c \in Chains, Booked(c) < Len(log[c]),
         NEW a \in Agents \ loose, log[c][Booked(c) + 1].type = "CreditRepaid",
         log[c][Booked(c) + 1].agent = a
  PROVE  log[c][Booked(c) + 1].amount <= exposure[a].outstanding
<1> DEFINE l == log[c]
           k == Booked(c)
           m == l[k + 1].amount
           f == [d \in Chains |-> UnbookedOn(d, a)]
           g == [d \in Chains |-> IF d = c THEN Due(c, a) - m ELSE Due(d, a)]
           h == [d \in Chains |-> Due(d, a)]
<1>1. /\ l \in Seq(Event) /\ Len(l) \in Nat /\ k \in Nat /\ k < Len(l)
      /\ k + 1 \in 0..Len(l) /\ k + 1 \in 1..Len(l)
      /\ debt[c][a] \in Int /\ DebtSound(c, a)
  BY LogTypes, RelayTypes, LogInvParts
<1>2. m \in Nat
  BY <1>1, EventAmounts
<1>3. UnbookedOn(c, a) <= Due(c, a) - m
  <2> DEFINE d  == Sent(l, "CreditDrawn", a, k)
             d1 == Sent(l, "CreditDrawn", a, k + 1)
             p  == Sent(l, "CreditRepaid", a, k)
             p1 == Sent(l, "CreditRepaid", a, k + 1)
  <2>1. d \in Nat /\ d1 \in Nat /\ p \in Nat /\ p1 \in Nat
    BY <1>1, SentNat
  <2>2. /\ d = Counted("CreditDrawn", a, l[k + 1]) + d1
        /\ p = Counted("CreditRepaid", a, l[k + 1]) + p1
    BY <1>1, SentFirst
  <2>3. /\ Counted("CreditDrawn", a, l[k + 1]) = 0
        /\ Counted("CreditRepaid", a, l[k + 1]) = m
    BY DEF Counted
  <2>4. d1 <= debt[c][a] + p1
    BY <1>1 DEF DebtSound
  <2>5. UnbookedOn(c, a) \in Nat /\ UnbookedOn(c, a) <= d
    BY UnbookedLogged
  <2>6. Due(c, a) = debt[c][a] + p
    BY UnbookedAreSent DEF Due
  <2>7. d = d1 /\ p = m + p1
    BY <2>1, <2>2, <2>3
  <2> HIDE DEF d, d1, p, p1, m, k, l
  <2>8. QED
    BY <1>1, <1>2, <2>1, <2>4, <2>5, <2>6, <2>7
<1>4. \A d \in Chains : Due(d, a) \in Int /\ UnbookedOn(d, a) \in Nat
                       /\ UnbookedOn(d, a) <= Due(d, a)
  BY DueTypes, UnbookedLogged, DueCovers
<1> HIDE DEF m
<1>5. \A d \in Chains : f[d] \in Int /\ g[d] \in Int /\ f[d] <= g[d]
  <2>1. SUFFICES ASSUME NEW d \in Chains
                 PROVE  f[d] \in Int /\ g[d] \in Int /\ f[d] <= g[d]
    OBVIOUS
  <2>2. f[d] = UnbookedOn(d, a) /\ g[d] = (IF d = c THEN Due(c, a) - m ELSE Due(d, a))
    OBVIOUS
  <2>3. CASE d = c
    BY <1>2, <1>3, <1>4, <2>2, <2>3
  <2>4. CASE d # c
    BY <1>4, <2>2, <2>4
  <2>5. QED
    BY <2>3, <2>4
<1>6. /\ UnbookedDraws(a) = SumFunctionOnSet(f, Chains)
      /\ Dues(a) = SumFunctionOnSet(h, Chains) /\ IsFiniteSet(Chains)
  BY UnbookedByChain, FiniteWorld DEF Dues, SumOf
<1>7. /\ \A d \in Chains : h[d] \in Int /\ g[d] \in Int
      /\ \A d \in Chains \ {c} : h[d] = g[d]
      /\ h[c] = Due(c, a) /\ g[c] = Due(c, a) - m /\ Due(c, a) \in Int
  BY <1>4, <1>5
<1> HIDE DEF f, g, h
<1>8. SumFunctionOnSet(f, Chains) <= SumFunctionOnSet(g, Chains)
  BY <1>5, <1>6, SumMonotone
<1>9. SumFunctionOnSet(g, Chains) = SumFunctionOnSet(h, Chains) - h[c] + g[c]
  BY <1>6, <1>7, SumUpdate
<1>10. /\ SumFunctionOnSet(f, Chains) \in Int /\ SumFunctionOnSet(g, Chains) \in Int
       /\ SumFunctionOnSet(h, Chains) \in Int
  BY <1>5, <1>6, <1>7, SumInt
<1>11. UnbookedDraws(a) <= Dues(a) - m
  BY <1>2, <1>6, <1>7, <1>8, <1>9, <1>10
<1>12. /\ exposure[a].outstanding + UnbookedDraws(a) = Dues(a) + flareUsd[a]
       /\ flareUsd[a] \in Int /\ flareUsd[a] >= 0 /\ exposure[a].outstanding \in Nat
  <2>1. exposure[a].outstanding + UnbookedDraws(a) = Dues(a) + flareUsd[a]
    BY BooksAre
  <2>2. flareUsd[a] \in Int /\ flareUsd[a] >= 0
    BY LogTypes
  <2>3. exposure[a].outstanding \in Nat
    BY LogInvParts, EntryAmounts, 0 \in Nat
  <2>4. QED
    BY <2>1, <2>2, <2>3
<1>13. UnbookedDraws(a) \in Int /\ Dues(a) \in Int
  BY <1>6, <1>10
<1>14. m <= exposure[a].outstanding
  BY <1>2, <1>11, <1>12, <1>13
<1>15. QED
  BY <1>14 DEF m

BooksInv == LogInv /\ BooksAgree

LEMMA BooksTypes ==
  ASSUME BooksInv, [Next]_vars
  PROVE  /\ TypeOK /\ TypeOK' /\ BackedInv /\ ForwardInv /\ LogInv /\ NotesSound
         /\ \A b \in Agents : /\ Sound(exposure[b]) /\ exposure[b].outstanding \in Nat
                             /\ UnbookedDraws(b) \in Int /\ flareUsd[b] \in Int
<1>1. /\ TypeOK /\ BackedInv /\ ForwardInv /\ LogInv /\ NotesSound
      /\ \A b \in Agents : Sound(exposure[b])
  BY LogInvParts DEF BooksInv
<1>2. TypeOK'
  BY <1>1, StepInv DEF BackedInv, NotesInv, IInv
<1>3. \A b \in Agents : exposure[b].outstanding \in Nat /\ flareUsd[b] \in Int
  BY <1>1, EntryAmounts, 0 \in Nat DEF TypeOK
<1>4. ASSUME NEW b \in Agents
      PROVE  UnbookedDraws(b) \in Int
  <2> DEFINE S == IssuedTo(b)
             f == [n \in S |-> drawn[n]]
  <2>1. S \subseteq Notes /\ IsFiniteSet(S)
    <3>1. S \subseteq Notes
      BY DEF IssuedTo
    <3>2. QED
      BY <3>1, FiniteWorld, FS_Subset
  <2>2. \A n \in S : f[n] \in Int
    BY <1>1, <2>1, NoteTypes
  <2>3. UnbookedDraws(b) = SumFunctionOnSet(f, S)
    BY DEF UnbookedDraws, SumOf, IssuedTo
  <2> HIDE DEF S, f
  <2>4. QED
    BY <2>1, <2>2, <2>3, SumInt
<1>5. QED
  BY <1>1, <1>2, <1>3, <1>4

\* Both sides of the books stay.
LEMMA BooksKept ==
  ASSUME BooksInv, [Next]_vars, loose \subseteq loose',
         \A b \in Agents \ loose' :
           /\ flareUsd'[b] = flareUsd[b]
           /\ exposure'[b].outstanding = exposure[b].outstanding
           /\ UnbookedDraws(b)' = UnbookedDraws(b)
           /\ \A c \in Chains : Due(c, b)' = Due(c, b)
  PROVE  BooksAgree'
<1>1. SUFFICES ASSUME NEW b \in Agents \ loose'
               PROVE  exposure'[b].outstanding + UnbookedDraws(b)' = Dues(b)' + flareUsd'[b]
  BY BooksAre
<1>2. Dues(b)' = Dues(b)
  BY DuesStay DEF BooksInv
<1>3. exposure[b].outstanding + UnbookedDraws(b) = Dues(b) + flareUsd[b]
  BY BooksAre DEF BooksInv
<1>4. QED
  BY <1>2, <1>3

\* Steps that touch neither what is outstanding nor the relay chains.
LEMMA RestBooks ==
  ASSUME BooksInv, [Next]_vars, UNCHANGED <<notes, drawn, log, flareUsd>>,
         loose \subseteq loose',
         \A b \in Agents : exposure'[b].outstanding = exposure[b].outstanding,
         \A c \in Chains : debt'[c] = debt[c] /\ Booked(c)' = Booked(c)
  PROVE  BooksAgree'
<1>1. \A b \in Agents : UnbookedDraws(b)' = UnbookedDraws(b)
  BY NoteSumsStay
<1>2. \A b \in Agents, c \in Chains : Due(c, b)' = Due(c, b)
  BY DueStays
<1>3. QED
  BY <1>1, <1>2, BooksKept

\* Steps of the root on its notes.
LEMMA NoteBooks ==
  ASSUME BooksInv, [Next]_vars, NEW n \in Notes, loose \subseteq loose',
         UNCHANGED <<debt, drawn, log, checkpoint, sync, flareUsd>>,
         \A m \in Notes \ {n} : notes'[m] = notes[m],
         \A b \in Agents : exposure'[b].outstanding = exposure[b].outstanding,
         \/ drawn[n] = 0
         \/ notes'[n].agent = notes[n].agent
            /\ (notes'[n].agent \in loose' \/ notes'[n].status = notes[n].status)
  PROVE  BooksAgree'
<1>1. /\ TypeOK /\ TypeOK' /\ drawn[n] \in Nat
      /\ \A b \in Agents : UnbookedDraws(b) \in Int
  BY BooksTypes, NoteTypes
<1>2. ASSUME NEW b \in Agents \ loose'
      PROVE  UnbookedDraws(b)' = UnbookedDraws(b)
  <2>1. UnbookedDraws(b)' = UnbookedDraws(b)
          - (IF n \in IssuedTo(b) THEN drawn[n] ELSE 0)
          + (IF n \in IssuedTo(b)' THEN drawn'[n] ELSE 0)
    BY <1>1, NoteSums
  <2>2. (IF n \in IssuedTo(b) THEN drawn[n] ELSE 0)
          = (IF n \in IssuedTo(b)' THEN drawn'[n] ELSE 0)
    BY DEF IssuedTo
  <2>3. (IF n \in IssuedTo(b) THEN drawn[n] ELSE 0) \in Int
    BY <1>1
  <2>4. QED
    BY <1>1, <2>1, <2>2, <2>3
<1>3. \A b \in Agents, c \in Chains : Due(c, b)' = Due(c, b)
  BY DueStays, BookedStays
<1>4. QED
  BY <1>2, <1>3, BooksKept

\* The root books nothing by itself.
LEMMA RootOutstanding ==
  ASSUME TypeOK, NotesSound, \A b \in Agents : Sound(exposure[b]), Root
  PROVE  \A b \in Agents : exposure'[b].outstanding = exposure[b].outstanding
<1>1. CASE exposure' = exposure
  BY <1>1
<1>2. ASSUME NEW a \in Agents, NEW f, exposure' = [exposure EXCEPT ![a] = f],
             f.outstanding = exposure[a].outstanding
      PROVE  \A b \in Agents : exposure'[b].outstanding = exposure[b].outstanding
  BY <1>2, EntryMoves
<1>3. ASSUME NEW a \in Agents, NEW cap \in Caps, RaiseCap(a, cap)
      PROVE  \A b \in Agents : exposure'[b].outstanding = exposure[b].outstanding
  <2>1. EnsureAgent(exposure[a], cap).outstanding = exposure[a].outstanding
    BY EntryAmounts, ConstantFacts
  <2>2. QED
    BY <1>2, <1>3, <2>1 DEF RaiseCap
<1>4. ASSUME NEW a \in Agents, Freeze(a)
      PROVE  \A b \in Agents : exposure'[b].outstanding = exposure[b].outstanding
  <2>1. FreezeAgentExposure(exposure[a]).outstanding = exposure[a].outstanding
    BY EntryAmounts, 0 \in Nat
  <2>2. QED
    BY <1>2, <1>4, <2>1 DEF Freeze
<1>5. ASSUME NEW n \in Notes, NEW a \in Agents, NEW c \in Chains, NEW max \in Amounts,
             IssueCan(n, a, c, max)
      PROVE  \A b \in Agents : exposure'[b].outstanding = exposure[b].outstanding
  <2>1. ReserveExposure(exposure[a], max).outstanding = exposure[a].outstanding
    BY EntryAmounts, ConstantFacts
  <2>2. QED
    BY <1>2, <1>5, <2>1 DEF IssueCan
<1>6. ASSUME NEW n \in Notes, RevokeCan(n)
      PROVE  \A b \in Agents : exposure'[b].outstanding = exposure[b].outstanding
  <2>1. PICK a \in Agents : a = notes[n].agent /\ notes[n].max_draw \in Nat
    BY NoteTypes
  <2>2. ReleaseReservation(exposure[a], notes[n].max_draw).outstanding
          = exposure[a].outstanding
    BY <2>1, EntryAmounts
  <2>3. QED
    BY <1>2, <1>6, <2>1, <2>2 DEF RevokeCan
<1>7. QED
  BY <1>1, <1>3, <1>4, <1>5, <1>6 DEF Root, Expire

LEMMA RootBooks ==
  ASSUME BooksInv, [Next]_vars, Root
  PROVE  BooksAgree'
<1>1. /\ TypeOK /\ NotesSound /\ notes \in [Notes -> Note]
      /\ \A b \in Agents : Sound(exposure[b])
  BY BooksTypes DEF TypeOK
<1>2. UNCHANGED <<debt, drawn, log, checkpoint, sync, flareUsd>> /\ loose \subseteq loose'
  BY DEF Root, RaiseCap, Freeze, IssueCan, RevokeCan, Expire, vaults, relayer, history
<1>3. \A b \in Agents : exposure'[b].outstanding = exposure[b].outstanding
  BY <1>1, RootOutstanding
<1>4. CASE \E a \in Agents : (\E cap \in Caps : RaiseCap(a, cap)) \/ Freeze(a)
  <2>1. notes' = notes
    BY <1>4 DEF RaiseCap, Freeze
  <2>2. QED
    BY <1>2, <1>3, <2>1, BookedStays, RestBooks
<1>5. ASSUME NEW n \in Notes, NEW a \in Agents, NEW c \in Chains, NEW max \in Amounts,
             IssueCan(n, a, c, max)
      PROVE  BooksAgree'
  <2>1. drawn[n] = 0 /\ \A m \in Notes \ {n} : notes'[m] = notes[m]
    BY <1>1, <1>5 DEF IssueCan, NotesSound
  <2>2. QED
    BY <1>2, <1>3, <2>1, NoteBooks
<1>6. ASSUME NEW n \in Notes, RevokeCan(n) \/ Expire(n)
      PROVE  BooksAgree'
  <2>1. notes[n] \in Note
    BY <1>1
  <2>2. \A m \in Notes \ {n} : notes'[m] = notes[m]
    BY <1>1, <1>6 DEF RevokeCan, Expire
  <2>3. notes'[n].agent = notes[n].agent
    BY <1>1, <1>6, <2>1 DEF RevokeCan, Expire, Note
  <2>4. drawn[n] = 0 \/ notes'[n].agent \in loose' \/ notes'[n].status = notes[n].status
    <3>1. CASE RevokeCan(n)
      BY <2>3, <3>1 DEF RevokeCan
    <3>2. CASE Expire(n)
      <4>1. notes'[n] = [notes[n] EXCEPT !.expired = TRUE]
        BY <1>1, <3>2 DEF Expire
      <4>2. QED
        BY <2>1, <4>1 DEF Note
    <3>3. QED
      BY <1>6, <3>1, <3>2
  <2>5. QED
    BY <1>2, <1>3, <2>2, <2>3, <2>4, NoteBooks
<1>7. QED
  BY <1>4, <1>5, <1>6 DEF Root

\* What is due on all chains is a number.
LEMMA DuesInt ==
  ASSUME LogInv, NEW b \in Agents
  PROVE  Dues(b) \in Int
<1> DEFINE f == [x \in Chains |-> Due(x, b)]
<1>1. Dues(b) = SumFunctionOnSet(f, Chains) /\ \A x \in Chains : f[x] \in Int
  BY DueTypes DEF Dues, SumOf
<1> HIDE DEF f
<1>2. QED
  BY <1>1, SumInt, FiniteWorld

\* What a new event leaves due, where the debt goes with it.
LEMMA DueFollows ==
  ASSUME BooksInv, [Next]_vars, NEW c \in Chains, NEW e \in Event, Emit(c, e),
         UNCHANGED <<checkpoint, sync>>, NEW b \in Agents
  PROVE  /\ UnbookedRepayments(c, b)' = UnbookedRepayments(c, b) + Counted("CreditRepaid", b, e)
         /\ \A d \in Chains \ {c} : debt'[d][b] = debt[d][b] => Due(d, b)' = Due(d, b)
<1>1. log \in [Chains -> Seq(Event)] /\ log[c] \in Seq(Event)
  BY LogTypes DEF BooksInv
<1>2. log'[c] = Append(log[c], e) /\ \A d \in Chains \ {c} : log'[d] = log[d]
  BY <1>1 DEF Emit
<1>3. Booked(c) \in 0..Len(log[c])
  BY RelayTypes, BooksTypes
<1>4. \A d : Booked(d)' = Booked(d)
  BY BookedStays
<1>5. Sent(log'[c], "CreditRepaid", b, Booked(c)')
        = Sent(log[c], "CreditRepaid", b, Booked(c)) + Counted("CreditRepaid", b, e)
  BY <1>1, <1>2, <1>3, <1>4, SentAdded
<1>6. \A d \in Chains \ {c} : debt'[d][b] = debt[d][b] => Due(d, b)' = Due(d, b)
  BY <1>2, <1>4, DueStays
<1>7. QED
  BY <1>5, <1>6, UnbookedAreSent

LEMMA DrawOnNoteBooks ==
  ASSUME BooksInv, [Next]_vars, NEW n \in Notes, NEW amount \in Amounts, DrawOnNote(n, amount)
  PROVE  BooksAgree'
<1>1. /\ TypeOK /\ TypeOK' /\ NotesSound /\ debt \in [AllChains -> [Agents -> Int]]
      /\ drawn \in [Notes -> Nat] /\ Chains \subseteq AllChains /\ amount \in Int
      /\ \A b \in Agents : UnbookedDraws(b) \in Int /\ exposure[b].outstanding \in Nat
                           /\ flareUsd[b] \in Int
  <2>1. Chains \subseteq AllChains /\ amount \in Int
    BY ConstantFacts DEF AllChains
  <2>2. debt \in [AllChains -> [Agents -> Int]] /\ drawn \in [Notes -> Nat]
    BY BooksTypes DEF TypeOK
  <2>3. QED
    BY BooksTypes, <2>1, <2>2
<1>2. PICK c \in Chains, a \in Agents : c = notes[n].chain /\ a = notes[n].agent
  BY <1>1, NoteTypes
<1> DEFINE e == [type |-> "CreditDrawn", agent |-> a, note |-> n, amount |-> amount]
<1>3. /\ e \in Event /\ Emit(c, e) /\ UNCHANGED <<exposure, notes, checkpoint, sync, flareUsd>>
      /\ debt' = [debt EXCEPT ![c][a] = @ + amount]
      /\ drawn' = [drawn EXCEPT ![n] = amount] /\ drawn[n] = 0
      /\ loose' = (IF notes[n].status = "revoked" THEN loose \cup {a} ELSE loose)
      /\ notes[n].status # "none"
  BY <1>2 DEF Event, DrawOnNote, root, Unissued
<1>4. \A b : Counted("CreditRepaid", b, e) = 0
  BY DEF Counted
<1> HIDE DEF e
<1>5. SUFFICES ASSUME NEW b \in Agents \ loose'
               PROVE  exposure'[b].outstanding + UnbookedDraws(b)' = Dues(b)' + flareUsd'[b]
  BY BooksAre
<1>6. exposure[b].outstanding + UnbookedDraws(b) = Dues(b) + flareUsd[b]
  BY <1>3, BooksAre DEF BooksInv
<1>7. UnbookedDraws(b)' = UnbookedDraws(b) + IF b = a THEN amount ELSE 0
  <2>1. UnbookedDraws(b)' = UnbookedDraws(b)
          - (IF n \in IssuedTo(b) THEN drawn[n] ELSE 0)
          + (IF n \in IssuedTo(b)' THEN drawn'[n] ELSE 0)
    BY <1>1, <1>3, NoteSums
  <2>2. drawn[n] = 0 /\ drawn'[n] = amount
    BY <1>1, <1>3
  <2>3. n \in IssuedTo(b)' <=> b = a
    <3>1. notes[n].status # "consumed"
      BY <1>1, <1>3 DEF NotesSound
    <3>2. notes[n].status \in {"none", "issued", "consumed", "revoked"}
      BY <1>1, NoteTypes DEF Note
    <3>3. b = a => notes[n].status = "issued"
      BY <1>3, <3>1, <3>2
    <3>4. QED
      BY <1>2, <1>3, <3>3 DEF IssuedTo
  <2>4. QED
    BY <1>1, <2>1, <2>2, <2>3
<1>8. Dues(b)' = Dues(b) + IF b = a THEN amount ELSE 0
  <2>1. /\ \A d \in Chains \ {c} : debt'[d][b] = debt[d][b]
        /\ debt'[c][b] = debt[c][b] + IF b = a THEN amount ELSE 0
    BY <1>1, <1>3
  <2>2. /\ UnbookedRepayments(c, b)' = UnbookedRepayments(c, b) + 0
        /\ \A d \in Chains \ {c} : Due(d, b)' = Due(d, b)
    BY <1>3, <1>4, <2>1, DueFollows
  <2>3. UnbookedRepayments(c, b) \in Nat /\ debt[c][b] \in Int
    BY <1>1, DueTypes DEF BooksInv
  <2>4. Due(c, b)' = Due(c, b) + IF b = a THEN amount ELSE 0
    BY <1>1, <2>1, <2>2, <2>3 DEF Due
  <2>5. /\ Dues(b)' = Dues(b) - Due(c, b) + Due(c, b)'
        /\ Dues(b) \in Int /\ Due(c, b) \in Int
    BY <2>2, DuesMove DEF BooksInv
  <2>6. QED
    BY <1>1, <2>4, <2>5
<1>9. /\ exposure'[b].outstanding = exposure[b].outstanding /\ flareUsd'[b] = flareUsd[b]
      /\ Dues(b) \in Int /\ UnbookedDraws(b) \in Int
      /\ exposure[b].outstanding \in Int /\ flareUsd[b] \in Int
  BY <1>1, <1>3, DuesInt DEF BooksInv
<1> DEFINE m == IF b = a THEN amount ELSE 0
<1>10. m \in Int
  BY <1>1
<1>11. UnbookedDraws(b)' = UnbookedDraws(b) + m /\ Dues(b)' = Dues(b) + m
  BY <1>7, <1>8
<1> HIDE DEF m
<1>12. QED
  BY <1>6, <1>9, <1>10, <1>11

LEMMA RepayVaultBooks ==
  ASSUME BooksInv, [Next]_vars, NEW c \in Chains, NEW a \in Agents, NEW amount \in Amounts,
         RepayVault(c, a, amount)
  PROVE  BooksAgree'
<1> DEFINE e == [type |-> "CreditRepaid", agent |-> a, note |-> NoNote, amount |-> amount]
           paid == Lesser(amount, debt[c][a])
<1>1. /\ TypeOK /\ debt \in [AllChains -> [Agents -> Int]] /\ Chains \subseteq AllChains
      /\ amount \in Int
  <2>1. Chains \subseteq AllChains /\ amount \in Int
    BY ConstantFacts DEF AllChains
  <2>2. debt \in [AllChains -> [Agents -> Int]]
    BY BooksTypes DEF TypeOK
  <2>3. QED
    BY BooksTypes, <2>1, <2>2
<1>2. /\ e \in Event /\ Emit(c, e)
      /\ UNCHANGED <<exposure, notes, drawn, checkpoint, sync, flareUsd>>
      /\ debt' = [debt EXCEPT ![c][a] = @ - paid]
      /\ loose' = (IF amount > paid THEN loose \cup {a} ELSE loose)
  BY DEF Event, RepayVault, root
<1>3. \A b : Counted("CreditRepaid", b, e) = IF b = a THEN amount ELSE 0
  BY DEF Counted
<1>4. ~(amount > paid) => paid = amount
  BY <1>1 DEF Lesser
<1> HIDE DEF e, paid
<1>5. \A b \in Agents : UnbookedDraws(b)' = UnbookedDraws(b)
  BY <1>2, NoteSumsStay
<1>6. ASSUME NEW b \in Agents \ loose', NEW d \in Chains
      PROVE  Due(d, b)' = Due(d, b)
  <2>1. b = a => paid = amount
    BY <1>2, <1>4
  <2>2. /\ \A x \in Chains \ {c} : debt'[x][b] = debt[x][b]
        /\ debt'[c][b] = debt[c][b] - IF b = a THEN amount ELSE 0
    BY <1>1, <1>2, <2>1
  <2>3. /\ UnbookedRepayments(c, b)' = UnbookedRepayments(c, b) + IF b = a THEN amount ELSE 0
        /\ \A x \in Chains \ {c} : Due(x, b)' = Due(x, b)
    BY <1>2, <1>3, <2>2, DueFollows
  <2>4. UnbookedRepayments(c, b) \in Nat /\ debt[c][b] \in Int
    BY <1>1, DueTypes DEF BooksInv
  <2>5. Due(c, b)' = Due(c, b)
    BY <1>1, <2>2, <2>3, <2>4 DEF Due
  <2>6. QED
    BY <2>3, <2>5
<1>7. loose \subseteq loose'
  BY <1>2
<1>8. QED
  BY <1>2, <1>5, <1>6, <1>7, BooksKept

\* What a routed event leaves due on its chain.
LEMMA RoutedDue ==
  ASSUME BooksInv, [Next]_vars, NEW c \in Chains, Syncing(c), sync[c].next <= sync[c].last,
         Routed(c), UNCHANGED <<log, debt, checkpoint>>, NEW b \in Agents
  PROVE  /\ NextEvent(c) = log[c][Booked(c) + 1] /\ Booked(c) < Len(log[c])
         /\ Due(c, b)' = Due(c, b) - Counted("CreditRepaid", b, NextEvent(c))
         /\ \A d \in Chains \ {c} : Due(d, b)' = Due(d, b)
<1>1. /\ Booked(c) \in Nat /\ Booked(c) < Len(log[c]) /\ Booked(c)' = Booked(c) + 1
      /\ NextEvent(c) = log[c][Booked(c) + 1] /\ Booked(c) + 1 \in 1..Len(log[c])
      /\ \A d \in Chains \ {c} : Booked(d)' = Booked(d)
  BY RoutedBooked, BooksTypes
<1>2. log[c] \in Seq(Event) /\ debt[c][b] \in Int
  BY LogTypes DEF BooksInv
<1>3. Sent(log[c], "CreditRepaid", b, Booked(c))
        = Counted("CreditRepaid", b, NextEvent(c)) + Sent(log[c], "CreditRepaid", b, Booked(c) + 1)
  BY <1>1, <1>2, SentFirst
<1>4. /\ Sent(log[c], "CreditRepaid", b, Booked(c) + 1) \in Nat
      /\ Counted("CreditRepaid", b, NextEvent(c)) \in Nat
  <2>1. NextEvent(c).amount \in Nat
    BY <1>1, <1>2, EventAmounts
  <2>2. QED
    BY <1>1, <1>2, <2>1, SentNat DEF Counted
<1>5. /\ UnbookedRepayments(c, b) = Sent(log[c], "CreditRepaid", b, Booked(c))
      /\ UnbookedRepayments(c, b)' = Sent(log[c], "CreditRepaid", b, Booked(c) + 1)
  BY <1>1, UnbookedAreSent
<1>6. Due(c, b)' = Due(c, b) - Counted("CreditRepaid", b, NextEvent(c))
  BY <1>2, <1>3, <1>4, <1>5 DEF Due
<1>7. \A d \in Chains \ {c} : Due(d, b)' = Due(d, b)
  BY <1>1, DueStays
<1>8. QED
  BY <1>1, <1>6, <1>7

\* A part of a debt releases its share: all of it for the whole, less for less.
LEMMA ShareFacts ==
  ASSUME NEW o \in Nat, NEW m \in Nat, NEW d \in Nat, d > 0, m <= d
  PROVE  /\ (o * m) \div d \in 0..o
         /\ o > 0 /\ m < d => (o * m) \div d < o
         /\ m = d => (o * m) \div d = o
<1> DEFINE q == (o * m) \div d
           t == (o * m) % d
<1>1. o * m \in Nat
  OBVIOUS
<1>2. q \in Int /\ t \in 0..d-1 /\ o * m = d * q + t
  BY <1>1
<1>3. o * m <= o * d
  OBVIOUS
<1>4. o > 0 /\ m < d => o * m < o * d
  OBVIOUS
<1>5. d * q <= d * o
  BY <1>2, <1>3
<1> HIDE DEF q, t
<1>6. q <= o
  BY <1>2, <1>5
<1>7. q >= 0
  <2>1. SUFFICES ASSUME q <= -1 PROVE FALSE
    BY <1>2
  <2>2. d * q <= d * (-1)
    BY <1>2, <2>1
  <2>3. QED
    BY <1>1, <1>2, <2>2
<1>8. o > 0 /\ m < d => q < o
  <2>1. SUFFICES ASSUME o > 0, m < d, q = o PROVE FALSE
    BY <1>2, <1>6
  <2>2. o * m < o * d /\ d * q = d * o /\ d * o = o * d
    BY <1>4, <2>1
  <2>3. QED
    BY <1>1, <1>2, <2>2
<1>9. m = d => q = o
  <2>1. SUFFICES ASSUME m = d, q < o PROVE FALSE
    BY <1>2, <1>6
  <2>2. d * q <= d * (o - 1) /\ d * (o - 1) = d * o - d /\ o * m = d * o
    BY <1>2, <2>1
  <2>3. QED
    BY <1>1, <1>2, <2>2
<1>10. QED
  BY <1>2, <1>6, <1>7, <1>8, <1>9 DEF q

\* What a repayment releases is outstanding.
LEMMA ReleaseShare ==
  ASSUME TypeOK, NEW r \in Requests
  PROVE  Release(r) \in 0..exposure[request[r].agent].outstanding
<1> DEFINE o == exposure[request[r].agent].outstanding
           d == request[r].debtBefore
           m == Lesser(request[r].amount, d)
<1>1. o \in Nat /\ d \in Int /\ request[r].amount \in Nat
  BY DEF TypeOK, Exposure, Request
<1>2. d > 0 => d \in Nat /\ m \in Nat /\ m <= d
  BY <1>1 DEF Lesser
<1>3. Release(r) = IF d > 0 THEN (o * m) \div d ELSE 0
  BY DEF Release
<1> HIDE DEF o, d, m
<1>4. d > 0 => (o * m) \div d \in 0..o
  BY <1>1, <1>2, ShareFacts
<1>5. Release(r) \in 0..o
  BY <1>1, <1>3, <1>4
<1>6. QED
  BY <1>5 DEF o

LEMMA RouteDrawBooks ==
  ASSUME BooksInv, [Next]_vars, NEW c \in Chains, RouteDraw(c)
  PROVE  BooksAgree'
<1>1. /\ TypeOK /\ TypeOK' /\ NotesInv /\ NotesSound /\ ReservationsBacked /\ LogInv
      /\ \A b \in Agents : Sound(exposure[b]) /\ exposure[b].outstanding \in Nat
  BY BooksTypes DEF BackedInv
<1>2. /\ Syncing(c) /\ sync[c].next <= sync[c].last /\ NextEvent(c).type = "CreditDrawn"
      /\ Routed(c) /\ UNCHANGED <<log, debt, drawn, checkpoint, request, flareUsd, loose>>
  BY DEF RouteDraw, vaults, history
<1>3. \A b \in Agents, d \in Chains : Due(d, b)' = Due(d, b)
  <2>1. SUFFICES ASSUME NEW b \in Agents
                 PROVE  Due(c, b)' = Due(c, b) /\ \A d \in Chains \ {c} : Due(d, b)' = Due(d, b)
    OBVIOUS
  <2>2. /\ Due(c, b)' = Due(c, b) - Counted("CreditRepaid", b, NextEvent(c))
        /\ \A d \in Chains \ {c} : Due(d, b)' = Due(d, b)
    BY <1>2, RoutedDue
  <2>3. Counted("CreditRepaid", b, NextEvent(c)) = 0
    BY <1>2 DEF Counted
  <2>4. Due(c, b) \in Int
    BY <1>1, DueTypes
  <2>5. QED
    BY <2>2, <2>3, <2>4
<1>4. CASE UNCHANGED root
  <2>1. \A b \in Agents : UnbookedDraws(b)' = UnbookedDraws(b)
    BY <1>2, <1>4, NoteSumsStay DEF root
  <2>2. QED
    BY <1>2, <1>3, <1>4, <2>1, BooksKept DEF root
<1>5. CASE ~(UNCHANGED root)
  <2>1. PICK n \in Notes : n = NextEvent(c).note
    BY <1>1, <1>2, NextDraw
  <2>2. PICK a \in Agents : a = notes[n].agent
    BY <1>1, NoteTypes
  <2>3. NextEvent(c).agent = a /\ NextEvent(c).amount = drawn[n]
    BY <1>1, <1>2, <2>1, <2>2, NextDraw
  <2>4. /\ notes' = [notes EXCEPT ![n].status = "consumed"]
        /\ exposure' = [exposure EXCEPT ![a] = ActivateExposure(exposure[a], drawn[n])]
        /\ notes[n].status = "issued"
    BY <1>5, <2>1, <2>3 DEF RouteDraw
  <2>5. /\ drawn[n] \in Nat /\ notes[n].max_draw \in Nat /\ drawn[n] <= notes[n].max_draw
        /\ notes[n].max_draw <= exposure[a].reserved /\ exposure[a].reserved \in Nat
    BY <1>1, <2>2, <2>4, NoteTypes, Covered, EntryAmounts DEF IssuedTo, NotesSound
  <2>6. /\ exposure'[a].outstanding = exposure[a].outstanding + drawn[n]
        /\ \A b \in Agents \ {a} : exposure'[b] = exposure[b]
    <3>1. drawn[n] <= exposure[a].reserved
      BY <2>5
    <3>2. ActivateExposure(exposure[a], drawn[n]).outstanding
            = exposure[a].outstanding + drawn[n]
      BY <1>1, <2>5, <3>1, EntryCovered
    <3>3. QED
      BY <1>1, <2>4, <3>2, EntryMoves
  <2>7. /\ \A m \in Notes \ {n} : notes'[m] = notes[m] /\ drawn'[m] = drawn[m]
        /\ notes'[n].status = "consumed"
    <3>1. notes \in [Notes -> Note] /\ notes[n] \in Note
      BY <1>1 DEF TypeOK
    <3>2. QED
      BY <1>2, <2>4, <3>1 DEF Note
  <2>8. SUFFICES ASSUME NEW b \in Agents \ loose'
                 PROVE  exposure'[b].outstanding + UnbookedDraws(b)' = Dues(b)' + flareUsd'[b]
    BY BooksAre
  <2> DEFINE m == IF b = a THEN drawn[n] ELSE 0
  <2>9. UnbookedDraws(b)' = UnbookedDraws(b) - m + 0
    <3>1. UnbookedDraws(b)' = UnbookedDraws(b)
            - (IF n \in IssuedTo(b) THEN drawn[n] ELSE 0)
            + (IF n \in IssuedTo(b)' THEN drawn'[n] ELSE 0)
      BY <1>1, <2>7, NoteSums
    <3>2. (n \in IssuedTo(b) <=> b = a) /\ n \notin IssuedTo(b)'
      BY <2>2, <2>4, <2>7 DEF IssuedTo
    <3>3. QED
      BY <3>1, <3>2
  <2>10. exposure'[b].outstanding = exposure[b].outstanding + m
    BY <1>1, <2>6
  <2>11. Dues(b)' = Dues(b)
    BY <1>1, <1>3, DuesStay
  <2>12. /\ exposure[b].outstanding + UnbookedDraws(b) = Dues(b) + flareUsd[b]
         /\ flareUsd'[b] = flareUsd[b] /\ flareUsd[b] \in Int /\ Dues(b) \in Int
         /\ UnbookedDraws(b) \in Int /\ exposure[b].outstanding \in Nat /\ m \in Int
    <3>1. exposure[b].outstanding + UnbookedDraws(b) = Dues(b) + flareUsd[b]
      BY <1>2, BooksAre DEF BooksInv
    <3>2. QED
      BY <1>1, <1>2, <2>5, <3>1, BooksTypes, DuesInt
  <2> HIDE DEF m
  <2>13. QED
    BY <2>9, <2>10, <2>11, <2>12
<1>6. QED
  BY <1>4, <1>5

LEMMA RouteRepayBooks ==
  ASSUME BooksInv, [Next]_vars, NEW c \in Chains, RouteRepay(c)
  PROVE  BooksAgree'
<1>1. /\ TypeOK /\ LogInv /\ BooksAgree
      /\ \A b \in Agents : Sound(exposure[b]) /\ exposure[b].outstanding \in Nat
  BY BooksTypes DEF BooksInv
<1>2. /\ Syncing(c) /\ sync[c].next <= sync[c].last /\ NextEvent(c).type = "CreditRepaid"
      /\ Routed(c) /\ UNCHANGED <<notes, drawn, log, debt, checkpoint, flareUsd, loose>>
  BY DEF RouteRepay, vaults, history
<1> DEFINE e == NextEvent(c)
<1>3. e = log[c][Booked(c) + 1] /\ Booked(c) < Len(log[c]) /\ Booked(c) \in Nat
  <2>1. \A b \in Agents : e = log[c][Booked(c) + 1] /\ Booked(c) < Len(log[c])
    BY <1>2, RoutedDue
  <2>2. PICK b \in Agents : TRUE
    BY OmnichainConstants
  <2>3. Booked(c) \in Nat
    BY <1>1, RelayTypes, LogInvParts
  <2>4. QED
    BY <2>1, <2>2, <2>3
<1>4. e.agent \in Agents /\ e.amount \in Nat
  <2>1. log[c] \in Seq(Event) /\ Len(log[c]) \in Nat
    BY <1>1, LogTypes
  <2>2. Booked(c) + 1 \in 1..Len(log[c])
    BY <1>3, <2>1
  <2>3. QED
    BY <1>3, <2>1, <2>2, EventAmounts
<1>5. exposure' = [exposure EXCEPT ![e.agent] = DecreaseExposure(exposure[e.agent], e.amount)]
  BY DEF RouteRepay
<1>6. SUFFICES ASSUME NEW b \in Agents \ loose
               PROVE  exposure'[b].outstanding + UnbookedDraws(b)' = Dues(b)' + flareUsd'[b]
  BY <1>2, BooksAre
<1> DEFINE m == IF b = e.agent THEN e.amount ELSE 0
<1>7. exposure'[b].outstanding = exposure[b].outstanding - m
  <2>1. CASE b = e.agent
    <3>1. e.amount <= exposure[b].outstanding
      BY <1>1, <1>2, <1>3, <2>1, RepaymentCovered
    <3>2. DecreaseExposure(exposure[b], e.amount).outstanding
            = exposure[b].outstanding - e.amount
      BY <1>1, <1>4, <3>1 DEF DecreaseExposure, Lesser, Sound, Exposure
    <3>3. exposure'[b] = DecreaseExposure(exposure[b], e.amount)
      BY <1>1, <1>5, <2>1, EntryMoves
    <3>4. QED
      BY <2>1, <3>2, <3>3
  <2>2. CASE b # e.agent
    <3>1. exposure'[b] = exposure[b]
      BY <1>1, <1>4, <1>5, <2>2, EntryMoves
    <3>2. QED
      BY <1>1, <2>2, <3>1
  <2>3. QED
    BY <2>1, <2>2
<1>8. UnbookedDraws(b)' = UnbookedDraws(b)
  BY <1>2, NoteSumsStay
<1>9. Dues(b)' = Dues(b) - m
  <2>1. /\ Due(c, b)' = Due(c, b) - Counted("CreditRepaid", b, e)
        /\ \A d \in Chains \ {c} : Due(d, b)' = Due(d, b)
    BY <1>2, RoutedDue
  <2>2. Counted("CreditRepaid", b, e) = m /\ m \in Int
    BY <1>2, <1>4 DEF Counted
  <2>3. /\ Dues(b)' = Dues(b) - Due(c, b) + Due(c, b)'
        /\ Dues(b) \in Int /\ Due(c, b) \in Int
    BY <1>1, <2>1, DuesMove
  <2> HIDE DEF m
  <2>4. QED
    BY <2>1, <2>2, <2>3
<1>10. /\ exposure[b].outstanding + UnbookedDraws(b) = Dues(b) + flareUsd[b]
       /\ flareUsd'[b] = flareUsd[b] /\ flareUsd[b] \in Int /\ Dues(b) \in Int
       /\ UnbookedDraws(b) \in Int /\ exposure[b].outstanding \in Nat
  <2>1. exposure[b].outstanding + UnbookedDraws(b) = Dues(b) + flareUsd[b]
    BY <1>1, BooksAre
  <2>2. QED
    BY <1>1, <1>2, <2>1, BooksTypes, DuesInt
<1>11. m \in Int
  BY <1>4
<1> HIDE DEF m, e
<1>12. (exposure[b].outstanding - m) + UnbookedDraws(b) = (Dues(b) - m) + flareUsd[b]
  <2>1. ASSUME NEW x \in Int, NEW u \in Int, NEW d \in Int, NEW f \in Int, x + u = d + f
        PROVE  (x - m) + u = (d - m) + f
    BY <1>11, <2>1
  <2>2. exposure[b].outstanding \in Int
    BY <1>10
  <2>3. QED
    BY <1>10, <2>1, <2>2
<1>13. QED
  BY <1>7, <1>8, <1>9, <1>10, <1>12

\* What an abandoned sync had booked was, of agents whose books still agree, no repayment.
LEMMA AbandonSyncBooks ==
  ASSUME BooksInv, [Next]_vars, NEW c \in Chains, AbandonSync(c)
  PROVE  BooksAgree'
<1>1. /\ UNCHANGED <<exposure, notes, drawn, log, debt, flareUsd>>
      /\ loose' = loose \cup
           {log[c][i].agent : i \in {j \in checkpoint[c] + 1 .. sync[c].next - 1 :
                                       log[c][j].type = "CreditRepaid"}}
  BY DEF AbandonSync, root, vaults
<1>2. /\ Booked(c)' = checkpoint[c] /\ checkpoint[c] <= Booked(c)
      /\ checkpoint[c] \in Nat /\ Booked(c) = sync[c].next - 1
      /\ \A d \in Chains \ {c} : Booked(d)' = Booked(d)
      /\ Booked(c) \in 0..Len(log[c]) /\ Len(log[c]) \in Nat
  BY AbandonBooked, BooksTypes, RelayTypes
<1>3. ASSUME NEW b \in Agents \ loose'
      PROVE  \A d \in Chains : Due(d, b)' = Due(d, b)
  <2> DEFINE S == Places(log[c], "CreditRepaid", b, Booked(c))
             T == Places(log[c], "CreditRepaid", b, checkpoint[c])
  <2>1. ASSUME NEW i \in checkpoint[c] + 1 .. Booked(c), log[c][i].type = "CreditRepaid"
        PROVE  log[c][i].agent # b
    <3>1. i \in {j \in checkpoint[c] + 1 .. sync[c].next - 1 : log[c][j].type = "CreditRepaid"}
      BY <1>2, <2>1
    <3>2. log[c][i].agent \in loose'
      BY <1>1, <3>1
    <3>3. QED
      BY <1>3, <3>2
  <2>2. \A i : i \in S <=> i \in T
    <3>1. \A i \in S : i \in T
      BY <1>2 DEF Places
    <3>2. ASSUME NEW i \in T
          PROVE  i \in S
      <4>1. /\ i \in checkpoint[c] + 1 .. Len(log[c])
            /\ log[c][i].type = "CreditRepaid" /\ log[c][i].agent = b
        BY <3>2 DEF Places
      <4>2. i \notin checkpoint[c] + 1 .. Booked(c)
        BY <2>1, <4>1
      <4>3. i \in Booked(c) + 1 .. Len(log[c])
        BY <1>2, <4>1, <4>2
      <4>4. QED
        BY <4>1, <4>3 DEF Places
    <3> HIDE DEF S, T
    <3>3. QED
      BY <3>1, <3>2
  <2>3. S = T
    <3> HIDE DEF S, T
    <3>1. QED
      BY <2>2
  <2>4. Sent(log[c], "CreditRepaid", b, Booked(c)) = Sent(log[c], "CreditRepaid", b, checkpoint[c])
    BY <2>3 DEF Sent
  <2>5. UnbookedRepayments(c, b)' = UnbookedRepayments(c, b)
    BY <1>1, <1>2, <2>4, UnbookedAreSent
  <2>6. Due(c, b)' = Due(c, b)
    BY <1>1, <2>5 DEF Due
  <2>7. \A d \in Chains \ {c} : Due(d, b)' = Due(d, b)
    BY <1>1, <1>2, DueStays
  <2>8. QED
    BY <2>6, <2>7
<1>4. \A b \in Agents : UnbookedDraws(b)' = UnbookedDraws(b)
  BY <1>1, NoteSumsStay
<1>5. loose \subseteq loose'
  BY <1>1
<1>6. QED
  BY <1>1, <1>3, <1>4, <1>5, BooksKept

\* What a request does to the books of its agent: both sides move alike.
LEMMA AlikeBooks ==
  ASSUME BooksInv, [Next]_vars, FlareRequest,
         \A b \in Agents :
           exposure'[b].outstanding - flareUsd'[b] = exposure[b].outstanding - flareUsd[b]
  PROVE  BooksAgree'
<1>1. /\ UNCHANGED <<notes, drawn, log, checkpoint, sync>> /\ loose \subseteq loose'
      /\ \A c \in Chains : debt'[c] = debt[c]
  BY FlareApart, FlareDollars DEF BooksInv
<1>2. SUFFICES ASSUME NEW b \in Agents \ loose'
               PROVE  exposure'[b].outstanding + UnbookedDraws(b)' = Dues(b)' + flareUsd'[b]
  BY BooksAre
<1>3. exposure[b].outstanding + UnbookedDraws(b) = Dues(b) + flareUsd[b]
  BY <1>1, BooksAre DEF BooksInv
<1>4. UnbookedDraws(b)' = UnbookedDraws(b)
  BY <1>1, NoteSumsStay
<1>5. Dues(b)' = Dues(b) /\ Dues(b) \in Int
  <2>1. \A c \in Chains : Due(c, b)' = Due(c, b)
    BY <1>1, DueStays, BookedStays
  <2>2. QED
    BY <2>1, DuesStay DEF BooksInv
<1>6. /\ UnbookedDraws(b) \in Int /\ exposure[b].outstanding \in Int /\ flareUsd[b] \in Int
  BY BooksTypes
<1>7. exposure'[b].outstanding \in Int /\ flareUsd'[b] \in Int
  <2>1. exposure' \in [Agents -> Exposure] /\ flareUsd' \in [Agents -> Int]
    BY BooksTypes DEF TypeOK
  <2>2. exposure'[b] \in Exposure
    BY <2>1
  <2>3. exposure'[b].outstanding \in Nat
    BY <2>2 DEF Exposure
  <2>4. QED
    BY <2>1, <2>3
<1>8. exposure'[b].outstanding - flareUsd'[b] = exposure[b].outstanding - flareUsd[b]
  OBVIOUS
<1>9. exposure'[b].outstanding + UnbookedDraws(b) = Dues(b) + flareUsd'[b]
  BY <1>3, <1>5, <1>6, <1>7, <1>8
<1>10. QED
  BY <1>4, <1>5, <1>9

LEMMA AuthorizeDrawBooks ==
  ASSUME BooksInv, [Next]_vars, NEW r \in Requests, NEW a \in Agents, NEW amount \in Amounts,
         NEW price \in Prices, AuthorizeDraw(r, a, amount, price)
  PROVE  /\ flareUsd' = flareUsd
         /\ \A b \in Agents : exposure'[b].outstanding = exposure[b].outstanding
<1> DEFINE e   == EnsureAgent(exposure[a], FlareCap)
           usd == amount * price
<1>1. TypeOK /\ Sound(exposure[a]) /\ usd \in Nat
  BY BooksTypes, ConstantFacts
<1>2. Sound(e) /\ e.outstanding = exposure[a].outstanding
  BY <1>1, EnsureFacts, ConstantFacts
<1>3. ReserveExposure(e, usd).outstanding = exposure[a].outstanding
  BY <1>1, <1>2, EntryAmounts
<1>4. \/ exposure' = [exposure EXCEPT ![a] = ReserveExposure(e, usd)]
      \/ exposure' = [exposure EXCEPT ![a] = e]
  BY <1>1, AuthorizeFacts
<1> HIDE DEF e, usd
<1>5. \A b \in Agents : exposure'[b].outstanding = exposure[b].outstanding
  BY <1>1, <1>2, <1>3, <1>4, EntryMoves
<1>6. flareUsd' = flareUsd
  BY DEF AuthorizeDraw
<1>7. QED
  BY <1>5, <1>6

\* An activated draw: covered by its reservation, all of it becomes outstanding.
LEMMA BookDrawBooks ==
  ASSUME BooksInv, [Next]_vars, NEW r \in Requests, BookDraw(r), NEW b \in Agents
  PROVE  exposure'[b].outstanding - flareUsd'[b] = exposure[b].outstanding - flareUsd[b]
<1>1. /\ TypeOK /\ NotesSound /\ ReservationsBacked
      /\ \A x \in Agents : /\ Sound(exposure[x]) /\ exposure[x].outstanding \in Nat
                          /\ flareUsd[x] \in Int
  BY BooksTypes DEF BackedInv
<1>2. PICK a \in Agents : a = request[r].agent
  BY <1>1 DEF TypeOK, Request
<1>3. PICK m \in Nat : m = request[r].usd
  BY <1>1 DEF TypeOK, Request
<1>4. r \in BusyOf(a)
  BY <1>2 DEF BookDraw, BusyOf, Busy
<1>5. m <= exposure[a].reserved
  BY <1>1, <1>3, <1>4, Covered
<1>6. CASE /\ exposure' = [exposure EXCEPT ![a] = ActivateExposure(exposure[a], m)]
           /\ flareUsd' = [flareUsd EXCEPT ![a] = @ + m]
  <2>1. ActivateExposure(exposure[a], m).outstanding = exposure[a].outstanding + m
    BY <1>1, <1>5, EntryCovered
  <2>2. /\ exposure'[a].outstanding = exposure[a].outstanding + m
        /\ \A x \in Agents \ {a} : exposure'[x] = exposure[x]
    BY <1>1, <1>6, <2>1, EntryMoves
  <2>3. flareUsd \in [Agents -> Int]
    BY <1>1 DEF TypeOK
  <2>4. /\ flareUsd'[a] = flareUsd[a] + m
        /\ \A x \in Agents \ {a} : flareUsd'[x] = flareUsd[x]
    BY <1>6, <2>3
  <2>5. QED
    BY <1>1, <2>2, <2>4
<1>7. CASE /\ exposure' = [exposure EXCEPT ![a] = ReleaseReservation(exposure[a], m)]
           /\ UNCHANGED flareUsd
  <2>1. ReleaseReservation(exposure[a], m).outstanding = exposure[a].outstanding
    BY <1>1, EntryAmounts
  <2>2. exposure'[b].outstanding = exposure[b].outstanding
    BY <1>1, <1>7, <2>1, EntryMoves
  <2>3. QED
    BY <1>1, <1>7, <2>2
<1>8. QED
  BY <1>2, <1>3, <1>6, <1>7 DEF BookDraw

\* A released share: never more than is outstanding, so none of it saturates away.
LEMMA BookRepayBooks ==
  ASSUME BooksInv, [Next]_vars, NEW r \in Requests, BookRepay(r), NEW b \in Agents
  PROVE  exposure'[b].outstanding - flareUsd'[b] = exposure[b].outstanding - flareUsd[b]
<1>1. /\ TypeOK
      /\ \A x \in Agents : /\ Sound(exposure[x]) /\ exposure[x].outstanding \in Nat
                          /\ flareUsd[x] \in Int
  BY BooksTypes
<1>2. PICK a \in Agents : a = request[r].agent
  BY <1>1 DEF TypeOK, Request
<1> DEFINE m == Release(r)
<1>3. m \in 0..exposure[a].outstanding
  BY <1>1, <1>2, ReleaseShare
<1>4. /\ exposure' = [exposure EXCEPT ![a] = DecreaseExposure(exposure[a], m)]
      /\ flareUsd' = [flareUsd EXCEPT ![a] = @ - m]
  BY <1>2 DEF BookRepay
<1> HIDE DEF m
<1>5. DecreaseExposure(exposure[a], m).outstanding = exposure[a].outstanding - m
  BY <1>1, <1>3 DEF DecreaseExposure, Lesser, Sound, Exposure
<1>6. /\ exposure'[a].outstanding = exposure[a].outstanding - m
      /\ \A x \in Agents \ {a} : exposure'[x] = exposure[x]
  BY <1>1, <1>4, <1>5, EntryMoves
<1>7. flareUsd \in [Agents -> Int]
  BY <1>1 DEF TypeOK
<1>8. /\ flareUsd'[a] = flareUsd[a] - m
      /\ \A x \in Agents \ {a} : flareUsd'[x] = flareUsd[x]
  BY <1>4, <1>7
<1>9. QED
  BY <1>1, <1>3, <1>6, <1>8

LEMMA FlareBooks ==
  ASSUME BooksInv, [Next]_vars, FlareRequest
  PROVE  BooksAgree'
<1>1. PICK r \in Requests :
        \/ \E a \in Agents, amount \in Amounts :
             \/ \E price \in Prices : AuthorizeDraw(r, a, amount, price)
             \/ StartRepay(r, a, amount)
        \/ \E price \in Prices : CommitDraw(r, price)
        \/ DrawExecuted(r) \/ DrawFailed(r) \/ BookDraw(r)
        \/ RepayExecuted(r) \/ RepayFailed(r) \/ BookRepay(r)
  BY DEF FlareRequest
<1>2. SUFFICES \A b \in Agents :
        exposure'[b].outstanding - flareUsd'[b] = exposure[b].outstanding - flareUsd[b]
  BY AlikeBooks
<1>3. CASE UNCHANGED <<exposure, flareUsd>>
  BY <1>3
<1>4. ASSUME NEW a \in Agents, NEW amount \in Amounts, NEW price \in Prices,
             AuthorizeDraw(r, a, amount, price)
      PROVE  \A b \in Agents :
               exposure'[b].outstanding - flareUsd'[b] = exposure[b].outstanding - flareUsd[b]
  BY <1>4, AuthorizeDrawBooks
<1>5. CASE \/ \E a \in Agents, amount \in Amounts : StartRepay(r, a, amount)
           \/ \E price \in Prices : CommitDraw(r, price)
           \/ DrawExecuted(r) \/ DrawFailed(r) \/ RepayExecuted(r) \/ RepayFailed(r)
  <2>1. UNCHANGED <<exposure, flareUsd>>
    BY <1>5 DEF StartRepay, CommitDraw, DrawExecuted, DrawFailed, RepayExecuted, RepayFailed,
       root, history
  <2>2. QED
    BY <1>3, <2>1
<1>6. QED
  BY <1>1, <1>4, <1>5, BookDrawBooks, BookRepayBooks

\* The books keep agreeing.
LEMMA BooksStep == BooksInv /\ [Next]_vars => BooksInv'
<1> SUFFICES ASSUME BooksInv, [Next]_vars
             PROVE  BooksAgree'
  BY LogStep DEF BooksInv
<1>1. CASE Relay
  <2>1. ASSUME NEW c \in Chains, StartSync(c) \/ FinishSync(c)
        PROVE  BooksAgree'
    <3>1. UNCHANGED <<notes, drawn, log, flareUsd, loose, exposure, debt>>
      BY <2>1 DEF StartSync, FinishSync, root, vaults, history
    <3>2. \A d \in Chains : Booked(d)' = Booked(d)
      BY <2>1, BooksTypes, StartFinishBooked
    <3>3. QED
      BY <3>1, <3>2, RestBooks
  <2>2. QED
    BY <1>1, <2>1, RouteDrawBooks, RouteRepayBooks, AbandonSyncBooks DEF Relay
<1>2. CASE UNCHANGED vars
  <2>1. UNCHANGED <<notes, drawn, log, flareUsd, loose, exposure, debt, checkpoint, sync>>
    BY <1>2 DEF vars, root, vaults, relayer, history
  <2>2. QED
    BY <2>1, BookedStays, RestBooks
<1>3. CASE Vault
  BY <1>3, DrawOnNoteBooks, RepayVaultBooks DEF Vault
<1>4. QED
  BY <1>1, <1>2, <1>3, RootBooks, FlareBooks DEF Next

LEMMA BooksInit == Init => BooksInv
<1> SUFFICES ASSUME Init PROVE BooksAgree
  BY LogInit DEF BooksInv
<1>1. SUFFICES ASSUME NEW a \in Agents
               PROVE  exposure[a].outstanding + UnbookedDraws(a) = Dues(a) + flareUsd[a]
  BY BooksAre
<1>2. exposure[a].outstanding = 0 /\ flareUsd[a] = 0
  BY DEF Init, NoExposure
<1>3. UnbookedDraws(a) = 0
  <2>1. IssuedTo(a) = {}
    BY DEF Init, IssuedTo
  <2>2. QED
    BY <2>1, SumEmpty DEF UnbookedDraws, SumOf, IssuedTo
<1>4. Dues(a) = 0
  <2> DEFINE f == [c \in Chains |-> Due(c, a)]
  <2>1. ASSUME NEW c \in Chains
        PROVE  Due(c, a) = 0
    <3>1. log[c] = <<>> /\ debt[c][a] = 0 /\ Booked(c) = 0
      BY DEF Init, AllChains, Booked, Syncing, NoSync
    <3>2. log[c] \in Seq(Event) /\ Booked(c) \in Nat /\ Booked(c) >= Len(log[c])
      BY <3>1
    <3>3. Sent(log[c], "CreditRepaid", a, Booked(c)) = 0
      BY <3>2, SentAtEnd
    <3>4. QED
      BY <3>1, <3>3, UnbookedAreSent DEF Due
  <2>2. \A c \in Chains : f[c] = 0
    BY <2>1
  <2>3. Dues(a) = SumFunctionOnSet(f, Chains)
    BY DEF Dues, SumOf
  <2> HIDE DEF f
  <2>4. QED
    BY <2>2, <2>3, SumZero, FiniteWorld
<1>5. QED
  BY <1>2, <1>3, <1>4

LEMMA BooksInvariance == Spec => []BooksInv
BY BooksInit, BooksStep, PTL DEF Spec

\* The root and the vaults agree on what an agent owes (casper_root_relayer.ts, satellite.ts).
THEOREM OmnichainBooks == Spec => []BooksAgree
<1>1. BooksInv => BooksAgree
  BY DEF BooksInv
<1>2. QED
  BY <1>1, BooksInvariance, PTL

-------------------------------------------------------------------------------
(* Borrowing on Flare alone *)

OnFlareOnly(a) ==
  /\ \A n \in Notes : notes[n].agent # a \/ Unissued(n)
  /\ \A c \in Chains : \A i \in 1..Len(log[c]) : log[c][i].agent # a

\* A request of an agent whose requests did not overlap is the only one under way.
Alone == \A r \in Busy : request[r].agent \notin overlapped => Busy = {r}

\* Nothing is owed exactly when nothing is outstanding.
Nil(m, n) == m >= 0 /\ (m = 0 <=> n = 0)

\* What a request under way has still to do to its agent's debt and exposure.
Stage(q, debts, out) ==
  /\ q.amount > 0
  /\ q.pc \in {"pricing", "undone"} => Nil(debts, out)
  /\ q.pc \in {"executing", "drawn"} => Nil(debts - q.amount, out)
  /\ q.pc \in {"pricing", "executing", "drawn"} => q.usd > 0
  /\ q.pc \in {"repaying", "repaid"} =>
       /\ Nil(q.debtBefore, out)
       /\ q.paid = Lesser(q.amount, q.debtBefore) /\ debts + q.paid = q.debtBefore

Settles(a) ==
  /\ BusyOf(a) = {} => Nil(debt[Flare][a], exposure[a].outstanding)
  /\ \A r \in BusyOf(a) : Stage(request[r], debt[Flare][a], exposure[a].outstanding)

SettleInv ==
  /\ BackedInv
  /\ Alone
  /\ \A a \in Agents \ overlapped : OnFlareOnly(a) => Settles(a)

LEMMA SettleTypes ==
  ASSUME SettleInv, [Next]_vars
  PROVE  /\ TypeOK /\ TypeOK' /\ BackedInv /\ NotesSound /\ ReservationsBacked
         /\ debt \in [AllChains -> [Agents -> Int]] /\ Flare \in AllChains /\ Flare \notin Chains
         /\ Chains \subseteq AllChains
         /\ \A a \in Agents : /\ Sound(exposure[a]) /\ exposure[a].outstanding \in Nat
                             /\ debt[Flare][a] \in Int
<1>1. TypeOK /\ TypeOK' /\ BackedInv /\ NotesSound /\ ReservationsBacked
      /\ \A a \in Agents : Sound(exposure[a])
  BY BackedTypes DEF SettleInv
<1>2. Flare \in AllChains /\ Flare \notin Chains /\ Chains \subseteq AllChains
  BY OmnichainConstants DEF AllChains
<1>3. debt \in [AllChains -> [Agents -> Int]]
  BY <1>1 DEF TypeOK
<1>4. \A a \in Agents : exposure[a].outstanding \in Nat
  BY <1>1, EntryAmounts, 0 \in Nat
<1>5. QED
  BY <1>1, <1>2, <1>3, <1>4

\* Requests as they were, and an agent whose debt and exposure are as they were.
LEMMA SettlesStay ==
  ASSUME NEW a, BusyOf(a)' = BusyOf(a), \A r \in BusyOf(a) : request'[r] = request[r],
         debt'[Flare][a] = debt[Flare][a],
         exposure'[a].outstanding = exposure[a].outstanding, Settles(a)
  PROVE  Settles(a)'
<1>1. \A r \in BusyOf(a) : Stage(request[r], debt[Flare][a], exposure[a].outstanding)'
  BY DEF Settles, Stage, Nil
<1>2. QED
  BY <1>1 DEF Settles, Nil

\* The steps that are not of a request.
LEMMA ElsewhereSettles ==
  ASSUME SettleInv, [Next]_vars, UNCHANGED <<request, overlapped>>,
         \A a \in Agents : OnFlareOnly(a)' =>
           /\ OnFlareOnly(a) /\ debt'[Flare][a] = debt[Flare][a]
           /\ exposure'[a].outstanding = exposure[a].outstanding
  PROVE  SettleInv'
<1>1. BackedInv'
  BY BackedStep DEF SettleInv
<1>2. Alone'
  BY DEF SettleInv, Alone, Busy
<1>3. \A a : BusyOf(a)' = BusyOf(a)
  BY DEF BusyOf, Busy
<1>4. ASSUME NEW a \in Agents \ overlapped', OnFlareOnly(a)'
      PROVE  Settles(a)'
  <2>1. Settles(a)
    BY <1>4 DEF SettleInv
  <2>2. QED
    BY <1>3, <1>4, <2>1, SettlesStay
<1>5. QED
  BY <1>1, <1>2, <1>4 DEF SettleInv

\* Notes are not unissued, nor events unlogged.
LEMMA FlareOnlyBefore ==
  ASSUME SettleInv, [Next]_vars, NEW a \in Agents, OnFlareOnly(a)',
         \A n \in Notes : Unissued(n)' => Unissued(n),
         \A n \in Notes : ~Unissued(n) => notes'[n].agent = notes[n].agent,
         \A c \in Chains : \A i \in 1..Len(log[c]) :
           i \in 1..Len(log'[c]) /\ log'[c][i] = log[c][i]
  PROVE  OnFlareOnly(a)
<1>1. \A n \in Notes : notes[n].agent # a \/ Unissued(n)
  BY DEF OnFlareOnly
<1>2. \A c \in Chains : \A i \in 1..Len(log[c]) : log[c][i].agent # a
  BY DEF OnFlareOnly
<1>3. QED
  BY <1>1, <1>2 DEF OnFlareOnly

LEMMA RootSettles ==
  ASSUME SettleInv, [Next]_vars, Root
  PROVE  SettleInv'
<1>1. /\ TypeOK /\ NotesSound /\ notes \in [Notes -> Note]
      /\ \A b \in Agents : Sound(exposure[b])
  BY SettleTypes DEF TypeOK
<1>2. UNCHANGED <<debt, log, request, overlapped>>
  BY DEF Root, RaiseCap, Freeze, IssueCan, RevokeCan, Expire, vaults, relayer, history
<1>3. \A b \in Agents : exposure'[b].outstanding = exposure[b].outstanding
  BY <1>1, RootOutstanding
<1>4. /\ \A n \in Notes : Unissued(n)' => Unissued(n)
      /\ \A n \in Notes : ~Unissued(n) => notes'[n].agent = notes[n].agent
  <2>1. CASE notes' = notes
    BY <2>1 DEF Unissued
  <2>2. ASSUME NEW n \in Notes, NEW a \in Agents, NEW c \in Chains, NEW max \in Amounts,
               IssueCan(n, a, c, max)
        PROVE  /\ \A m \in Notes : Unissued(m)' => Unissued(m)
               /\ \A m \in Notes : ~Unissued(m) => notes'[m].agent = notes[m].agent
    <3>1. Unissued(n) /\ \A m \in Notes \ {n} : notes'[m] = notes[m]
      BY <1>1, <2>2 DEF IssueCan
    <3>2. QED
      BY <3>1 DEF Unissued
  <2>3. ASSUME NEW n \in Notes, RevokeCan(n) \/ Expire(n)
        PROVE  /\ \A m \in Notes : Unissued(m)' => Unissued(m)
               /\ \A m \in Notes : ~Unissued(m) => notes'[m].agent = notes[m].agent
    <3>1. notes[n] \in Note
      BY <1>1
    <3>2. /\ ~Unissued(n) /\ ~(Unissued(n)') /\ notes'[n].agent = notes[n].agent
          /\ \A m \in Notes \ {n} : notes'[m] = notes[m]
      BY <1>1, <2>3, <3>1 DEF RevokeCan, Expire, Note, Unissued
    <3>3. QED
      BY <3>2 DEF Unissued
  <2>4. QED
    BY <2>1, <2>2, <2>3 DEF Root, RaiseCap, Freeze
<1>5. \A a \in Agents : OnFlareOnly(a)' => OnFlareOnly(a)
  BY <1>2, <1>4, FlareOnlyBefore
<1>6. QED
  BY <1>2, <1>3, <1>5, ElsewhereSettles

LEMMA VaultSettles ==
  ASSUME SettleInv, [Next]_vars, Vault
  PROVE  SettleInv'
<1>1. /\ TypeOK /\ Flare \notin Chains /\ debt \in [AllChains -> [Agents -> Int]]
      /\ Flare \in AllChains
  BY SettleTypes
<1>2. UNCHANGED <<exposure, notes, request, overlapped>>
  BY DEF Vault, DrawOnNote, RepayVault, root
<1>3. PICK c \in Chains, a \in Agents :
        (\E y : debt' = [debt EXCEPT ![c][a] = y]) /\ \E e \in Event : Emit(c, e)
  <2>1. ASSUME NEW n \in Notes, NEW amount \in Amounts, DrawOnNote(n, amount)
        PROVE  \E c \in Chains, a \in Agents :
                 (\E y : debt' = [debt EXCEPT ![c][a] = y]) /\ \E e \in Event : Emit(c, e)
    <3>1. PICK c \in Chains, a \in Agents : c = notes[n].chain /\ a = notes[n].agent
      BY <1>1, NoteTypes
    <3>2. \E e \in Event : Emit(c, e)
      BY <2>1, <3>1 DEF DrawOnNote, Event
    <3>3. debt' = [debt EXCEPT ![c][a] = @ + amount]
      BY <2>1, <3>1 DEF DrawOnNote
    <3>4. QED
      BY <3>2, <3>3
  <2>2. ASSUME NEW c \in Chains, NEW a \in Agents, NEW amount \in Amounts,
               RepayVault(c, a, amount)
        PROVE  (\E y : debt' = [debt EXCEPT ![c][a] = y]) /\ \E e \in Event : Emit(c, e)
    <3>1. \E e \in Event : Emit(c, e)
      BY <2>2 DEF RepayVault, Event
    <3>2. QED
      BY <2>2, <3>1 DEF RepayVault
  <2>3. QED
    BY <2>1, <2>2 DEF Vault
<1>4. \A b \in Agents : debt'[Flare][b] = debt[Flare][b]
  <2>1. PICK y : debt' = [debt EXCEPT ![c][a] = y]
    BY <1>3
  <2>2. QED
    BY <1>1, <2>1
<1>5. \A d \in Chains : \A i \in 1..Len(log[d]) :
        i \in 1..Len(log'[d]) /\ log'[d][i] = log[d][i]
  <2>1. PICK e \in Event : Emit(c, e)
    BY <1>3
  <2>2. /\ Len(log'[c]) = Len(log[c]) + 1 /\ Len(log[c]) \in Nat
        /\ \A j \in 1..Len(log[c]) : log'[c][j] = log[c][j]
        /\ \A b \in Chains \ {c} : log'[b] = log[b]
    BY <1>1, <2>1, EventAdded
  <2>3. QED
    BY <2>2
<1>6. \A b \in Agents : OnFlareOnly(b)' => OnFlareOnly(b)
  BY <1>2, <1>5, FlareOnlyBefore DEF Unissued
<1>7. QED
  BY <1>2, <1>4, <1>6, ElsewhereSettles

LEMMA RelaySettles ==
  ASSUME SettleInv, [Next]_vars, Relay
  PROVE  SettleInv'
<1>1. PICK c \in Chains :
        StartSync(c) \/ RouteDraw(c) \/ RouteRepay(c) \/ AbandonSync(c) \/ FinishSync(c)
  BY DEF Relay
<1>2. UNCHANGED <<debt, log, request, overlapped>>
  BY <1>1 DEF StartSync, RouteDraw, RouteRepay, AbandonSync, FinishSync, vaults, history
<1>3. /\ TypeOK /\ notes \in [Notes -> Note] /\ IInv /\ LogFits
  BY SettleTypes DEF TypeOK, BackedInv, NotesInv
<1>4. CASE UNCHANGED root
  <2>1. \A a \in Agents : OnFlareOnly(a)' => OnFlareOnly(a)
    BY <1>2, <1>4 DEF OnFlareOnly, Unissued, root
  <2>2. QED
    BY <1>2, <1>4, <2>1, ElsewhereSettles DEF root
<1>5. CASE RouteDraw(c) \/ RouteRepay(c)
  <2>1. sync[c].next \in 1..Len(log[c]) /\ NextEvent(c) = log[c][sync[c].next]
    <3>1. /\ sync[c].next \in Nat /\ sync[c].last \in Nat /\ Len(log[c]) \in Nat
          /\ Syncing(c) => sync[c].next \in 1..sync[c].last + 1 /\ sync[c].last <= Len(log[c])
      BY <1>3 DEF IInv, TypeOK, SyncsInLog
    <3>2. Syncing(c) /\ sync[c].next <= sync[c].last
      BY <1>5 DEF RouteDraw, RouteRepay
    <3>3. QED
      BY <3>1, <3>2 DEF NextEvent
  <2>2. PICK b \in Agents : b = NextEvent(c).agent
    BY <1>3, <1>5, NextEventType DEF RouteDraw, RouteRepay
  <2>3. exposure' = exposure \/ \E f : exposure' = [exposure EXCEPT ![b] = f]
    BY <1>5, <2>2 DEF RouteDraw, RouteRepay, root
  <2>4. \A a \in Agents \ {b} : exposure'[a] = exposure[a]
    BY <1>3, <2>3, EntryMoves
  <2>5. /\ \A n \in Notes : Unissued(n)' => Unissued(n)
        /\ \A n \in Notes : ~Unissued(n) => notes'[n].agent = notes[n].agent
    <3>1. CASE notes' = notes
      BY <3>1 DEF Unissued
    <3>2. CASE notes' # notes
      <4>1. RouteDraw(c) /\ NextEvent(c).type = "CreditDrawn"
            /\ notes' = [notes EXCEPT ![NextEvent(c).note].status = "consumed"]
            /\ notes[NextEvent(c).note].status = "issued"
        BY <1>5, <3>2 DEF RouteDraw, RouteRepay, root
      <4>2. PICK n \in Notes : n = NextEvent(c).note
        <5>1. PICK i \in 1..Len(log[c]) : i = sync[c].next
          BY <2>1
        <5>2. log[c][i].type = "CreditDrawn" => log[c][i].note \in Notes
          BY <1>3 DEF LogFits
        <5>3. NextEvent(c) = log[c][i]
          BY <2>1, <5>1
        <5>4. QED
          BY <4>1, <5>2, <5>3
      <4>3. notes[n] \in Note
        BY <1>3
      <4>4. /\ ~Unissued(n) /\ ~(Unissued(n)') /\ notes'[n].agent = notes[n].agent
            /\ \A m \in Notes \ {n} : notes'[m] = notes[m]
        BY <1>3, <4>1, <4>2, <4>3 DEF Note, Unissued
      <4>5. QED
        BY <4>4 DEF Unissued
    <3>3. QED
      BY <3>1, <3>2
  <2>6. \A a \in Agents : OnFlareOnly(a)' => OnFlareOnly(a)
    BY <1>2, <2>5, FlareOnlyBefore
  <2>7. \A a \in Agents : OnFlareOnly(a)' => a # b
    BY <1>2, <2>1, <2>2 DEF OnFlareOnly
  <2>8. QED
    BY <1>2, <2>4, <2>6, <2>7, ElsewhereSettles
<1>6. QED
  BY <1>1, <1>4, <1>5 DEF StartSync, AbandonSync, FinishSync

\* What a step of one request has to do for the books of its agent.
LEMMA RequestSettles ==
  ASSUME SettleInv, [Next]_vars, FlareRequest, NEW r \in Requests, NEW b \in Agents, Others(r),
         overlapped \subseteq overlapped', Alone',
         r \in Busy => request[r].agent = b, r \in Busy' => request'[r].agent = b,
         r \notin Busy => b \in overlapped' \/ Busy = {},
         \A a \in Agents \ {b} : /\ debt'[Flare][a] = debt[Flare][a]
                                 /\ exposure'[a].outstanding = exposure[a].outstanding,
         /\ IF r \in Busy
              THEN Stage(request[r], debt[Flare][b], exposure[b].outstanding)
              ELSE Nil(debt[Flare][b], exposure[b].outstanding)
         => IF r \in Busy'
              THEN Stage(request[r], debt[Flare][b], exposure[b].outstanding)'
              ELSE Nil(debt[Flare][b], exposure[b].outstanding)'
  PROVE  SettleInv'
<1>1. BackedInv' /\ UNCHANGED <<notes, log>>
  BY BackedStep, FlareApart DEF SettleInv
<1>2. SUFFICES ASSUME NEW a \in Agents \ overlapped', OnFlareOnly(a)
               PROVE  Settles(a)'
  BY <1>1 DEF SettleInv, OnFlareOnly, Unissued
<1>3. Settles(a) /\ a \notin overlapped
  BY <1>2 DEF SettleInv
<1>4. /\ Busy \subseteq Requests /\ Busy' \subseteq Requests
      /\ \A s \in Requests \ {r} : (s \in Busy' <=> s \in Busy) /\ request'[s] = request[s]
  BY DEF Others, Busy
<1>5. CASE a # b
  <2>1. BusyOf(a)' = BusyOf(a) /\ \A s \in BusyOf(a) : request'[s] = request[s]
    <3>1. r \notin BusyOf(a) /\ r \notin BusyOf(a)'
      BY <1>5 DEF BusyOf
    <3>2. \A s \in Requests \ {r} : s \in BusyOf(a)' <=> s \in BusyOf(a)
      BY <1>4 DEF BusyOf
    <3>3. BusyOf(a) \subseteq Requests /\ BusyOf(a)' \subseteq Requests
      BY <1>4 DEF BusyOf
    <3>4. \A s : s \in BusyOf(a)' <=> s \in BusyOf(a)
      BY <3>1, <3>2, <3>3
    <3>5. BusyOf(a)' = BusyOf(a)
      BY <3>4
    <3>6. \A s \in BusyOf(a) : request'[s] = request[s]
      BY <1>4, <3>1, <3>3
    <3>7. QED
      BY <3>5, <3>6
  <2>2. QED
    BY <1>3, <1>5, <2>1, SettlesStay
<1>6. CASE a = b
  <2>1. /\ r \in Busy => Busy = {r}
        /\ r \notin Busy => Busy = {}
    BY <1>2, <1>3, <1>6 DEF SettleInv, Alone
  <2>2. IF r \in Busy
          THEN Stage(request[r], debt[Flare][b], exposure[b].outstanding)
          ELSE Nil(debt[Flare][b], exposure[b].outstanding)
    BY <1>3, <1>6, <2>1 DEF Settles, BusyOf
  <2>3. Busy' \subseteq {r}
    BY <1>4, <2>1
  <2>4. QED
    BY <1>6, <2>2, <2>3 DEF Settles, BusyOf
<1>7. QED
  BY <1>5, <1>6

\* A request that starts, goes on, or ends is alone, or overlaps.
LEMMA AloneMoves ==
  ASSUME SettleInv, NEW r \in Requests, Others(r),
         \/ /\ r \notin Busy /\ r \in Busy' /\ Starts(request'[r].agent)
         \/ /\ r \in Busy /\ UNCHANGED overlapped
            /\ r \in Busy' => request'[r].agent = request[r].agent
  PROVE  Alone' /\ overlapped \subseteq overlapped'
<1>1. /\ Busy \subseteq Requests /\ Busy' \subseteq Requests
      /\ \A s \in Requests \ {r} : (s \in Busy' <=> s \in Busy) /\ request'[s] = request[s]
  BY DEF Others, Busy
<1>2. overlapped \subseteq overlapped'
  BY DEF Starts
<1>3. SUFFICES ASSUME NEW s \in Busy', request'[s].agent \notin overlapped'
               PROVE  Busy' = {s}
  BY <1>2 DEF Alone
<1>4. CASE r \notin Busy /\ r \in Busy' /\ Starts(request'[r].agent)
  <2>1. Busy = {}
    <3>1. SUFFICES ASSUME Busy # {} PROVE FALSE
      OBVIOUS
    <3>2. overlapped' = overlapped \cup {request'[r].agent} \cup {request[x].agent : x \in Busy}
      BY <1>4, <3>1 DEF Starts
    <3>3. CASE s = r
      BY <1>3, <3>2, <3>3
    <3>4. CASE s # r
      <4>1. s \in Busy /\ request'[s].agent = request[s].agent
        BY <1>1, <1>3, <3>4
      <4>2. QED
        BY <1>3, <3>2, <4>1
    <3>5. QED
      BY <3>3, <3>4
  <2>2. Busy' = {r}
    BY <1>1, <1>4, <2>1
  <2>3. QED
    BY <1>3, <2>2
<1>5. CASE /\ r \in Busy /\ UNCHANGED overlapped
           /\ r \in Busy' => request'[r].agent = request[r].agent
  <2>1. s \in Busy /\ request[s].agent \notin overlapped
    BY <1>1, <1>3, <1>5
  <2>2. Busy = {s}
    BY <2>1 DEF SettleInv, Alone
  <2>3. s = r
    BY <1>5, <2>2
  <2>4. QED
    BY <1>1, <1>3, <2>2, <2>3
<1>6. QED
  BY <1>4, <1>5

\* The Flare debt and the exposure of one agent move.
LEMMA AuthorizeDrawSettles ==
  ASSUME SettleInv, [Next]_vars, FlareRequest, NEW r \in Requests, NEW a \in Agents,
         NEW amount \in Amounts, NEW price \in Prices, AuthorizeDraw(r, a, amount, price)
  PROVE  SettleInv'
<1> DEFINE e   == EnsureAgent(exposure[a], FlareCap)
           usd == amount * price
<1>1. TypeOK /\ Sound(exposure[a]) /\ usd \in Nat /\ usd > 0 /\ amount > 0
  <2>1. amount \in Nat /\ amount > 0 /\ price \in Nat /\ price > 0
    BY OmnichainConstants
  <2>2. amount * price \in Nat /\ amount * price > 0
    BY <2>1
  <2>3. QED
    BY <2>1, <2>2, SettleTypes
<1>2. Sound(e) /\ e.outstanding = exposure[a].outstanding
  BY <1>1, EnsureFacts, ConstantFacts
<1>3. ReserveExposure(e, usd).outstanding = exposure[a].outstanding
  BY <1>1, <1>2, EntryAmounts
<1>4. UNCHANGED <<debt, notes, log>>
  BY DEF AuthorizeDraw, vaults, relayer
<1>5. \/ /\ exposure' = [exposure EXCEPT ![a] = ReserveExposure(e, usd)]
         /\ Others(r) /\ Starts(a) /\ request[r].pc = "none"
         /\ request'[r].pc \in {"pricing", "undone"} /\ request'[r].agent = a
         /\ request'[r].amount = amount /\ request'[r].usd = usd
      \/ /\ exposure' = [exposure EXCEPT ![a] = e]
         /\ UNCHANGED <<request, overlapped>>
  BY <1>1, AuthorizeFacts
<1> HIDE DEF e, usd
<1>6. \A b \in Agents : exposure'[b].outstanding = exposure[b].outstanding
  BY <1>1, <1>2, <1>3, <1>5, EntryMoves
<1>7. CASE UNCHANGED <<request, overlapped>>
  BY <1>4, <1>6, <1>7, ElsewhereSettles DEF OnFlareOnly, Unissued
<1>8. CASE /\ Others(r) /\ Starts(a) /\ request[r].pc = "none"
           /\ request'[r].pc \in {"pricing", "undone"} /\ request'[r].agent = a
           /\ request'[r].amount = amount /\ request'[r].usd = usd
  <2>1. r \notin Busy /\ r \in Busy'
    BY <1>8 DEF Busy
  <2>2. Alone' /\ overlapped \subseteq overlapped'
    BY <1>8, <2>1, AloneMoves
  <2>3. a \in overlapped' \/ Busy = {}
    BY <1>8 DEF Starts
  <2>4. Nil(debt[Flare][a], exposure[a].outstanding)
          => Stage(request[r], debt[Flare][a], exposure[a].outstanding)'
    BY <1>1, <1>4, <1>6, <1>8 DEF Stage, Nil
  <2>5. QED
    BY <1>4, <1>6, <1>8, <2>1, <2>2, <2>3, <2>4, RequestSettles
<1>9. QED
  BY <1>5, <1>7, <1>8

LEMMA StartRepaySettles ==
  ASSUME SettleInv, [Next]_vars, FlareRequest, NEW r \in Requests, NEW a \in Agents,
         NEW amount \in Amounts, StartRepay(r, a, amount)
  PROVE  SettleInv'
<1> DEFINE owe  == debt[Flare][a]
           paid == IF amount > owe THEN owe ELSE amount
<1>1. /\ TypeOK /\ debt \in [AllChains -> [Agents -> Int]] /\ Flare \in AllChains
      /\ amount \in Nat /\ amount > 0 /\ owe \in Int
  BY SettleTypes, OmnichainConstants
<1>2. /\ Others(r) /\ request[r].pc = "none" /\ Starts(a)
      /\ request'[r].pc = "repaying" /\ request'[r].agent = a
      /\ request'[r].amount = amount /\ request'[r].debtBefore = owe
      /\ request'[r].paid = paid
  BY <1>1, StartRepayFacts
<1>3. exposure' = exposure /\ debt' = [debt EXCEPT ![Flare][a] = @ - paid]
  BY DEF StartRepay, root
<1>4. paid \in Int /\ paid = Lesser(amount, owe)
  BY <1>1 DEF Lesser
<1> HIDE DEF paid
<1>5. /\ debt'[Flare][a] = owe - paid
      /\ \A b \in Agents \ {a} : debt'[Flare][b] = debt[Flare][b]
  BY <1>1, <1>3
<1>6. r \notin Busy /\ r \in Busy'
  BY <1>2 DEF Busy
<1>7. Alone' /\ overlapped \subseteq overlapped'
  BY <1>2, <1>6, AloneMoves
<1>8. a \in overlapped' \/ Busy = {}
  BY <1>2 DEF Starts
<1> HIDE DEF owe
<1>9. debt'[Flare][a] + paid = owe
  BY <1>1, <1>4, <1>5
<1>10. Nil(owe, exposure[a].outstanding)
        => Stage(request[r], debt[Flare][a], exposure[a].outstanding)'
  BY <1>1, <1>2, <1>3, <1>4, <1>9 DEF Stage
<1>11. QED
  BY <1>2, <1>3, <1>5, <1>6, <1>7, <1>8, <1>10, RequestSettles DEF owe

\* Between its ends a request keeps its terms and its agent.
LEMMA GotoSettles ==
  ASSUME SettleInv, [Next]_vars, FlareRequest, NEW r \in Busy, NEW b \in Agents,
         b = request[r].agent, NEW pc \in {"undone", "executing", "drawn", "repaid"},
         Goto(r, pc), UNCHANGED <<exposure, overlapped>>,
         \A a \in Agents \ {b} : debt'[Flare][a] = debt[Flare][a],
         Stage(request[r], debt[Flare][b], exposure[b].outstanding)
           => Stage([request[r] EXCEPT !.pc = pc], debt'[Flare][b], exposure[b].outstanding)
  PROVE  SettleInv'
<1>1. TypeOK /\ r \in Requests /\ request \in [Requests -> Request]
  BY SettleTypes DEF Busy, TypeOK
<1>2. request'[r] = [request[r] EXCEPT !.pc = pc]
  BY <1>1 DEF Goto
<1>3. Others(r) /\ request'[r].pc = pc /\ request'[r].agent = b
  BY <1>1, GotoFacts
<1>4. r \in Busy'
  BY <1>1, <1>3 DEF Busy
<1>5. Alone' /\ overlapped \subseteq overlapped'
  BY <1>1, <1>3, <1>4, AloneMoves
<1>6. exposure' = exposure
  OBVIOUS
<1>7. Stage(request[r], debt[Flare][b], exposure[b].outstanding)
        => Stage(request[r], debt[Flare][b], exposure[b].outstanding)'
  BY <1>2, <1>6 DEF Stage, Nil
<1>8. QED
  BY <1>1, <1>3, <1>4, <1>5, <1>6, <1>7, RequestSettles

\* A request that ends leaves nothing owed exactly when nothing is outstanding.
LEMMA EndsSettles ==
  ASSUME SettleInv, [Next]_vars, FlareRequest, NEW r \in Busy, NEW b \in Agents,
         b = request[r].agent, Ends(r), UNCHANGED overlapped,
         \A a \in Agents \ {b} : /\ debt'[Flare][a] = debt[Flare][a]
                                 /\ exposure'[a].outstanding = exposure[a].outstanding,
         Stage(request[r], debt[Flare][b], exposure[b].outstanding)
           => Nil(debt'[Flare][b], exposure'[b].outstanding)
  PROVE  SettleInv'
<1>1. TypeOK /\ r \in Requests
  BY SettleTypes DEF Busy
<1>2. Others(r) /\ request'[r].pc = "done"
  BY <1>1, EndsFacts
<1>3. r \notin Busy'
  BY <1>2 DEF Busy
<1>4. Alone' /\ overlapped \subseteq overlapped'
  BY <1>1, <1>2, <1>3, AloneMoves
<1>5. Stage(request[r], debt[Flare][b], exposure[b].outstanding)
        => Nil(debt[Flare][b], exposure[b].outstanding)'
  BY DEF Nil
<1>6. QED
  BY <1>1, <1>2, <1>3, <1>4, <1>5, RequestSettles

\* A request that moves on keeps its promise, or has kept it.
LEMMA StageMoves ==
  ASSUME NEW q \in Request, NEW m \in Int, NEW o \in Nat, Stage(q, m, o)
  PROVE  /\ q.pc = "pricing" => /\ Stage([q EXCEPT !.pc = "undone"], m, o)
                                /\ Stage([q EXCEPT !.pc = "executing"], m + q.amount, o)
         /\ q.pc = "executing" => /\ Stage([q EXCEPT !.pc = "drawn"], m, o)
                                  /\ Stage([q EXCEPT !.pc = "undone"], m - q.amount, o)
         /\ q.pc = "repaying" => /\ Stage([q EXCEPT !.pc = "repaid"], m, o)
                                 /\ Nil(m + q.paid, o)
         /\ q.pc = "drawn" => Nil(m, o + q.usd)
         /\ q.pc = "undone" => Nil(m, o)
<1>1. /\ q.amount \in Nat /\ q.usd \in Nat /\ q.debtBefore \in Int /\ q.paid \in Int
      /\ q.amount > 0
  BY DEF Request, Stage
<1>2. \A pc \in {"undone", "executing", "drawn", "repaid"} :
        LET p == [q EXCEPT !.pc = pc] IN
        /\ p.pc = pc /\ p.amount = q.amount /\ p.usd = q.usd
        /\ p.debtBefore = q.debtBefore /\ p.paid = q.paid
  BY DEF Request
<1>3. ASSUME q.pc = "pricing"
      PROVE  /\ Stage([q EXCEPT !.pc = "undone"], m, o)
             /\ Stage([q EXCEPT !.pc = "executing"], m + q.amount, o)
  <2>1. Nil(m, o) /\ q.usd > 0
    BY <1>3 DEF Stage
  <2>2. (m + q.amount) - q.amount = m
    BY <1>1
  <2>3. QED
    BY <1>1, <1>2, <2>1, <2>2 DEF Stage
<1>4. ASSUME q.pc = "executing"
      PROVE  /\ Stage([q EXCEPT !.pc = "drawn"], m, o)
             /\ Stage([q EXCEPT !.pc = "undone"], m - q.amount, o)
  BY <1>1, <1>2, <1>4 DEF Stage
<1>5. ASSUME q.pc = "repaying"
      PROVE  /\ Stage([q EXCEPT !.pc = "repaid"], m, o)
             /\ Nil(m + q.paid, o)
  BY <1>1, <1>2, <1>5 DEF Stage
<1>6. ASSUME q.pc = "drawn"
      PROVE  Nil(m, o + q.usd)
  BY <1>1, <1>6 DEF Stage, Nil
<1>7. QED
  BY <1>3, <1>4, <1>5, <1>6 DEF Stage

LEMMA DrawGoesOnSettles ==
  ASSUME SettleInv, [Next]_vars, FlareRequest, NEW r \in Requests,
         \/ \E price \in Prices : CommitDraw(r, price)
         \/ DrawExecuted(r) \/ DrawFailed(r) \/ RepayExecuted(r)
  PROVE  SettleInv'
<1>1. /\ TypeOK /\ debt \in [AllChains -> [Agents -> Int]] /\ Flare \in AllChains
      /\ request[r] \in Request
      /\ \A b \in Agents : debt[Flare][b] \in Int /\ exposure[b].outstanding \in Nat
  BY SettleTypes DEF TypeOK
<1>2. PICK b \in Agents : b = request[r].agent
  BY <1>1 DEF Request
<1>3. request[r].amount \in Int
  BY <1>1 DEF Request
<1>4. r \in Busy /\ UNCHANGED <<exposure, overlapped>>
  BY DEF CommitDraw, DrawExecuted, DrawFailed, RepayExecuted, root, history, Busy
<1>5. CASE /\ request[r].pc = "pricing" /\ Goto(r, "executing")
           /\ debt' = [debt EXCEPT ![Flare][b] = @ + request[r].amount]
  <2>1. /\ \A a \in Agents \ {b} : debt'[Flare][a] = debt[Flare][a]
        /\ debt'[Flare][b] = debt[Flare][b] + request[r].amount
    BY <1>1, <1>5
  <2>2. QED
    BY <1>1, <1>2, <1>4, <1>5, <2>1, StageMoves, GotoSettles
<1>6. CASE /\ request[r].pc = "executing" /\ Goto(r, "undone")
           /\ debt' = [debt EXCEPT ![Flare][b] = @ - request[r].amount]
  <2>1. /\ \A a \in Agents \ {b} : debt'[Flare][a] = debt[Flare][a]
        /\ debt'[Flare][b] = debt[Flare][b] - request[r].amount
    BY <1>1, <1>6
  <2>2. QED
    BY <1>1, <1>2, <1>4, <1>6, <2>1, StageMoves, GotoSettles
<1>7. CASE /\ debt' = debt
           /\ \/ request[r].pc = "pricing" /\ Goto(r, "undone")
              \/ request[r].pc = "executing" /\ Goto(r, "drawn")
              \/ request[r].pc = "repaying" /\ Goto(r, "repaid")
  BY <1>1, <1>2, <1>4, <1>7, StageMoves, GotoSettles
<1>8. QED
  BY <1>2, <1>5, <1>6, <1>7 DEF CommitDraw, DrawExecuted, DrawFailed, RepayExecuted, vaults

LEMMA BookDrawSettles ==
  ASSUME SettleInv, [Next]_vars, FlareRequest, NEW r \in Requests, BookDraw(r)
  PROVE  SettleInv'
<1>1. /\ TypeOK /\ NotesSound /\ ReservationsBacked /\ request[r] \in Request
      /\ \A b \in Agents : /\ Sound(exposure[b]) /\ debt[Flare][b] \in Int
                          /\ exposure[b].outstanding \in Nat
  BY SettleTypes DEF TypeOK
<1>2. PICK b \in Agents : b = request[r].agent
  BY <1>1 DEF Request
<1>3. PICK m \in Nat : m = request[r].usd
  BY <1>1 DEF Request
<1>4. r \in Busy /\ r \in BusyOf(b) /\ Ends(r) /\ UNCHANGED <<debt, overlapped>>
  BY <1>2 DEF BookDraw, BusyOf, Busy, vaults
<1>5. m <= exposure[b].reserved
  BY <1>1, <1>3, <1>4, Covered
<1>6. CASE /\ request[r].pc = "drawn"
           /\ exposure' = [exposure EXCEPT ![b] = ActivateExposure(exposure[b], m)]
  <2>1. ActivateExposure(exposure[b], m).outstanding = exposure[b].outstanding + m
    BY <1>1, <1>5, EntryCovered
  <2>2. /\ exposure'[b].outstanding = exposure[b].outstanding + m
        /\ \A a \in Agents \ {b} : exposure'[a] = exposure[a]
    BY <1>1, <1>6, <2>1, EntryMoves
  <2>3. Stage(request[r], debt[Flare][b], exposure[b].outstanding)
          => Nil(debt'[Flare][b], exposure'[b].outstanding)
    <3>1. debt'[Flare][b] = debt[Flare][b] /\ debt[Flare][b] \in Int
          /\ exposure[b].outstanding \in Nat
      BY <1>1, <1>4
    <3>2. Stage(request[r], debt[Flare][b], exposure[b].outstanding)
            => Nil(debt[Flare][b], exposure[b].outstanding + request[r].usd)
      BY <1>1, <1>6, <3>1, StageMoves
    <3>3. QED
      BY <1>3, <2>2, <3>1, <3>2
  <2>4. QED
    BY <1>2, <1>4, <2>2, <2>3, EndsSettles
<1>7. CASE /\ request[r].pc = "undone"
           /\ exposure' = [exposure EXCEPT ![b] = ReleaseReservation(exposure[b], m)]
  <2>1. ReleaseReservation(exposure[b], m).outstanding = exposure[b].outstanding
    BY <1>1, EntryAmounts
  <2>2. \A a \in Agents : exposure'[a].outstanding = exposure[a].outstanding
    BY <1>1, <1>7, <2>1, EntryMoves
  <2>3. Stage(request[r], debt[Flare][b], exposure[b].outstanding)
          => Nil(debt'[Flare][b], exposure'[b].outstanding)
    BY <1>1, <1>4, <1>7, <2>2, StageMoves
  <2>4. QED
    BY <1>2, <1>4, <2>2, <2>3, EndsSettles
<1>8. QED
  BY <1>2, <1>3, <1>6, <1>7 DEF BookDraw

LEMMA RepayFailedSettles ==
  ASSUME SettleInv, [Next]_vars, FlareRequest, NEW r \in Requests, RepayFailed(r)
  PROVE  SettleInv'
<1>1. /\ TypeOK /\ debt \in [AllChains -> [Agents -> Int]] /\ Flare \in AllChains
      /\ request[r] \in Request
      /\ \A b \in Agents : debt[Flare][b] \in Int /\ exposure[b].outstanding \in Nat
  BY SettleTypes DEF TypeOK
<1>2. PICK b \in Agents : b = request[r].agent
  BY <1>1 DEF Request
<1>3. PICK m \in Int : m = request[r].paid
  BY <1>1 DEF Request
<1>4. /\ r \in Busy /\ Ends(r) /\ UNCHANGED <<exposure, overlapped>>
      /\ request[r].pc = "repaying" /\ debt' = [debt EXCEPT ![Flare][b] = @ + m]
  BY <1>2, <1>3 DEF RepayFailed, root, history, Busy
<1>5. /\ \A a \in Agents \ {b} : debt'[Flare][a] = debt[Flare][a]
      /\ debt'[Flare][b] = debt[Flare][b] + m
  BY <1>1, <1>4
<1>6. Stage(request[r], debt[Flare][b], exposure[b].outstanding)
        => Nil(debt'[Flare][b], exposure'[b].outstanding)
  BY <1>1, <1>3, <1>4, <1>5, StageMoves
<1>7. QED
  BY <1>2, <1>4, <1>5, <1>6, EndsSettles

\* The share of the exposure that is released is all of it exactly when the debt is paid.
LEMMA BookRepaySettles ==
  ASSUME SettleInv, [Next]_vars, FlareRequest, NEW r \in Requests, BookRepay(r)
  PROVE  SettleInv'
<1>1. /\ TypeOK /\ request[r] \in Request
      /\ \A b \in Agents : /\ Sound(exposure[b]) /\ debt[Flare][b] \in Int
                          /\ exposure[b].outstanding \in Nat
  BY SettleTypes DEF TypeOK
<1>2. PICK b \in Agents : b = request[r].agent
  BY <1>1 DEF Request
<1> DEFINE m == Release(r)
           o == exposure[b].outstanding
           d == request[r].debtBefore
           p == Lesser(request[r].amount, d)
<1>3. m \in 0..o
  BY <1>1, <1>2, ReleaseShare
<1>4. /\ r \in Busy /\ Ends(r) /\ UNCHANGED <<debt, overlapped>>
      /\ request[r].pc = "repaid"
      /\ exposure' = [exposure EXCEPT ![b] = DecreaseExposure(exposure[b], m)]
  BY <1>2 DEF BookRepay, vaults, Busy
<1>5. o \in Nat /\ d \in Int /\ request[r].amount \in Nat /\ debt[Flare][b] \in Int
  BY <1>1 DEF Request
<1>6. m = IF d > 0 THEN (o * p) \div d ELSE 0
  BY <1>2 DEF Release
<1>7. /\ exposure'[b].outstanding = o - m
      /\ \A a \in Agents \ {b} : exposure'[a] = exposure[a]
  <2>1. DecreaseExposure(exposure[b], m).outstanding = o - m
    <3> HIDE DEF m
    <3>1. QED
      BY <1>1, <1>3 DEF DecreaseExposure, Lesser, Sound, Exposure
  <2> HIDE DEF m
  <2>2. QED
    BY <1>1, <1>4, <2>1, EntryMoves
<1>8. ASSUME Stage(request[r], debt[Flare][b], o)
      PROVE  Nil(debt[Flare][b], o - m)
  <2>1. /\ request[r].amount > 0 /\ Nil(d, o)
        /\ debt[Flare][b] + p = d
    BY <1>4, <1>8 DEF Stage
  <2>2. CASE d = 0
    <3>1. o = 0 /\ m = 0 /\ p = 0
      BY <1>5, <1>6, <2>1, <2>2 DEF Nil, Lesser
    <3>2. debt[Flare][b] = 0
      <4> HIDE DEF p, m, o, d
      <4>1. QED
        BY <1>5, <2>1, <2>2, <3>1 DEF o
    <3>3. QED
      BY <3>1, <3>2 DEF Nil
  <2>3. CASE d # 0
    <3>1. d \in Nat /\ d > 0 /\ o > 0
      BY <1>5, <2>1, <2>3 DEF Nil
    <3>2. p \in Nat /\ p <= d /\ p > 0
      BY <1>5, <2>1, <3>1 DEF Lesser
    <3>3. m = (o * p) \div d
      BY <1>6, <3>1
    <3> HIDE DEF p, m, o, d
    <3>4. m \in 0..o /\ (p < d => m < o) /\ (p = d => m = o)
      BY <1>5, <3>1, <3>2, <3>3, ShareFacts
    <3>5. debt[Flare][b] = d - p
      BY <1>5, <2>1, <3>1, <3>2
    <3>6. QED
      BY <1>5, <3>1, <3>2, <3>4, <3>5 DEF Nil
  <2>4. QED
    BY <2>2, <2>3
<1>9. Stage(request[r], debt[Flare][b], exposure[b].outstanding)
        => Nil(debt'[Flare][b], exposure'[b].outstanding)
  BY <1>4, <1>7, <1>8
<1> HIDE DEF m, o, d, p
<1>10. QED
  BY <1>2, <1>4, <1>7, <1>9, EndsSettles

\* Debt and exposure on Flare end together.
LEMMA SettleStep == SettleInv /\ [Next]_vars => SettleInv'
<1> SUFFICES ASSUME SettleInv, [Next]_vars
             PROVE  SettleInv'
  OBVIOUS
<1>1. CASE FlareRequest
  <2>1. PICK r \in Requests :
          \/ \E a \in Agents, amount \in Amounts :
               \/ \E price \in Prices : AuthorizeDraw(r, a, amount, price)
               \/ StartRepay(r, a, amount)
          \/ \E price \in Prices : CommitDraw(r, price)
          \/ DrawExecuted(r) \/ DrawFailed(r) \/ BookDraw(r)
          \/ RepayExecuted(r) \/ RepayFailed(r) \/ BookRepay(r)
    BY <1>1 DEF FlareRequest
  <2>2. QED
    BY <1>1, <2>1, AuthorizeDrawSettles, StartRepaySettles, DrawGoesOnSettles,
       BookDrawSettles, RepayFailedSettles, BookRepaySettles
<1>2. CASE UNCHANGED vars
  <2>1. UNCHANGED <<request, overlapped, notes, log, debt, exposure>>
    BY <1>2 DEF vars, root, vaults, relayer, history
  <2>2. QED
    BY <2>1, ElsewhereSettles DEF OnFlareOnly, Unissued
<1>3. QED
  BY <1>1, <1>2, RootSettles, VaultSettles, RelaySettles DEF Next

LEMMA SettleInit == Init => SettleInv
<1> SUFFICES ASSUME Init PROVE SettleInv
  OBVIOUS
<1>1. Busy = {}
  BY DEF Init, Busy, NoRequest
<1>2. \A a \in Agents : debt[Flare][a] = 0 /\ exposure[a].outstanding = 0
  BY DEF Init, AllChains, NoExposure
<1>3. \A a \in Agents : BusyOf(a) = {}
  BY <1>1 DEF BusyOf
<1>4. \A a \in Agents : Settles(a)
  BY <1>2, <1>3 DEF Settles, Nil
<1>5. Alone
  BY <1>1 DEF Alone
<1>6. QED
  BY <1>4, <1>5, BackedInit DEF SettleInv

\* An agent that borrows on Flare alone, one request at a time, owes FXRP if and only if
\* it has exposure outstanding (satellite.ts:168, "price-independent").
THEOREM OmnichainFlareSettles == Spec => []FlareSettlesTogether
<1>1. SettleInv => FlareSettlesTogether
  <2> SUFFICES ASSUME SettleInv, NEW a \in Agents \ overlapped, OnFlareOnly(a),
                      \A r \in Busy : request[r].agent # a
               PROVE  debt[Flare][a] = 0 <=> exposure[a].outstanding = 0
    BY DEF FlareSettlesTogether, OnFlareOnly
  <2>1. Settles(a) /\ BusyOf(a) = {}
    BY DEF SettleInv, BusyOf
  <2>2. QED
    BY <2>1 DEF Settles, Nil
<1>2. Spec => []SettleInv
  BY SettleInit, SettleStep, PTL DEF Spec
<1>3. QED
  BY <1>1, <1>2, PTL

===============================================================================
