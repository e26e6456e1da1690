--------------------------- MODULE OmnichainCredit ---------------------------
(***************************************************************************)
(* Credit on many chains under one cap. The Casper root keeps each agent's *)
(* exposure (GlobalExposureManager) and signs Credit Authorization Notes   *)
(* against it; satellite vaults lend on the notes. There are two kinds:    *)
(*                                                                         *)
(*  - on the relay chains (EVM and the like) the vault lends at once and   *)
(*    logs an event; CasperRootRelayer reads the log from its checkpoint   *)
(*    and books one event after the other, awaiting each;                  *)
(*  - the Flare satellite reserves, lends, executes and books within one   *)
(*    request, which awaits a price twice and the execution once.          *)
(*                                                                         *)
(* JavaScript runs one thread, so what lies between two awaits is one step *)
(* and requests overlap at the awaits. Amounts are bigints. One sync of a  *)
(* relayer at a time, as its callers do it. Everything is in memory: a     *)
(* restart loses the ledger and the vaults alike and is not modelled.      *)
(***************************************************************************)
EXTENDS ExposureBook, Integers, Sequences, FiniteSets, Functions

CONSTANTS
  Agents,
  Chains,        \* the relay chains
  Flare,         \* the Flare satellite's chain
  Notes,         \* notes for relay chains; each is issued once
  NoNote,
  Requests,      \* Flare requests, each made once
  Caps,          \* caps a policy sets, that of a Flare draw among them
  FlareCap,      \* DEFAULT_EXPOSURE_CAP_USD
  Amounts,       \* amounts asked for
  Prices,        \* readings of the XRP/USD feed
  Liquidity,     \* initial liquidity of a vault
  MaxEvents      \* bound on a chain's log

ASSUME OmnichainConstants ==
  /\ Agents # {} /\ Chains # {} /\ Flare \notin Chains /\ NoNote \notin Notes
  /\ Caps \subseteq Nat \ {0} /\ FlareCap \in Caps
  /\ Amounts \subseteq Nat \ {0} /\ Prices \subseteq Nat \ {0}
  /\ Liquidity \in Nat /\ MaxEvents \in Nat

ASSUME FiniteWorld ==
  IsFiniteSet(Agents) /\ IsFiniteSet(Chains) /\ IsFiniteSet(Notes) /\ IsFiniteSet(Requests)

VARIABLES
  exposure,    \* the root: one record per agent
  notes,       \* the root: the notes, and whether their time is over
  liquidity,   \* the vaults
  debt,
  drawn,       \* what the vaults lent on each note
  log,         \* events of each relay chain
  checkpoint,  \* the relayer of each chain: events booked for good,
  sync,        \* and the snapshot it is working through
  request,     \* Flare requests
  \* history
  flareUsd,    \* outstanding exposure that Flare requests activated, less released
  loose,       \* agents whose books are known to be off
  overlapped   \* agents with Flare requests that overlapped another

root      == <<exposure, notes>>
vaults    == <<liquidity, debt, drawn>>
relayer   == <<log, checkpoint, sync>>
history   == <<flareUsd, loose, overlapped>>
vars      == <<root, vaults, relayer, request, history>>

AllChains == Chains \cup {Flare}

Event ==
  [type: {"CreditDrawn", "CreditRepaid"}, agent: Agents, note: Notes \cup {NoNote},
   amount: Amounts]

NoSync == [next |-> 0, last |-> 0]

Unissued(n) == notes[n].status = "none"

NoRequest ==
  [pc |-> "none", agent |-> CHOOSE a \in Agents : TRUE, amount |-> 0, usd |-> 0,
   debtBefore |-> 0, paid |-> 0]

Init ==
  /\ exposure = [a \in Agents |-> NoExposure]
  /\ notes = [n \in Notes |->
       [status |-> "none", agent |-> CHOOSE a \in Agents : TRUE,
        chain |-> CHOOSE c \in Chains : TRUE, max_draw |-> 0, expired |-> FALSE]]
  /\ liquidity = [c \in AllChains |-> Liquidity]
  /\ debt = [c \in AllChains |-> [a \in Agents |-> 0]]
  /\ drawn = [n \in Notes |-> 0]
  /\ log = [c \in Chains |-> <<>>]
  /\ checkpoint = [c \in Chains |-> 0]
  /\ sync = [c \in Chains |-> NoSync]
  /\ request = [r \in Requests |-> NoRequest]
  /\ flareUsd = [a \in Agents |-> 0]
  /\ loose = {}
  /\ overlapped = {}

-------------------------------------------------------------------------------
(* The root *)

\* A record exists from the first ensure_agent on; before it must() throws.
Known(a) == exposure[a].max_allowed > 0

RaiseCap(a, cap) ==
  /\ exposure' = [exposure EXCEPT ![a] = EnsureAgent(@, cap)]
  /\ UNCHANGED <<notes, vaults, relayer, request, history>>

Freeze(a) ==
  /\ Known(a)
  /\ exposure' = [exposure EXCEPT ![a] = FreezeAgentExposure(@)]
  /\ UNCHANGED <<notes, vaults, relayer, request, history>>

\* issue_can reserves first and signs then; a refused reservation issues nothing.
IssueCan(n, a, c, max) ==
  /\ Unissued(n)
  /\ Known(a)
  /\ CanReserve(exposure[a], max)
  /\ exposure' = [exposure EXCEPT ![a] = ReserveExposure(@, max)]
  /\ notes' = [notes EXCEPT ![n] =
       [status |-> "issued", agent |-> a, chain |-> c, max_draw |-> max,
        expired |-> FALSE]]
  /\ UNCHANGED <<vaults, relayer, request, history>>

\* revoke_can: the vault never hears of it. A note it has lent on, and whose draw is
\* still to be booked, leaves a debt without exposure. The notes of Flare requests are
\* not revoked: nothing does, and their reservation is the request's to release.
RevokeCan(n) ==
  LET a == notes[n].agent IN
  /\ notes[n].status = "issued"
  /\ notes' = [notes EXCEPT ![n].status = "revoked"]
  /\ exposure' = [exposure EXCEPT ![a] = ReleaseReservation(@, notes[n].max_draw)]
  /\ loose' = IF drawn[n] = 0 THEN loose ELSE loose \cup {a}
  /\ UNCHANGED <<vaults, relayer, request, flareUsd, overlapped>>

\* Ten minutes pass.
Expire(n) ==
  /\ ~Unissued(n)
  /\ ~notes[n].expired
  /\ notes' = [notes EXCEPT ![n].expired = TRUE]
  /\ UNCHANGED <<exposure, vaults, relayer, request, history>>

-------------------------------------------------------------------------------
(* A relay chain's vault *)

Emit(c, e) ==
  /\ Len(log[c]) < MaxEvents
  /\ log' = [log EXCEPT ![c] = Append(@, e)]

\* The vault checks what the note says, its own record of notes used and its
\* liquidity; whether the root revoked the note it cannot know.
DrawOnNote(n, amount) ==
  LET c == notes[n].chain
      a == notes[n].agent
  IN
  /\ ~Unissued(n)
  /\ ~notes[n].expired
  /\ drawn[n] = 0
  /\ amount <= notes[n].max_draw
  /\ amount <= liquidity[c]
  /\ drawn' = [drawn EXCEPT ![n] = amount]
  /\ liquidity' = [liquidity EXCEPT ![c] = @ - amount]
  /\ debt' = [debt EXCEPT ![c][a] = @ + amount]
  /\ Emit(c, [type |-> "CreditDrawn", agent |-> a, note |-> n, amount |-> amount])
  /\ loose' = IF notes[n].status = "revoked" THEN loose \cup {a} ELSE loose
  /\ UNCHANGED <<root, checkpoint, sync, request, flareUsd, overlapped>>

\* The vault takes what is owed; the adapter logs what was offered.
RepayVault(c, a, amount) ==
  LET paid == Lesser(amount, debt[c][a]) IN
  /\ debt' = [debt EXCEPT ![c][a] = @ - paid]
  /\ liquidity' = [liquidity EXCEPT ![c] = @ + paid]
  /\ Emit(c, [type |-> "CreditRepaid", agent |-> a, note |-> NoNote, amount |-> amount])
  /\ loose' = IF amount > paid THEN loose \cup {a} ELSE loose
  /\ UNCHANGED <<root, drawn, checkpoint, sync, request, flareUsd, overlapped>>

-------------------------------------------------------------------------------
(* The relayer *)

Syncing(c) == sync[c].last > 0

NextEvent(c) == log[c][sync[c].next]

StartSync(c) ==
  /\ ~Syncing(c)
  /\ checkpoint[c] < Len(log[c])
  /\ sync' = [sync EXCEPT ![c] = [next |-> checkpoint[c] + 1, last |-> Len(log[c])]]
  /\ UNCHANGED <<root, vaults, log, checkpoint, request, history>>

Routed(c) == sync' = [sync EXCEPT ![c].next = @ + 1]

\* consume_can, and confirmSatelliteDraw, which turns its error into a rejection: only
\* an issued note is consumed, and what it was not drawn for stays reserved.
RouteDraw(c) ==
  LET e == NextEvent(c) IN
  /\ Syncing(c) /\ sync[c].next <= sync[c].last
  /\ e.type = "CreditDrawn"
  /\ \/ /\ notes[e.note].status = "issued"
        /\ notes' = [notes EXCEPT ![e.note].status = "consumed"]
        /\ exposure' = [exposure EXCEPT ![e.agent] = ActivateExposure(@, e.amount)]
     \/ /\ notes[e.note].status # "issued"
        /\ UNCHANGED root
  /\ Routed(c)
  /\ UNCHANGED <<vaults, log, checkpoint, request, history>>

RouteRepay(c) ==
  LET e == NextEvent(c) IN
  /\ Syncing(c) /\ sync[c].next <= sync[c].last
  /\ e.type = "CreditRepaid"
  /\ Known(e.agent)
  /\ exposure' = [exposure EXCEPT ![e.agent] = DecreaseExposure(@, e.amount)]
  /\ Routed(c)
  /\ UNCHANGED <<notes, vaults, log, checkpoint, request, history>>

\* A repayment of an agent the root does not know throws: the sync ends with its
\* checkpoint where it was, and the next one books the same repayments again.
AbandonSync(c) ==
  LET e == NextEvent(c) IN
  /\ Syncing(c) /\ sync[c].next <= sync[c].last
  /\ e.type = "CreditRepaid"
  /\ ~Known(e.agent)
  /\ sync' = [sync EXCEPT ![c] = NoSync]
  /\ loose' = loose \cup
       {log[c][i].agent : i \in {j \in checkpoint[c] + 1 .. sync[c].next - 1 :
                                   log[c][j].type = "CreditRepaid"}}
  /\ UNCHANGED <<root, vaults, log, checkpoint, request, flareUsd, overlapped>>

\* Broken variant: the checkpoint stays.
FinishSyncForgetful(c) ==
  /\ Syncing(c) /\ sync[c].next > sync[c].last
  /\ sync' = [sync EXCEPT ![c] = NoSync]
  /\ UNCHANGED <<root, vaults, log, checkpoint, request, history>>

FinishSync(c) ==
  /\ Syncing(c) /\ sync[c].next > sync[c].last
  /\ checkpoint' = [checkpoint EXCEPT ![c] = sync[c].last]
  /\ sync' = [sync EXCEPT ![c] = NoSync]
  /\ UNCHANGED <<root, vaults, log, request, history>>

-------------------------------------------------------------------------------
(* Flare requests *)

Busy == {r \in Requests : request[r].pc \notin {"none", "done"}}

\* A request has started: it overlaps those under way, and they overlap it.
Starts(a) ==
  overlapped' = IF Busy = {} THEN overlapped
                ELSE overlapped \cup {a} \cup {request[r].agent : r \in Busy}

Goto(r, pc) == request' = [request EXCEPT ![r].pc = pc]

Ends(r) == request' = [request EXCEPT ![r] = [NoRequest EXCEPT !.pc = "done"]]

\* Broken variant: the vault does not look at its liquidity.
AuthorizeDrawUnfunded(r, a, amount, price) ==
  LET usd == amount * price
      e == EnsureAgent(exposure[a], FlareCap)
  IN
  /\ request[r].pc = "none"
  /\ CanReserve(e, usd)
  /\ exposure' = [exposure EXCEPT ![a] = ReserveExposure(e, usd)]
  /\ request' = [request EXCEPT ![r] =
       [NoRequest EXCEPT !.pc = "pricing", !.agent = a, !.amount = amount, !.usd = usd]]
  /\ Starts(a)
  /\ UNCHANGED <<notes, vaults, relayer, flareUsd, loose>>

\* Priced, the draw raises the cap to the default, reserves its value in dollars, and the
\* vault checks the fresh note and its liquidity; only then it prices the draw again.
AuthorizeDraw(r, a, amount, price) ==
  LET usd == amount * price
      e == EnsureAgent(exposure[a], FlareCap)
  IN
  /\ request[r].pc = "none"
  /\ \/ /\ CanReserve(e, usd)
        /\ exposure' = [exposure EXCEPT ![a] = ReserveExposure(e, usd)]
        /\ request' = [request EXCEPT ![r] =
             [NoRequest EXCEPT
                !.pc = IF amount <= liquidity[Flare] THEN "pricing" ELSE "undone",
                !.agent = a, !.amount = amount, !.usd = usd]]
        /\ Starts(a)
     \/ /\ ~CanReserve(e, usd)
        /\ exposure' = [exposure EXCEPT ![a] = e]
        /\ UNCHANGED <<request, overlapped>>
  /\ UNCHANGED <<notes, vaults, relayer, flareUsd, loose>>

\* The second price is compared with the note; liquidity is not looked at again.
CommitDraw(r, price) ==
  LET q == request[r] IN
  /\ q.pc = "pricing"
  /\ \/ /\ q.amount * price > q.usd
        /\ Goto(r, "undone")
        /\ UNCHANGED <<liquidity, debt>>
     \/ /\ q.amount * price <= q.usd
        /\ liquidity' = [liquidity EXCEPT ![Flare] = @ - q.amount]
        /\ debt' = [debt EXCEPT ![Flare][q.agent] = @ + q.amount]
        /\ Goto(r, "executing")
  /\ UNCHANGED <<root, drawn, relayer, history>>

DrawExecuted(r) ==
  /\ request[r].pc = "executing"
  /\ Goto(r, "drawn")
  /\ UNCHANGED <<root, vaults, relayer, history>>

\* Broken variant: the rollback returns the liquidity and leaves the debt.
DrawFailedKeepsDebt(r) ==
  LET q == request[r] IN
  /\ q.pc = "executing"
  /\ liquidity' = [liquidity EXCEPT ![Flare] = @ + q.amount]
  /\ Goto(r, "undone")
  /\ UNCHANGED <<root, debt, drawn, relayer, history>>

\* Refused in simulation, reverted, timed out or unreachable: rollbackDraw.
DrawFailed(r) ==
  LET q == request[r] IN
  /\ q.pc = "executing"
  /\ liquidity' = [liquidity EXCEPT ![Flare] = @ + q.amount]
  /\ debt' = [debt EXCEPT ![Flare][q.agent] = @ - q.amount]
  /\ Goto(r, "undone")
  /\ UNCHANGED <<root, drawn, relayer, history>>

\* Broken variant: a draw that failed keeps its reservation.
BookDrawOnly(r) ==
  LET q == request[r] IN
  /\ \/ /\ q.pc = "drawn"
        /\ exposure' = [exposure EXCEPT ![q.agent] = ActivateExposure(@, q.usd)]
        /\ flareUsd' = [flareUsd EXCEPT ![q.agent] = @ + q.usd]
     \/ /\ q.pc = "undone"
        /\ UNCHANGED <<exposure, flareUsd>>
  /\ Ends(r)
  /\ UNCHANGED <<notes, vaults, relayer, loose, overlapped>>

\* The root activates the reservation of a draw that went through, releases the other.
BookDraw(r) ==
  LET q == request[r] IN
  /\ \/ /\ q.pc = "drawn"
        /\ exposure' = [exposure EXCEPT ![q.agent] = ActivateExposure(@, q.usd)]
        /\ flareUsd' = [flareUsd EXCEPT ![q.agent] = @ + q.usd]
     \/ /\ q.pc = "undone"
        /\ exposure' = [exposure EXCEPT ![q.agent] = ReleaseReservation(@, q.usd)]
        /\ UNCHANGED flareUsd
  /\ Ends(r)
  /\ UNCHANGED <<notes, vaults, relayer, loose, overlapped>>

\* The debt is read, and at once reduced by what is paid of it.
StartRepay(r, a, amount) ==
  LET owed == debt[Flare][a]
      paid == IF amount > owed THEN owed ELSE amount
  IN
  /\ request[r].pc = "none"
  /\ debt' = [debt EXCEPT ![Flare][a] = @ - paid]
  /\ liquidity' = [liquidity EXCEPT ![Flare] = @ + paid]
  /\ request' = [request EXCEPT ![r] =
       [NoRequest EXCEPT !.pc = "repaying", !.agent = a, !.amount = amount,
                           !.debtBefore = owed, !.paid = paid]]
  /\ Starts(a)
  /\ UNCHANGED <<root, drawn, relayer, flareUsd, loose>>

RepayExecuted(r) ==
  /\ request[r].pc = "repaying"
  /\ Goto(r, "repaid")
  /\ UNCHANGED <<root, vaults, relayer, history>>

\* rollbackRepay; nothing is booked.
RepayFailed(r) ==
  LET q == request[r] IN
  /\ q.pc = "repaying"
  /\ debt' = [debt EXCEPT ![Flare][q.agent] = @ + q.paid]
  /\ liquidity' = [liquidity EXCEPT ![Flare] = @ - q.paid]
  /\ Ends(r)
  /\ UNCHANGED <<root, drawn, relayer, history>>

\* Broken variant: the tokens paid, as if each were a dollar.
ReleaseTokens(r) ==
  IF request[r].debtBefore > 0
    THEN Lesser(exposure[request[r].agent].outstanding,
                Lesser(request[r].amount, request[r].debtBefore))
    ELSE 0

\* What a repayment releases: the share of the agent's outstanding exposure that is paid
\* of the debt read before - of all its exposure, whichever chain it stems from.
Release(r) ==
  LET q == request[r] IN
  IF q.debtBefore > 0
    THEN (exposure[q.agent].outstanding * Lesser(q.amount, q.debtBefore)) \div q.debtBefore
    ELSE 0

BookRepay(r) ==
  LET a == request[r].agent IN
  /\ request[r].pc = "repaid"
  /\ exposure' = [exposure EXCEPT ![a] = DecreaseExposure(@, Release(r))]
  /\ flareUsd' = [flareUsd EXCEPT ![a] = @ - Release(r)]
  /\ loose' = IF flareUsd[a] < Release(r) THEN loose \cup {a} ELSE loose
  /\ Ends(r)
  /\ UNCHANGED <<notes, vaults, relayer, overlapped>>

-------------------------------------------------------------------------------
Root ==
  \/ \E a \in Agents :
       \/ \E cap \in Caps : RaiseCap(a, cap)
       \/ Freeze(a)
       \/ \E n \in Notes, c \in Chains, max \in Amounts : IssueCan(n, a, c, max)
  \/ \E n \in Notes : RevokeCan(n) \/ Expire(n)

Vault ==
  \E amount \in Amounts :
    \/ \E n \in Notes : DrawOnNote(n, amount)
    \/ \E c \in Chains, a \in Agents : RepayVault(c, a, amount)

Relay ==
  \E c \in Chains :
    StartSync(c) \/ RouteDraw(c) \/ RouteRepay(c) \/ AbandonSync(c) \/ FinishSync(c)

FlareRequest ==
  \E r \in Requests :
    \/ \E a \in Agents, amount \in Amounts :
         \/ \E price \in Prices : AuthorizeDraw(r, a, amount, price)
         \/ StartRepay(r, a, amount)
    \/ \E price \in Prices : CommitDraw(r, price)
    \/ DrawExecuted(r) \/ DrawFailed(r) \/ BookDraw(r)
    \/ RepayExecuted(r) \/ RepayFailed(r) \/ BookRepay(r)

Next == Root \/ Vault \/ Relay \/ FlareRequest

Spec == Init /\ [][Next]_vars

-------------------------------------------------------------------------------
(* Properties *)

Note ==
  [status: {"none", "issued", "consumed", "revoked"}, agent: Agents, chain: Chains,
   max_draw: Nat, expired: BOOLEAN]

Request ==
  [pc: {"none", "pricing", "executing", "drawn", "undone", "repaying", "repaid", "done"},
   agent: Agents, amount: Nat, usd: Nat, debtBefore: Int, paid: Int]

TypeOK ==
  /\ exposure \in [Agents -> Exposure]
  /\ notes \in [Notes -> Note]
  /\ liquidity \in [AllChains -> Int]
  /\ debt \in [AllChains -> [Agents -> Int]]
  /\ drawn \in [Notes -> Nat]
  /\ log \in [Chains -> Seq(Event)]
  /\ checkpoint \in [Chains -> Nat]
  /\ sync \in [Chains -> [next: Nat, last: Nat]]
  /\ request \in [Requests -> Request]
  /\ flareUsd \in [Agents -> Int]
  /\ loose \subseteq Agents
  /\ overlapped \subseteq Agents

SumOf(S, value(_)) == SumFunctionOnSet([x \in S |-> value(x)], S)

\* An agent's draws and reservations on all chains together stay below its cap, however
\* notes, relayed events and Flare requests overlap (reserve_exposure).
CommittedWithinCap ==
  \A a \in Agents :
    exposure[a].outstanding + exposure[a].reserved <= exposure[a].max_allowed

\* What is reserved is accounted for, to the cent: by notes not booked yet, by the rest of
\* notes that were drawn for less than their limit, which nothing ever releases, and by the
\* Flare requests under way (issue_can, consume_can, revoke_can, satellite.ts draw).
ReservationsBacked ==
  \A a \in Agents :
    exposure[a].reserved =
      SumOf({n \in Notes : notes[n].agent = a /\ notes[n].status = "issued"},
            LAMBDA n : notes[n].max_draw)
      + SumOf({n \in Notes : notes[n].agent = a /\ notes[n].status = "consumed"},
              LAMBDA n : notes[n].max_draw - drawn[n])
      + SumOf({r \in Busy : request[r].agent = a},
              LAMBDA r : request[r].usd)

\* Lent on notes that the root has still to hear of.
UnbookedDraws(a) ==
  SumOf({n \in Notes : notes[n].agent = a /\ notes[n].status = "issued"},
        LAMBDA n : drawn[n])

\* Repayments on c that the root has still to hear of.
UnbookedRepayments(c, a) ==
  LET booked == IF Syncing(c) THEN sync[c].next - 1 ELSE checkpoint[c] IN
  SumOf({i \in booked + 1 .. Len(log[c]) :
           log[c][i].type = "CreditRepaid" /\ log[c][i].agent = a},
        LAMBDA i : log[c][i].amount)

\* The root and the vaults agree on what an agent owes, but for what is still to be relayed,
\* at every moment of every sync and between the steps of every Flare request. Four things
\* break it, each marked loose: offering a vault more than is owed, revoking a note that
\* was or will be drawn on, an abandoned sync, and a Flare repayment that releases more
\* than Flare lent (casper_root_relayer.ts, satellite.ts).
BooksAgree ==
  \A a \in Agents \ loose :
    exposure[a].outstanding + UnbookedDraws(a) =
      SumOf(Chains, LAMBDA c : debt[c][a] + UnbookedRepayments(c, a)) + flareUsd[a]

\* No vault creates or loses money: through failed executions, rolled back in any order,
\* what is lent and what is left are what there was (rollbackDraw, rollbackRepay).
VaultsConserve ==
  \A c \in AllChains :
    liquidity[c] + SumOf(Agents, LAMBDA a : debt[c][a]) = Liquidity

\* Of requests that do not overlap, the Flare vault lends only what it has and takes only
\* what it is owed. Of two that do, each may see the liquidity the other is about to take.
FlareSolvent ==
  overlapped = {} =>
    /\ liquidity[Flare] >= 0
    /\ \A a \in Agents : debt[Flare][a] >= 0

\* An agent that borrows on Flare alone, one request at a time, owes FXRP if and only if
\* it has exposure outstanding, whatever the price did in between and whatever it repaid
\* at a time (satellite.ts:168, "price-independent").
FlareSettlesTogether ==
  \A a \in Agents \ overlapped :
    (/\ \A n \in Notes : notes[n].agent # a \/ Unissued(n)
     /\ \A c \in Chains : \A i \in 1..Len(log[c]) : log[c][i].agent # a
     /\ \A r \in Busy : request[r].agent # a)
      => (debt[Flare][a] = 0 <=> exposure[a].outstanding = 0)

\* The root keeps the promise of a credit line for what it has committed to: draws and
\* reservations together never pass the limit, and nothing is reserved for a frozen agent
\* (what was reserved before may still be drawn).
owed    == [a \in Agents |-> exposure[a].outstanding + exposure[a].reserved]
limit   == [a \in Agents |-> exposure[a].max_allowed]
stopped == {a \in Agents : exposure[a].frozen}

Budget == INSTANCE CreditBudget

BudgetPromise == Budget!Spec
===============================================================================
