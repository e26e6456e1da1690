------------------------------ MODULE SpendGuard ------------------------------
(***************************************************************************)
(* The SpendGuard contract on NEAR (contracts-near/spend_guard): the admin *)
(* authorizes an agent on what the policy grants, which reserves exposure  *)
(* and mints an access key; the key's holder draws on the reservation; the *)
(* admin records repayments, tops the reservation up, and freezes.         *)
(*                                                                         *)
(* A call is atomic and a panic undoes it, but the promises it schedules   *)
(* are receipts that run later and may fail without undoing anything. The  *)
(* receipts a contract sends to its own account run in the order they were *)
(* sent. The gas allowance of a key, the identity sub-account, which holds *)
(* no credit, and the balance of the contract are not modelled.            *)
(***************************************************************************)
EXTENDS ExposureBook, Sequences

CONSTANTS
  Agents,
  Keys,              \* public keys an authorization may name
  NoKey,
  NoAgent,
  Lines,             \* credit lines the policy may grant, zero for a refusal
  Amounts,           \* amounts of draws, repayments and top-ups
  SpikeThreshold,    \* DISPUTE_SPIKE_THRESHOLD
  MaxReceipts,       \* bound on the key receipts under way
  MaxRepaid          \* bound on the repayments reported per agent

ASSUME SpendGuardConstants ==
  /\ NoKey \notin Keys /\ NoAgent \notin Agents
  /\ Lines \subseteq Nat /\ Amounts \subseteq Nat
  /\ SpikeThreshold \in Nat \ {0}
  /\ MaxReceipts \in Nat /\ MaxRepaid \in Nat

VARIABLES
  exposure,     \* the exposure book
  agents,       \* agent records: the spend key and whether it is live
  keysByPubkey, \* the agent a signing key stands for
  disputes,     \* disputes per agent, up to the threshold
  accessKeys,   \* spend keys on the contract's account
  receipts,     \* key receipts the contract has sent to its own account
  inFlight,     \* transfers to sellers under way: how many of each amount
  \* history
  sent,         \* handed to transfers, per agent
  bounced,      \* of that, refunded to the contract because the transfer failed
  repaid        \* repayments reported, per agent

book  == <<exposure, agents, keysByPubkey, disputes>>
money == <<inFlight, sent, bounced>>
vars  == <<exposure, agents, keysByPubkey, disputes, accessKeys, receipts,
           inFlight, sent, bounced, repaid>>

Receipt == [action: {"mint", "retop", "delete"}, key: Keys]

Init ==
  /\ exposure = [a \in Agents |-> NoExposure]
  /\ agents = [a \in Agents |-> [key |-> NoKey, key_active |-> FALSE]]
  /\ keysByPubkey = [k \in Keys |-> NoAgent]
  /\ disputes = [a \in Agents |-> 0]
  /\ accessKeys = {}
  /\ receipts = <<>>
  /\ inFlight = [a \in Agents |-> [n \in Amounts |-> 0]]
  /\ sent = [a \in Agents |-> 0]
  /\ bounced = [a \in Agents |-> 0]
  /\ repaid = [a \in Agents |-> 0]

\* An agent has an exposure record from its first authorization on.
Known(a) == agents[a].key # NoKey

Send(action, k) ==
  /\ Len(receipts) < MaxReceipts
  /\ receipts' = Append(receipts, [action |-> action, key |-> k])

-------------------------------------------------------------------------------
(* Calls *)

\* request_spend_authorization: refused while the agent's key is live, by a policy
\* that grants nothing, and by the book. The same public key may be named twice.
RequestSpendAuthorization(a, k, line) ==
  LET e == EnsureAgent(exposure[a], line) IN
  /\ ~agents[a].key_active
  /\ line > 0
  /\ CanReserve(e, line)
  /\ exposure' = [exposure EXCEPT ![a] = ReserveExposure(e, line)]
  /\ agents' = [agents EXCEPT ![a] = [key |-> k, key_active |-> TRUE]]
  /\ keysByPubkey' = [keysByPubkey EXCEPT ![k] = a]
  /\ Send("mint", k)
  /\ UNCHANGED <<disputes, accessKeys, money, repaid>>

\* Broken variant: the amount is not compared with the reservation, which
\* activate_exposure does not overdraw anyway.
SpendToSellerUnchecked(k, n) ==
  LET a == keysByPubkey[k] IN
  /\ a # NoAgent
  /\ agents[a].key_active
  /\ ~exposure[a].frozen
  /\ n > 0
  /\ sent[a] < exposure[a].max_allowed
  /\ exposure' = [exposure EXCEPT ![a] = ActivateExposure(@, n)]
  /\ inFlight' = [inFlight EXCEPT ![a][n] = @ + 1]
  /\ sent' = [sent EXCEPT ![a] = @ + n]
  /\ UNCHANGED <<agents, keysByPubkey, disputes, accessKeys, receipts, bounced, repaid>>

\* spend_to_seller: the signing key names the agent.
SpendToSeller(k, n) ==
  LET a == keysByPubkey[k] IN
  /\ a # NoAgent
  /\ agents[a].key_active
  /\ ~exposure[a].frozen
  /\ n > 0
  /\ n <= exposure[a].reserved
  /\ exposure' = [exposure EXCEPT ![a] = ActivateExposure(@, n)]
  /\ inFlight' = [inFlight EXCEPT ![a][n] = @ + 1]
  /\ sent' = [sent EXCEPT ![a] = @ + n]
  /\ UNCHANGED <<agents, keysByPubkey, disputes, accessKeys, receipts, bounced, repaid>>

\* repay_credit_line, as the admin reports it, more than is owed included.
RepayCreditLine(a, n) ==
  /\ n > 0
  /\ Known(a)
  /\ repaid[a] + n <= MaxRepaid
  /\ exposure' = [exposure EXCEPT ![a] = DecreaseExposure(@, n)]
  /\ repaid' = [repaid EXCEPT ![a] = @ + n]
  /\ UNCHANGED <<agents, keysByPubkey, disputes, accessKeys, receipts, money>>

\* top_up_allowance: more is reserved and the key minted anew.
TopUpAllowance(a, n) ==
  /\ n > 0
  /\ Known(a)
  /\ agents[a].key_active
  /\ ~exposure[a].frozen
  /\ CanReserve(exposure[a], n)
  /\ exposure' = [exposure EXCEPT ![a] = ReserveExposure(@, n)]
  /\ Send("retop", agents[a].key)
  /\ UNCHANGED <<agents, keysByPubkey, disputes, accessKeys, money, repaid>>

\* What both ways of freezing do: stop the agent, give back what it had reserved.
Frozen(e) == ReleaseReservation(FreezeAgentExposure(e), e.reserved)

Revoke(a) ==
  /\ exposure' = [exposure EXCEPT ![a] = Frozen(@)]
  /\ agents' = [agents EXCEPT ![a].key_active = FALSE]
  /\ Send("delete", agents[a].key)

\* report_dispute_spike: at the threshold the agent is frozen, every time; an agent
\* without an exposure record makes that panic.
ReportDisputeSpike(a, count) ==
  LET reached == disputes[a] + count >= SpikeThreshold IN
  /\ disputes' = [disputes EXCEPT ![a] = Lesser(@ + count, SpikeThreshold)]
  /\ \/ ~reached /\ UNCHANGED <<exposure, agents, receipts>>
     \/ reached /\ Known(a) /\ Revoke(a)
  /\ UNCHANGED <<keysByPubkey, accessKeys, money, repaid>>

\* Broken variant: the key is marked revoked and stays on the account.
EmergencyFreezeKeepsKey(a) ==
  /\ Known(a)
  /\ agents[a].key_active
  /\ exposure' = [exposure EXCEPT ![a] = Frozen(@)]
  /\ agents' = [agents EXCEPT ![a].key_active = FALSE]
  /\ UNCHANGED <<keysByPubkey, disputes, accessKeys, receipts, money, repaid>>

EmergencyFreeze(a) ==
  /\ Known(a)
  /\ agents[a].key_active
  /\ Revoke(a)
  /\ UNCHANGED <<keysByPubkey, disputes, accessKeys, money, repaid>>

-------------------------------------------------------------------------------
(* Receipts *)

\* AddKey fails on a key that is there and DeleteKey on one that is not; "retop" is a
\* DeleteKey and an AddKey that run or fail together.
RunKeyReceipt ==
  /\ receipts # <<>>
  /\ LET r == Head(receipts) IN
     accessKeys' =
       CASE r.action = "mint"   -> accessKeys \cup {r.key}
         [] r.action = "retop"  -> accessKeys
         [] r.action = "delete" -> accessKeys \ {r.key}
  /\ receipts' = Tail(receipts)
  /\ UNCHANGED <<book, money, repaid>>

TransferArrives(a, n) ==
  /\ inFlight[a][n] > 0
  /\ inFlight' = [inFlight EXCEPT ![a][n] = @ - 1]
  /\ UNCHANGED <<book, accessKeys, receipts, sent, bounced, repaid>>

\* The seller's account does not exist: the amount returns to the contract, which has
\* no callback that would hear of it.
TransferFails(a, n) ==
  /\ inFlight[a][n] > 0
  /\ inFlight' = [inFlight EXCEPT ![a][n] = @ - 1]
  /\ bounced' = [bounced EXCEPT ![a] = @ + n]
  /\ UNCHANGED <<book, accessKeys, receipts, sent, repaid>>

Admin ==
  \E a \in Agents :
    \/ \E k \in Keys, line \in Lines : RequestSpendAuthorization(a, k, line)
    \/ \E n \in Amounts : RepayCreditLine(a, n) \/ TopUpAllowance(a, n)
    \/ \E count \in 0..SpikeThreshold : ReportDisputeSpike(a, count)
    \/ EmergencyFreeze(a)

Chain ==
  \/ RunKeyReceipt
  \/ \E a \in Agents, n \in Amounts : TransferArrives(a, n) \/ TransferFails(a, n)

Next ==
  \/ Admin
  \/ \E k \in Keys, n \in Amounts : SpendToSeller(k, n)
  \/ Chain

Spec == Init /\ [][Next]_vars

-------------------------------------------------------------------------------
(* Properties *)

TypeOK ==
  /\ exposure \in [Agents -> Exposure]
  /\ agents \in [Agents -> [key: Keys \cup {NoKey}, key_active: BOOLEAN]]
  /\ keysByPubkey \in [Keys -> Agents \cup {NoAgent}]
  /\ disputes \in [Agents -> 0..SpikeThreshold]
  /\ accessKeys \subseteq Keys
  /\ receipts \in Seq(Receipt)
  /\ inFlight \in [Agents -> [Amounts -> Nat]]
  /\ sent \in [Agents -> Nat]
  /\ bounced \in [Agents -> Nat]
  /\ repaid \in [Agents -> Nat]

\* An agent's draws and reservations together stay below its cap, through every order
\* of draws, repayments, top-ups and freezes (reserve_exposure, activate_exposure).
WithinCap ==
  \A a \in Agents :
    exposure[a].outstanding + exposure[a].reserved <= exposure[a].max_allowed

\* No money leaves for a seller that the book does not hold against the agent, and no
\* more is owed than was sent: without the check in spend_to_seller activate_exposure
\* would silently book less than is sent.
DrawsBooked ==
  \A a \in Agents :
    /\ sent[a] <= exposure[a].outstanding + repaid[a]
    /\ exposure[a].outstanding <= sent[a]

\* A freeze is for good: no call unfreezes an agent, reserves for it, lets it draw or
\* makes its key live again.
FrozenForGood ==
  [][\A a \in Agents : exposure[a].frozen =>
       /\ exposure'[a].frozen /\ exposure'[a].reserved = 0
       /\ ~agents'[a].key_active
       /\ sent'[a] = sent[a]]_vars

\* Once the receipts under way have run, every spend key on the account belongs to an
\* agent whose key is live, however authorizations, top-ups and freezes of agents -
\* of one key, too - overlapped with them.
KeysFollowRecords ==
  receipts = <<>> =>
    \A k \in accessKeys : \E a \in Agents : agents[a].key = k /\ agents[a].key_active

\* The contract keeps the promise of a credit line: through reservations, draws,
\* repayments and freezes an agent owes at most its cap, and nothing is lent to one that
\* was frozen.
owed    == [a \in Agents |-> exposure[a].outstanding]
limit   == [a \in Agents |-> exposure[a].max_allowed]
stopped == {a \in Agents : exposure[a].frozen}

Budget == INSTANCE CreditBudget

BudgetPromise == Budget!Spec

\* What an agent is said to owe reached a seller, once no transfer is under way
\* (activate_exposure: "A draw was confirmed").
DrawsReachSellers ==
  \A a \in Agents :
    (\A n \in Amounts : inFlight[a][n] = 0)
      => exposure[a].outstanding <= sent[a] - bounced[a]
===============================================================================
