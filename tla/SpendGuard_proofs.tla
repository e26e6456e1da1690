--------------------------- MODULE SpendGuard_proofs ---------------------------
(***************************************************************************)
(* The exposure book, the keys and the promise of SpendGuard, for every    *)
(* set of agents, keys and amounts and every bound.                        *)
(***************************************************************************)
EXTENDS SpendGuard, ExposureBook_proofs

-------------------------------------------------------------------------------
(* The exposure book *)

\* A freeze gives back the whole reservation and touches no draw.
LEMMA FrozenFacts ==
  ASSUME NEW e, Sound(e)
  PROVE  LET f == Frozen(e) IN
         /\ Sound(f)
         /\ f.outstanding = e.outstanding /\ f.max_allowed = e.max_allowed
         /\ f.frozen /\ f.reserved = 0
<1> DEFINE g == FreezeAgentExposure(e)
           f == Frozen(e)
<1>1. /\ g = [e EXCEPT !.frozen = TRUE] /\ e \in Exposure
      /\ e.outstanding \in Nat /\ e.reserved \in Nat /\ e.max_allowed \in Nat
  BY DEF Sound, Exposure, FreezeAgentExposure
<1>2. /\ g \in Exposure /\ g.frozen /\ g.reserved = e.reserved
      /\ g.outstanding = e.outstanding /\ g.max_allowed = e.max_allowed
  BY <1>1 DEF Exposure
<1>3. f = [g EXCEPT !.reserved = @ - Lesser(e.reserved, @)]
  BY DEF Frozen, ReleaseReservation
<1>4. g.reserved - Lesser(e.reserved, g.reserved) = 0
  BY <1>1, <1>2 DEF Lesser
<1>5. f = [g EXCEPT !.reserved = 0]
  BY <1>2, <1>3, <1>4 DEF Exposure
<1>6. /\ f \in Exposure /\ f.frozen /\ f.reserved = 0
      /\ f.outstanding = e.outstanding /\ f.max_allowed = e.max_allowed
  BY <1>2, <1>5 DEF Exposure
<1>7. QED
  BY <1>1, <1>6 DEF Sound

-------------------------------------------------------------------------------
(* The invariant *)

\* A frozen agent has no reservation and no live key.
FrozenIdle ==
  \A a \in Agents : exposure[a].frozen =>
    exposure[a].reserved = 0 /\ ~agents[a].key_active

\* A live key is a key.
ActiveKnown ==
  \A a \in Agents : agents[a].key_active => agents[a].key \in Keys

Live(k) == \E a \in Agents : agents[a].key = k /\ agents[a].key_active

\* From the i-th receipt on, a deletion of k is under way.
DeletionComes(k, i) ==
  \E j \in i..Len(receipts) : receipts[j].action = "delete" /\ receipts[j].key = k

\* A key no agent lives by is gone once its receipts have run: every receipt about it
\* has its deletion coming, and so has the key if it is on the account.
KeyQueue ==
  \A k \in Keys : ~Live(k) =>
    /\ \A i \in 1..Len(receipts) : receipts[i].key = k => DeletionComes(k, i)
    /\ k \in accessKeys => DeletionComes(k, 1)

IInv == TypeOK /\ WithinCap /\ DrawsBooked /\ FrozenIdle /\ ActiveKnown /\ KeyQueue

\* In a state of the invariant every entry of the book is sound.
LEMMA EntriesSound ==
  ASSUME TypeOK, WithinCap, NEW a \in Agents
  PROVE  Sound(exposure[a])
BY DEF TypeOK, WithinCap, Sound

LEMMA InitIInv == Init => IInv
<1> SUFFICES ASSUME Init
             PROVE  IInv
  OBVIOUS
<1> USE DEF Init, NoExposure
<1>1. TypeOK
  BY SpendGuardConstants DEF TypeOK, Exposure, Receipt
<1>2. WithinCap /\ DrawsBooked /\ FrozenIdle
  BY DEF WithinCap, DrawsBooked, FrozenIdle
<1>3. ActiveKnown
  BY DEF ActiveKnown
<1>4. KeyQueue
  BY DEF KeyQueue
<1>5. QED
  BY <1>1, <1>2, <1>3, <1>4 DEF IInv

\* What a step does to the book of one agent, with the others left alone: enough for
\* every part of the invariant that speaks of the book.
LEMMA BookStep ==
  ASSUME TypeOK, WithinCap, NEW a \in Agents, NEW e, Sound(e),
         exposure' = [exposure EXCEPT ![a] = e]
  PROVE  /\ exposure' \in [Agents -> Exposure]
         /\ WithinCap'
         /\ exposure'[a] = e
         /\ \A b \in Agents \ {a} : exposure'[b] = exposure[b]
BY DEF TypeOK, WithinCap, Sound

\* Sending a receipt keeps the queue's type and the deletions that were coming.
LEMMA SendFacts ==
  ASSUME TypeOK, NEW k \in Keys, NEW action \in {"mint", "retop", "delete"},
         Send(action, k)
  PROVE  /\ receipts' \in Seq(Receipt)
         /\ Len(receipts') = Len(receipts) + 1
         /\ \A i \in 1..Len(receipts) : receipts'[i] = receipts[i]
         /\ receipts'[Len(receipts) + 1] = [action |-> action, key |-> k]
         /\ \A q \in Keys, i \in Nat \ {0} : DeletionComes(q, i) => DeletionComes(q, i)'
<1> DEFINE r == [action |-> action, key |-> k]
<1>1. r \in Receipt /\ receipts \in Seq(Receipt) /\ receipts' = Append(receipts, r)
  BY DEF Receipt, Send, TypeOK
<1> HIDE DEF r
<1>2. /\ receipts' \in Seq(Receipt)
      /\ Len(receipts') = Len(receipts) + 1 /\ Len(receipts) \in Nat
      /\ \A i \in 1..Len(receipts) : receipts'[i] = receipts[i]
      /\ receipts'[Len(receipts) + 1] = r
  BY <1>1
<1>3. \A q \in Keys, i \in Nat \ {0} : DeletionComes(q, i) => DeletionComes(q, i)'
  <2> SUFFICES ASSUME NEW q \in Keys, NEW i \in Nat \ {0}, NEW j \in i..Len(receipts),
                      receipts[j].action = "delete", receipts[j].key = q
               PROVE  DeletionComes(q, i)'
    BY DEF DeletionComes
  <2>1. j \in i..Len(receipts') /\ receipts'[j] = receipts[j]
    BY <1>2
  <2>2. QED
    BY <2>1 DEF DeletionComes
<1>4. QED
  BY <1>2, <1>3 DEF r

\* A receipt for a key that lives after the step keeps the queue in order.
LEMMA SendLive ==
  ASSUME TypeOK, KeyQueue, NEW k \in Keys, NEW action \in {"mint", "retop"},
         Send(action, k), Live(k)', accessKeys' = accessKeys,
         \A q \in Keys : Live(q) => Live(q)'
  PROVE  KeyQueue'
<1> SUFFICES ASSUME NEW q \in Keys, ~Live(q)'
             PROVE  /\ \A i \in 1..Len(receipts') :
                         receipts'[i].key = q => DeletionComes(q, i)'
                    /\ q \in accessKeys' => DeletionComes(q, 1)'
  BY DEF KeyQueue
<1>1. q # k /\ ~Live(q)
  OBVIOUS
<1>2. /\ \A i \in 1..Len(receipts) : receipts[i].key = q => DeletionComes(q, i)
      /\ q \in accessKeys => DeletionComes(q, 1)
  BY <1>1 DEF KeyQueue
<1>3. /\ Len(receipts) \in Nat /\ Len(receipts') = Len(receipts) + 1
      /\ \A i \in 1..Len(receipts) : receipts'[i] = receipts[i]
      /\ receipts'[Len(receipts) + 1].key = k
      /\ \A i \in Nat \ {0} : DeletionComes(q, i) => DeletionComes(q, i)'
  <2>1. Len(receipts) \in Nat
    BY DEF TypeOK
  <2>2. action \in {"mint", "retop", "delete"}
    OBVIOUS
  <2>3. /\ Len(receipts') = Len(receipts) + 1
        /\ \A i \in 1..Len(receipts) : receipts'[i] = receipts[i]
        /\ receipts'[Len(receipts) + 1] = [action |-> action, key |-> k]
        /\ \A p \in Keys, i \in Nat \ {0} : DeletionComes(p, i) => DeletionComes(p, i)'
    BY <2>2, SendFacts
  <2>4. QED
    BY <2>1, <2>3
<1>4. ASSUME NEW i \in 1..Len(receipts'), receipts'[i].key = q
      PROVE  DeletionComes(q, i)'
  <2>1. i \in 1..Len(receipts) /\ receipts[i].key = q
    BY <1>1, <1>3, <1>4
  <2>2. QED
    BY <1>2, <1>3, <2>1
<1>5. q \in accessKeys' => DeletionComes(q, 1)'
  BY <1>2, <1>3
<1>6. QED
  BY <1>4, <1>5

\* Revoking an agent sends the deletion of its key last.
LEMMA RevokeKeys ==
  ASSUME TypeOK, KeyQueue, ActiveKnown, NEW a \in Agents, agents[a].key \in Keys,
         Revoke(a), accessKeys' = accessKeys
  PROVE  KeyQueue' /\ ActiveKnown'
<1> DEFINE k == agents[a].key
<1>1. /\ agents'[a].key = k /\ ~agents'[a].key_active
      /\ \A b \in Agents \ {a} : agents'[b] = agents[b]
  BY DEF Revoke, TypeOK
<1>2. ActiveKnown'
  BY <1>1 DEF ActiveKnown
<1>3. Send("delete", k)
  BY DEF Revoke
<1>4. Len(receipts) \in Nat
  BY DEF TypeOK
<1> SUFFICES ASSUME NEW q \in Keys, ~Live(q)'
             PROVE  /\ \A i \in 1..Len(receipts') :
                         receipts'[i].key = q => DeletionComes(q, i)'
                    /\ q \in accessKeys' => DeletionComes(q, 1)'
  BY <1>2 DEF KeyQueue
<1>5. CASE q = k
  <2>1. /\ Len(receipts') = Len(receipts) + 1
        /\ receipts'[Len(receipts) + 1] = [action |-> "delete", key |-> k]
    BY <1>3, SendFacts
  <2>2. QED
    BY <1>4, <1>5, <2>1 DEF DeletionComes
<1>6. CASE q # k
  <2>1. ~Live(q)
    BY <1>1, <1>6 DEF Live
  <2>2. /\ \A i \in 1..Len(receipts) : receipts[i].key = q => DeletionComes(q, i)
        /\ q \in accessKeys => DeletionComes(q, 1)
    BY <2>1 DEF KeyQueue
  <2>3. /\ Len(receipts') = Len(receipts) + 1
        /\ \A i \in 1..Len(receipts) : receipts'[i] = receipts[i]
        /\ receipts'[Len(receipts) + 1].key = k
        /\ \A i \in Nat \ {0} : DeletionComes(q, i) => DeletionComes(q, i)'
    <3>1. /\ Len(receipts') = Len(receipts) + 1
          /\ \A i \in 1..Len(receipts) : receipts'[i] = receipts[i]
          /\ receipts'[Len(receipts) + 1] = [action |-> "delete", key |-> k]
          /\ \A p \in Keys, i \in Nat \ {0} : DeletionComes(p, i) => DeletionComes(p, i)'
      BY <1>3, SendFacts
    <3>2. QED
      BY <3>1
  <2>4. ASSUME NEW i \in 1..Len(receipts'), receipts'[i].key = q
        PROVE  DeletionComes(q, i)'
    <3>1. i \in 1..Len(receipts) /\ receipts[i].key = q
      BY <1>4, <1>6, <2>3, <2>4
    <3>2. QED
      BY <1>4, <2>2, <2>3, <3>1
  <2>5. q \in accessKeys' => DeletionComes(q, 1)'
    BY <2>2, <2>3
  <2>6. QED
    BY <2>4, <2>5
<1>7. QED
  BY <1>5, <1>6

\* Running the first receipt keeps the order of the rest.
LEMMA RunKeys ==
  ASSUME TypeOK, KeyQueue, RunKeyReceipt
  PROVE  TypeOK' /\ KeyQueue'
<1> DEFINE r == Head(receipts)
<1>1. /\ receipts \in Seq(Receipt) /\ receipts # <<>>
      /\ Len(receipts) \in Nat /\ Len(receipts) >= 1
      /\ r = receipts[1] /\ r \in Receipt
  BY DEF RunKeyReceipt, TypeOK
<1>2. /\ receipts' \in Seq(Receipt)
      /\ Len(receipts') = Len(receipts) - 1
      /\ \A i \in 1..Len(receipts') : receipts'[i] = receipts[i + 1]
  BY <1>1 DEF RunKeyReceipt
<1>3. /\ r.action \in {"mint", "retop", "delete"} /\ r.key \in Keys
      /\ r.action = "mint" => accessKeys' = accessKeys \cup {r.key}
      /\ r.action = "retop" => accessKeys' = accessKeys
      /\ r.action = "delete" => accessKeys' = accessKeys \ {r.key}
  BY <1>1 DEF RunKeyReceipt, Receipt
<1>4. TypeOK'
  BY <1>2, <1>3 DEF TypeOK, RunKeyReceipt, book, money
<1>5. \A q \in Keys : Live(q)' <=> Live(q)
  BY DEF Live, RunKeyReceipt, book
<1>6. \A q \in Keys, i \in 2..Len(receipts) :
        DeletionComes(q, i) => DeletionComes(q, i - 1)'
  <2> SUFFICES ASSUME NEW q \in Keys, NEW i \in 2..Len(receipts),
                      NEW j \in i..Len(receipts),
                      receipts[j].action = "delete", receipts[j].key = q
               PROVE  DeletionComes(q, i - 1)'
    BY DEF DeletionComes
  <2>1. j - 1 \in (i - 1)..Len(receipts') /\ receipts'[j - 1] = receipts[j]
    BY <1>1, <1>2
  <2>2. QED
    BY <2>1 DEF DeletionComes
<1> SUFFICES ASSUME NEW q \in Keys, ~Live(q)
             PROVE  /\ \A i \in 1..Len(receipts') :
                         receipts'[i].key = q => DeletionComes(q, i)'
                    /\ q \in accessKeys' => DeletionComes(q, 1)'
  BY <1>4, <1>5 DEF KeyQueue
<1>7. /\ \A i \in 1..Len(receipts) : receipts[i].key = q => DeletionComes(q, i)
      /\ q \in accessKeys => DeletionComes(q, 1)
  BY DEF KeyQueue
<1>8. \A i \in 1..Len(receipts') : receipts'[i].key = q => DeletionComes(q, i)'
  <2> SUFFICES ASSUME NEW i \in 1..Len(receipts'), receipts'[i].key = q
               PROVE  DeletionComes(q, i)'
    OBVIOUS
  <2>1. i + 1 \in 2..Len(receipts) /\ receipts[i + 1].key = q /\ (i + 1) - 1 = i
    BY <1>1, <1>2
  <2>2. QED
    BY <1>1, <1>6, <1>7, <2>1
\* A deletion that was coming is either the first receipt or still coming.
<1>9. DeletionComes(q, 1) /\ ~(r.action = "delete" /\ r.key = q) => DeletionComes(q, 1)'
  <2> SUFFICES ASSUME NEW j \in 1..Len(receipts),
                      receipts[j].action = "delete", receipts[j].key = q,
                      ~(r.action = "delete" /\ r.key = q)
               PROVE  DeletionComes(q, 1)'
    BY DEF DeletionComes
  <2>1. j # 1
    BY <1>1
  <2>2. 2 \in 2..Len(receipts) /\ DeletionComes(q, 2)
    BY <1>1, <2>1 DEF DeletionComes
  <2>3. QED
    BY <1>6, <2>2
<1>10. q \in accessKeys' => DeletionComes(q, 1)'
  <2> SUFFICES ASSUME q \in accessKeys'
               PROVE  DeletionComes(q, 1)'
    OBVIOUS
  <2>1. ~(r.action = "delete" /\ r.key = q)
    BY <1>3
  <2>2. q \in accessKeys \/ r.key = q
    BY <1>3
  <2>3. DeletionComes(q, 1)
    BY <1>1, <1>7, <2>2
  <2>4. QED
    BY <1>9, <2>1, <2>3
<1>11. QED
  BY <1>8, <1>10

-------------------------------------------------------------------------------
(* One lemma per call and per receipt *)

\* Steps that leave keys, records and receipts alone keep what is said of them.
LEMMA KeysUntouched ==
  ASSUME KeyQueue, ActiveKnown, UNCHANGED <<agents, accessKeys, receipts>>
  PROVE  KeyQueue' /\ ActiveKnown'
BY DEF KeyQueue, ActiveKnown, Live, DeletionComes

LEMMA RequestStep ==
  ASSUME IInv, NEW a \in Agents, NEW k \in Keys, NEW line \in Lines,
         RequestSpendAuthorization(a, k, line)
  PROVE  IInv'
<1> DEFINE e == EnsureAgent(exposure[a], line)
           f == ReserveExposure(e, line)
<1>1. TypeOK /\ WithinCap /\ DrawsBooked /\ FrozenIdle /\ ActiveKnown /\ KeyQueue
  BY DEF IInv
<1>2. line \in Nat /\ k # NoKey
  BY SpendGuardConstants
<1>3. /\ Sound(exposure[a]) /\ Sound(e)
      /\ e.outstanding = exposure[a].outstanding
  BY <1>1, <1>2, EntriesSound, EnsureFacts
<1>4. Sound(f) /\ f.outstanding = exposure[a].outstanding /\ ~f.frozen
  BY <1>2, <1>3, ReserveFacts DEF RequestSpendAuthorization
<1>5. exposure' = [exposure EXCEPT ![a] = f]
  BY DEF RequestSpendAuthorization
<1> HIDE DEF e, f
<1>6. /\ exposure' \in [Agents -> Exposure] /\ WithinCap' /\ exposure'[a] = f
      /\ \A b \in Agents \ {a} : exposure'[b] = exposure[b]
  BY <1>1, <1>4, <1>5, BookStep
<1>7. /\ Send("mint", k) /\ ~agents[a].key_active
      /\ agents' = [agents EXCEPT ![a] = [key |-> k, key_active |-> TRUE]]
      /\ keysByPubkey' = [keysByPubkey EXCEPT ![k] = a]
      /\ UNCHANGED <<disputes, accessKeys, inFlight, sent, bounced, repaid>>
  BY DEF RequestSpendAuthorization, money
<1>8. /\ agents'[a] = [key |-> k, key_active |-> TRUE]
      /\ \A b \in Agents \ {a} : agents'[b] = agents[b]
  BY <1>1, <1>7 DEF TypeOK
<1>9. receipts' \in Seq(Receipt)
  BY <1>1, <1>7, SendFacts
<1>10. TypeOK'
  BY <1>1, <1>6, <1>7, <1>9 DEF TypeOK
<1>11. DrawsBooked'
  BY <1>1, <1>4, <1>6, <1>7 DEF DrawsBooked
<1>12. FrozenIdle'
  BY <1>1, <1>4, <1>6, <1>8 DEF FrozenIdle
<1>13. ActiveKnown'
  BY <1>1, <1>8 DEF ActiveKnown
<1>14. Live(k)' /\ \A q \in Keys : Live(q) => Live(q)'
  BY <1>7, <1>8 DEF Live
<1>15. KeyQueue'
  BY <1>1, <1>7, <1>14, SendLive
<1>16. QED
  BY <1>6, <1>10, <1>11, <1>12, <1>13, <1>15 DEF IInv

LEMMA SpendStep ==
  ASSUME IInv, NEW k \in Keys, NEW n \in Amounts, SpendToSeller(k, n)
  PROVE  IInv'
<1> DEFINE a == keysByPubkey[k]
           f == ActivateExposure(exposure[a], n)
<1>1. TypeOK /\ WithinCap /\ DrawsBooked /\ FrozenIdle /\ ActiveKnown /\ KeyQueue
  BY DEF IInv
<1>2. n \in Nat /\ a \in Agents
  BY <1>1, SpendGuardConstants DEF SpendToSeller, TypeOK
<1>3. /\ n <= exposure[a].reserved /\ ~exposure[a].frozen
      /\ exposure' = [exposure EXCEPT ![a] = f]
      /\ inFlight' = [inFlight EXCEPT ![a][n] = @ + 1]
      /\ sent' = [sent EXCEPT ![a] = @ + n]
      /\ UNCHANGED <<agents, keysByPubkey, disputes, accessKeys, receipts, bounced, repaid>>
  BY DEF SpendToSeller
<1>4. /\ Sound(f) /\ f.outstanding = exposure[a].outstanding + n /\ ~f.frozen
  BY <1>1, <1>2, <1>3, EntriesSound, ActivateFacts
<1> HIDE DEF a, f
<1>5. /\ exposure' \in [Agents -> Exposure] /\ WithinCap' /\ exposure'[a] = f
      /\ \A b \in Agents \ {a} : exposure'[b] = exposure[b]
  BY <1>1, <1>2, <1>3, <1>4, BookStep
<1>6. inFlight' \in [Agents -> [Amounts -> Nat]]
  BY <1>1, <1>2, <1>3 DEF TypeOK
<1>7. TypeOK'
  <2>1. sent' \in [Agents -> Nat]
    BY <1>1, <1>2, <1>3 DEF TypeOK
  <2>2. /\ agents' \in [Agents -> [key: Keys \cup {NoKey}, key_active: BOOLEAN]]
        /\ keysByPubkey' \in [Keys -> Agents \cup {NoAgent}]
        /\ disputes' \in [Agents -> 0..SpikeThreshold]
        /\ accessKeys' \subseteq Keys
        /\ receipts' \in Seq(Receipt)
        /\ bounced' \in [Agents -> Nat] /\ repaid' \in [Agents -> Nat]
    BY <1>1, <1>3 DEF TypeOK
  <2>3. QED
    BY <1>5, <1>6, <2>1, <2>2 DEF TypeOK
<1>8. DrawsBooked'
  <2>1. /\ sent[a] \in Nat /\ repaid[a] \in Nat /\ exposure[a].outstanding \in Nat
        /\ sent'[a] = sent[a] + n
        /\ \A b \in Agents \ {a} : sent'[b] = sent[b]
    BY <1>1, <1>2, <1>3 DEF TypeOK, Exposure
  <2>2. \A b \in Agents \ {a} :
          /\ sent'[b] <= exposure'[b].outstanding + repaid'[b]
          /\ exposure'[b].outstanding <= sent'[b]
    BY <1>1, <1>3, <1>5, <2>1 DEF DrawsBooked
  <2>3. /\ sent[a] <= exposure[a].outstanding + repaid[a]
        /\ exposure[a].outstanding <= sent[a]
    BY <1>1, <1>2 DEF DrawsBooked
  <2>4. /\ sent'[a] <= exposure'[a].outstanding + repaid'[a]
        /\ exposure'[a].outstanding <= sent'[a]
    BY <1>2, <1>3, <1>4, <1>5, <2>1, <2>3
  <2>5. QED
    BY <2>2, <2>4 DEF DrawsBooked
<1>9. FrozenIdle'
  BY <1>1, <1>3, <1>4, <1>5 DEF FrozenIdle
<1>10. QED
  BY <1>1, <1>3, <1>5, <1>7, <1>8, <1>9, KeysUntouched DEF IInv

LEMMA RepayStep ==
  ASSUME IInv, NEW a \in Agents, NEW n \in Amounts, RepayCreditLine(a, n)
  PROVE  IInv'
<1> DEFINE f == DecreaseExposure(exposure[a], n)
<1>1. TypeOK /\ WithinCap /\ DrawsBooked /\ FrozenIdle /\ ActiveKnown /\ KeyQueue
  BY DEF IInv
<1>2. n \in Nat
  BY SpendGuardConstants
<1>3. /\ exposure' = [exposure EXCEPT ![a] = f]
      /\ repaid' = [repaid EXCEPT ![a] = @ + n]
      /\ UNCHANGED <<agents, keysByPubkey, disputes, accessKeys, receipts,
                     inFlight, sent, bounced>>
  BY DEF RepayCreditLine, money
<1>4. /\ Sound(f) /\ f.outstanding \in 0..exposure[a].outstanding
      /\ exposure[a].outstanding <= f.outstanding + n
      /\ f.reserved = exposure[a].reserved /\ f.frozen = exposure[a].frozen
  BY <1>1, <1>2, EntriesSound, DecreaseFacts
<1> HIDE DEF f
<1>5. /\ exposure' \in [Agents -> Exposure] /\ WithinCap' /\ exposure'[a] = f
      /\ \A b \in Agents \ {a} : exposure'[b] = exposure[b]
  BY <1>1, <1>3, <1>4, BookStep
<1>6. TypeOK'
  BY <1>1, <1>2, <1>3, <1>5 DEF TypeOK
<1>7. DrawsBooked'
  <2>1. /\ sent[a] \in Nat /\ repaid[a] \in Nat /\ exposure[a].outstanding \in Nat
        /\ repaid'[a] = repaid[a] + n
        /\ \A b \in Agents \ {a} : repaid'[b] = repaid[b]
    BY <1>1, <1>2, <1>3 DEF TypeOK, Exposure
  <2>2. \A b \in Agents \ {a} :
          /\ sent'[b] <= exposure'[b].outstanding + repaid'[b]
          /\ exposure'[b].outstanding <= sent'[b]
    BY <1>1, <1>3, <1>5, <2>1 DEF DrawsBooked
  <2>3. /\ sent[a] <= exposure[a].outstanding + repaid[a]
        /\ exposure[a].outstanding <= sent[a]
    BY <1>1 DEF DrawsBooked
  <2>4. /\ sent'[a] <= exposure'[a].outstanding + repaid'[a]
        /\ exposure'[a].outstanding <= sent'[a]
    BY <1>2, <1>3, <1>4, <1>5, <2>1, <2>3
  <2>5. QED
    BY <2>2, <2>4 DEF DrawsBooked
<1>8. FrozenIdle'
  BY <1>1, <1>3, <1>4, <1>5 DEF FrozenIdle
<1>9. QED
  BY <1>1, <1>3, <1>5, <1>6, <1>7, <1>8, KeysUntouched DEF IInv

LEMMA TopUpStep ==
  ASSUME IInv, NEW a \in Agents, NEW n \in Amounts, TopUpAllowance(a, n)
  PROVE  IInv'
<1> DEFINE f == ReserveExposure(exposure[a], n)
<1>1. TypeOK /\ WithinCap /\ DrawsBooked /\ FrozenIdle /\ ActiveKnown /\ KeyQueue
  BY DEF IInv
<1>2. n \in Nat
  BY SpendGuardConstants
<1>3. /\ agents[a].key_active /\ CanReserve(exposure[a], n)
      /\ exposure' = [exposure EXCEPT ![a] = f]
      /\ Send("retop", agents[a].key)
      /\ UNCHANGED <<agents, keysByPubkey, disputes, accessKeys,
                     inFlight, sent, bounced, repaid>>
  BY DEF TopUpAllowance, money
<1>4. /\ Sound(f) /\ f.outstanding = exposure[a].outstanding /\ ~f.frozen
  BY <1>1, <1>2, <1>3, EntriesSound, ReserveFacts
<1>5. PICK k \in Keys : k = agents[a].key
  BY <1>1, <1>3 DEF ActiveKnown
<1>6. Live(k)' /\ \A q \in Keys : Live(q) => Live(q)'
  BY <1>3, <1>5 DEF Live
<1> HIDE DEF f
<1>7. /\ exposure' \in [Agents -> Exposure] /\ WithinCap' /\ exposure'[a] = f
      /\ \A b \in Agents \ {a} : exposure'[b] = exposure[b]
  BY <1>1, <1>3, <1>4, BookStep
<1>8. receipts' \in Seq(Receipt)
  BY <1>1, <1>3, <1>5, SendFacts
<1>9. TypeOK'
  BY <1>1, <1>3, <1>7, <1>8 DEF TypeOK
<1>10. DrawsBooked'
  BY <1>1, <1>3, <1>4, <1>7 DEF DrawsBooked
<1>11. FrozenIdle' /\ ActiveKnown'
  BY <1>1, <1>3, <1>4, <1>7 DEF FrozenIdle, ActiveKnown
<1>12. KeyQueue'
  BY <1>1, <1>3, <1>5, <1>6, SendLive
<1>13. QED
  BY <1>7, <1>9, <1>10, <1>11, <1>12 DEF IInv

\* Both ways of freezing.
LEMMA RevokeStep ==
  ASSUME IInv, NEW a \in Agents, Known(a), Revoke(a),
         disputes' \in [Agents -> 0..SpikeThreshold],
         UNCHANGED <<keysByPubkey, accessKeys, money, repaid>>
  PROVE  IInv'
<1> DEFINE f == Frozen(exposure[a])
<1>1. TypeOK /\ WithinCap /\ DrawsBooked /\ FrozenIdle /\ ActiveKnown /\ KeyQueue
  BY DEF IInv
<1>2. /\ exposure' = [exposure EXCEPT ![a] = f]
      /\ agents' = [agents EXCEPT ![a].key_active = FALSE]
      /\ Send("delete", agents[a].key)
      /\ UNCHANGED <<keysByPubkey, accessKeys, inFlight, sent, bounced, repaid>>
  BY DEF Revoke, money
<1>3. Sound(f) /\ f.outstanding = exposure[a].outstanding /\ f.frozen /\ f.reserved = 0
  BY <1>1, EntriesSound, FrozenFacts
<1>4. agents[a].key \in Keys
  BY <1>1 DEF Known, TypeOK
<1> HIDE DEF f
<1>5. /\ exposure' \in [Agents -> Exposure] /\ WithinCap' /\ exposure'[a] = f
      /\ \A b \in Agents \ {a} : exposure'[b] = exposure[b]
  BY <1>1, <1>2, <1>3, BookStep
<1>6. receipts' \in Seq(Receipt)
  BY <1>1, <1>2, <1>4, SendFacts
<1>7. /\ agents' \in [Agents -> [key: Keys \cup {NoKey}, key_active: BOOLEAN]]
      /\ ~agents'[a].key_active
      /\ \A b \in Agents \ {a} : agents'[b] = agents[b]
  BY <1>1, <1>2 DEF TypeOK
<1>8. TypeOK'
  BY <1>1, <1>2, <1>5, <1>6, <1>7 DEF TypeOK
<1>9. DrawsBooked'
  BY <1>1, <1>2, <1>3, <1>5 DEF DrawsBooked
<1>10. FrozenIdle'
  BY <1>1, <1>3, <1>5, <1>7 DEF FrozenIdle
<1>11. KeyQueue' /\ ActiveKnown'
  BY <1>1, <1>2, <1>4, RevokeKeys
<1>12. QED
  BY <1>5, <1>8, <1>9, <1>10, <1>11 DEF IInv

LEMMA DisputeStep ==
  ASSUME IInv, NEW a \in Agents, NEW count \in 0..SpikeThreshold,
         ReportDisputeSpike(a, count)
  PROVE  IInv'
<1>1. TypeOK /\ WithinCap /\ DrawsBooked /\ FrozenIdle /\ ActiveKnown /\ KeyQueue
  BY DEF IInv
<1>2. /\ disputes' = [disputes EXCEPT ![a] = Lesser(disputes[a] + count, SpikeThreshold)]
      /\ UNCHANGED <<keysByPubkey, accessKeys, money, repaid>>
  BY DEF ReportDisputeSpike
<1>3. Lesser(disputes[a] + count, SpikeThreshold) \in 0..SpikeThreshold
  <2>1. disputes[a] + count \in Nat /\ SpikeThreshold \in Nat
    BY <1>1, SpendGuardConstants DEF TypeOK
  <2>2. QED
    BY <2>1, LesserFacts
<1>4. disputes' \in [Agents -> 0..SpikeThreshold]
  BY <1>1, <1>2, <1>3 DEF TypeOK
<1>5. CASE UNCHANGED <<exposure, agents, receipts>>
  <2>1. TypeOK'
    BY <1>1, <1>2, <1>4, <1>5 DEF TypeOK, money
  <2>2. WithinCap' /\ DrawsBooked' /\ FrozenIdle'
    BY <1>1, <1>2, <1>5 DEF WithinCap, DrawsBooked, FrozenIdle, money
  <2>3. QED
    BY <1>1, <1>2, <1>5, <2>1, <2>2, KeysUntouched DEF IInv
<1>6. CASE Known(a) /\ Revoke(a)
  BY <1>2, <1>4, <1>6, RevokeStep
<1>7. QED
  BY <1>5, <1>6 DEF ReportDisputeSpike

LEMMA FreezeStep ==
  ASSUME IInv, NEW a \in Agents, EmergencyFreeze(a)
  PROVE  IInv'
<1>1. disputes' \in [Agents -> 0..SpikeThreshold]
  BY DEF EmergencyFreeze, IInv, TypeOK
<1>2. QED
  BY <1>1, RevokeStep DEF EmergencyFreeze

LEMMA ReceiptStep ==
  ASSUME IInv, RunKeyReceipt
  PROVE  IInv'
<1>1. TypeOK' /\ KeyQueue'
  BY RunKeys DEF IInv
<1>2. WithinCap' /\ DrawsBooked' /\ FrozenIdle' /\ ActiveKnown'
  BY DEF IInv, RunKeyReceipt, book, money, WithinCap, DrawsBooked, FrozenIdle, ActiveKnown
<1>3. QED
  BY <1>1, <1>2 DEF IInv

LEMMA TransferStep ==
  ASSUME IInv, NEW a \in Agents, NEW n \in Amounts,
         TransferArrives(a, n) \/ TransferFails(a, n)
  PROVE  IInv'
<1>1. TypeOK /\ WithinCap /\ DrawsBooked /\ FrozenIdle /\ ActiveKnown /\ KeyQueue
  BY DEF IInv
<1>2. /\ inFlight[a][n] > 0
      /\ inFlight' = [inFlight EXCEPT ![a][n] = @ - 1]
      /\ bounced' = bounced \/ bounced' = [bounced EXCEPT ![a] = @ + n]
      /\ UNCHANGED <<exposure, agents, keysByPubkey, disputes, accessKeys, receipts,
                     sent, repaid>>
  BY DEF TransferArrives, TransferFails, book
<1>3. n \in Nat
  BY SpendGuardConstants
<1>4. bounced' \in [Agents -> Nat]
  BY <1>1, <1>2, <1>3 DEF TypeOK
<1>5. inFlight[a][n] \in Nat /\ inFlight[a][n] - 1 \in Nat
  BY <1>1, <1>2 DEF TypeOK
<1>6. inFlight' \in [Agents -> [Amounts -> Nat]]
  BY <1>1, <1>2, <1>5 DEF TypeOK
<1>7. TypeOK'
  BY <1>1, <1>2, <1>4, <1>6 DEF TypeOK
<1>8. WithinCap' /\ DrawsBooked' /\ FrozenIdle'
  BY <1>1, <1>2 DEF WithinCap, DrawsBooked, FrozenIdle
<1>9. QED
  BY <1>1, <1>2, <1>7, <1>8, KeysUntouched DEF IInv

-------------------------------------------------------------------------------
(* Theorems *)

\* Every step of the contract and of its receipts keeps the invariant.
LEMMA NextIInv == IInv /\ [Next]_vars => IInv'
<1> SUFFICES ASSUME IInv, [Next]_vars
             PROVE  IInv'
  OBVIOUS
<1>1. CASE Admin
  <2>1. PICK a \in Agents :
          \/ \E k \in Keys, line \in Lines : RequestSpendAuthorization(a, k, line)
          \/ \E n \in Amounts : RepayCreditLine(a, n) \/ TopUpAllowance(a, n)
          \/ \E count \in 0..SpikeThreshold : ReportDisputeSpike(a, count)
          \/ EmergencyFreeze(a)
    BY <1>1 DEF Admin
  <2>2. QED
    BY <2>1, RequestStep, RepayStep, TopUpStep, DisputeStep, FreezeStep
<1>2. CASE \E k \in Keys, n \in Amounts : SpendToSeller(k, n)
  BY <1>2, SpendStep
<1>3. CASE Chain
  BY <1>3, ReceiptStep, TransferStep DEF Chain
<1>4. CASE UNCHANGED vars
  <2>1. TypeOK'
    BY <1>4 DEF IInv, vars, TypeOK
  <2>2. WithinCap' /\ DrawsBooked' /\ FrozenIdle'
    BY <1>4 DEF IInv, vars, WithinCap, DrawsBooked, FrozenIdle
  <2>3. QED
    BY <1>4, <2>1, <2>2, KeysUntouched DEF IInv, vars
<1>5. QED
  BY <1>1, <1>2, <1>3, <1>4 DEF Next

\* The invariant holds in every reachable state.
THEOREM GuardInvariance == Spec => []IInv
<1>1. QED
  BY InitIInv, NextIInv, PTL DEF Spec

\* Every variable of the contract keeps its type.
THEOREM GuardTypeCorrect == Spec => []TypeOK
<1>1. IInv => TypeOK
  BY DEF IInv
<1>2. QED
  BY <1>1, GuardInvariance, PTL

\* No agent's draws and reservations exceed its cap (reserve_exposure).
THEOREM GuardWithinCap == Spec => []WithinCap
<1>1. IInv => WithinCap
  BY DEF IInv
<1>2. QED
  BY <1>1, GuardInvariance, PTL

\* Every amount sent to a seller is in the book, less what was repaid
\* (spend_to_seller, repay_credit_line).
THEOREM GuardDrawsBooked == Spec => []DrawsBooked
<1>1. IInv => DrawsBooked
  BY DEF IInv
<1>2. QED
  BY <1>1, GuardInvariance, PTL

\* With no receipt under way, every spend key on the account is some agent's live key.
THEOREM GuardKeysFollow == Spec => []KeysFollowRecords
<1>1. IInv => KeysFollowRecords
  <2> SUFFICES ASSUME IInv, receipts = <<>>, NEW k \in accessKeys
               PROVE  Live(k)
    BY DEF KeysFollowRecords, Live
  <2>1. k \in Keys
    BY DEF IInv, TypeOK
  <2>2. ~DeletionComes(k, 1)
    BY DEF DeletionComes
  <2>3. QED
    BY <2>1, <2>2 DEF IInv, KeyQueue
<1>2. QED
  BY <1>1, GuardInvariance, PTL
-------------------------------------------------------------------------------
(* Freezing *)

\* A frozen agent stays frozen, idle and without draws.
LEMMA FrozenStep ==
  ASSUME IInv, IInv', [Next]_vars, NEW a \in Agents, exposure[a].frozen
  PROVE  exposure'[a].frozen /\ sent'[a] = sent[a]
<1>1. TypeOK /\ WithinCap /\ FrozenIdle /\ Sound(exposure[a])
  BY EntriesSound DEF IInv
<1>2. ASSUME NEW b \in Agents, NEW k \in Keys, NEW line \in Lines,
             RequestSpendAuthorization(b, k, line)
      PROVE  exposure'[a].frozen /\ sent' = sent
  <2>1. ~exposure[b].frozen
    BY <1>2 DEF RequestSpendAuthorization, CanReserve, EnsureAgent, IInv, TypeOK, Exposure
  <2>2. exposure'[a] = exposure[a]
    BY <1>1, <1>2, <2>1 DEF RequestSpendAuthorization, TypeOK
  <2>3. QED
    BY <1>2, <2>2 DEF RequestSpendAuthorization, money
<1>3. ASSUME NEW k \in Keys, NEW n \in Amounts, SpendToSeller(k, n)
      PROVE  exposure'[a].frozen /\ sent'[a] = sent[a]
  <2>1. keysByPubkey[k] # a
    BY <1>3 DEF SpendToSeller
  <2>2. QED
    BY <1>1, <1>3, <2>1 DEF SpendToSeller, TypeOK
<1>4. ASSUME NEW b \in Agents, NEW n \in Amounts, RepayCreditLine(b, n)
      PROVE  exposure'[a].frozen /\ sent' = sent
  <2>1. n \in Nat
    BY SpendGuardConstants
  <2>2. DecreaseExposure(exposure[a], n).frozen
    BY <1>1, <2>1, DecreaseFacts
  <2>3. exposure' = [exposure EXCEPT ![b] = DecreaseExposure(@, n)] /\ sent' = sent
    BY <1>4 DEF RepayCreditLine, money
  <2>4. QED
    BY <1>1, <2>2, <2>3 DEF TypeOK
<1>5. ASSUME NEW b \in Agents, NEW n \in Amounts, TopUpAllowance(b, n)
      PROVE  exposure'[a].frozen /\ sent' = sent
  BY <1>1, <1>5 DEF TopUpAllowance, TypeOK, money
<1>6. ASSUME NEW b \in Agents, Revoke(b)
      PROVE  exposure'[a].frozen
  BY <1>1, <1>6, FrozenFacts DEF Revoke, TypeOK
<1>7. ASSUME NEW b \in Agents, NEW count \in 0..SpikeThreshold, ReportDisputeSpike(b, count)
      PROVE  exposure'[a].frozen /\ sent' = sent
  BY <1>6, <1>7 DEF ReportDisputeSpike, money
<1>8. ASSUME NEW b \in Agents, EmergencyFreeze(b)
      PROVE  exposure'[a].frozen /\ sent' = sent
  BY <1>6, <1>8 DEF EmergencyFreeze, money
<1>9. ASSUME Chain
      PROVE  exposure'[a].frozen /\ sent' = sent
  BY <1>9 DEF Chain, RunKeyReceipt, TransferArrives, TransferFails, book, money
<1>10. CASE UNCHANGED vars
  BY <1>10 DEF vars
<1>11. QED
  BY <1>2, <1>3, <1>4, <1>5, <1>7, <1>8, <1>9, <1>10 DEF Next, Admin

\* A freeze is for good (freeze_agent_exposure, with no way to undo it).
THEOREM GuardFrozenForGood == Spec => FrozenForGood
<1> DEFINE Kept == \A a \in Agents : exposure[a].frozen =>
                     /\ exposure'[a].frozen /\ exposure'[a].reserved = 0
                     /\ ~agents'[a].key_active
                     /\ sent'[a] = sent[a]
<1>1. IInv /\ IInv' /\ [Next]_vars => [Kept]_vars
  <2> SUFFICES ASSUME IInv, IInv', [Next]_vars, NEW a \in Agents, exposure[a].frozen
               PROVE  /\ exposure'[a].frozen /\ exposure'[a].reserved = 0
                      /\ ~agents'[a].key_active
                      /\ sent'[a] = sent[a]
    OBVIOUS
  <2>1. exposure'[a].frozen /\ sent'[a] = sent[a]
    BY FrozenStep
  <2>2. exposure'[a].reserved = 0 /\ ~agents'[a].key_active
    BY <2>1 DEF IInv, FrozenIdle
  <2>3. QED
    BY <2>1, <2>2
<1>2. QED
  BY <1>1, GuardInvariance, PTL DEF Spec, FrozenForGood
-------------------------------------------------------------------------------
(* The promise *)

\* A step that changes only what is owed by one agent, or only its limit, or stops it.
LEMMA Owes ==
  ASSUME TypeOK, WithinCap, NEW a \in Agents, NEW e, Sound(e),
         exposure' = [exposure EXCEPT ![a] = e], e.frozen = exposure[a].frozen,
         e.max_allowed = exposure[a].max_allowed
  PROVE  /\ limit' = limit /\ stopped' = stopped
         /\ owed' = [owed EXCEPT ![a] = e.outstanding] /\ owed'[a] = e.outstanding
<1>1. /\ exposure'[a] = e /\ \A b \in Agents \ {a} : exposure'[b] = exposure[b]
  BY DEF TypeOK
<1>2. limit' = limit
  BY <1>1 DEF limit
<1>3. stopped' = stopped
  BY <1>1 DEF stopped
<1>4. /\ owed' = [b \in Agents |-> exposure'[b].outstanding]
      /\ owed  = [b \in Agents |-> exposure[b].outstanding]
  BY DEF owed
<1>5. owed'[a] = e.outstanding /\ \A b \in Agents \ {a} : owed'[b] = owed[b]
  BY <1>1, <1>4
<1>6. owed' = [owed EXCEPT ![a] = e.outstanding]
  BY <1>4, <1>5
<1>7. QED
  BY <1>2, <1>3, <1>5, <1>6

\* The book starts as the promise does.
LEMMA BudgetInit == Init => Budget!Init
BY DEF Init, NoExposure, Budget!Init, owed, limit, stopped

\* An authorization raises the limit or changes nothing of the promise.
LEMMA RequestBudget ==
  ASSUME IInv, NEW a \in Agents, NEW k \in Keys, NEW line \in Lines,
         RequestSpendAuthorization(a, k, line)
  PROVE  Budget!Raise(a) \/ UNCHANGED <<owed, limit, stopped>>
<1> DEFINE e == EnsureAgent(exposure[a], line)
           f == ReserveExposure(e, line)
<1>1. TypeOK /\ WithinCap /\ Sound(exposure[a]) /\ line \in Nat
  BY EntriesSound, SpendGuardConstants DEF IInv
<1>2. CanReserve(e, line) /\ exposure' = [exposure EXCEPT ![a] = f]
  BY DEF RequestSpendAuthorization
<1>3. /\ Sound(e) /\ e.outstanding = exposure[a].outstanding
      /\ e.frozen = exposure[a].frozen /\ e.max_allowed >= exposure[a].max_allowed
  BY <1>1, EnsureFacts
<1>4. /\ f.outstanding = exposure[a].outstanding /\ f.frozen = exposure[a].frozen
      /\ f.max_allowed = e.max_allowed
  BY <1>1, <1>2, <1>3, ReserveFacts
<1>5. f.max_allowed \in Nat /\ exposure[a].max_allowed \in Nat
  BY <1>1, <1>3, <1>4 DEF Sound, Exposure
<1> HIDE DEF e, f
<1>6. exposure'[a] = f /\ \A b \in Agents \ {a} : exposure'[b] = exposure[b]
  BY <1>1, <1>2 DEF TypeOK
<1>7. owed' = owed
  BY <1>4, <1>6 DEF owed
<1>8. stopped' = stopped
  BY <1>4, <1>6 DEF stopped
<1>9. limit' = [limit EXCEPT ![a] = limit'[a]]
  BY <1>6 DEF limit
<1>10. limit[a] = exposure[a].max_allowed /\ limit'[a] = f.max_allowed
  BY <1>6 DEF limit
<1>11. CASE limit'[a] > limit[a]
  BY <1>7, <1>8, <1>9, <1>11 DEF Budget!Raise
<1>12. CASE limit'[a] = limit[a]
  <2>1. limit' = limit
    BY <1>9, <1>12 DEF limit
  <2>2. QED
    BY <1>7, <1>8, <2>1
<1>13. QED
  BY <1>3, <1>4, <1>5, <1>10, <1>11, <1>12

\* A draw adds to what is owed, within the limit, by an agent that was not stopped.
LEMMA SpendBudget ==
  ASSUME IInv, NEW k \in Keys, NEW n \in Amounts, SpendToSeller(k, n)
  PROVE  \E a \in Agents : Budget!Draw(a)
<1>1. PICK a \in Agents : a = keysByPubkey[k]
  BY DEF IInv, TypeOK, SpendToSeller
<1> DEFINE f == ActivateExposure(exposure[a], n)
<1>2. TypeOK /\ WithinCap /\ Sound(exposure[a]) /\ n \in Nat
  BY EntriesSound, SpendGuardConstants DEF IInv
<1>3. /\ ~exposure[a].frozen /\ n <= exposure[a].reserved
      /\ exposure' = [exposure EXCEPT ![a] = f]
  BY <1>1 DEF SpendToSeller
<1>4. /\ Sound(f) /\ f.outstanding = exposure[a].outstanding + n
      /\ f.max_allowed = exposure[a].max_allowed /\ f.frozen = exposure[a].frozen
  BY <1>2, <1>3, ActivateFacts
<1> HIDE DEF f
<1>5. /\ limit' = limit /\ stopped' = stopped
      /\ owed' = [owed EXCEPT ![a] = f.outstanding] /\ owed'[a] = f.outstanding
  BY <1>2, <1>3, <1>4, Owes
<1>6. f.outstanding \in exposure[a].outstanding..exposure[a].max_allowed
  BY <1>2, <1>4 DEF Sound, Exposure
<1>7. a \notin stopped /\ owed[a] = exposure[a].outstanding
      /\ limit[a] = exposure[a].max_allowed
  BY <1>3 DEF stopped, owed, limit
<1>8. limit' = [limit EXCEPT ![a] = limit'[a]]
  BY <1>5 DEF limit
<1>9. limit'[a] = exposure[a].max_allowed /\ limit'[a] >= limit[a]
  BY <1>2, <1>5, <1>7 DEF Sound, Exposure
<1>10. owed' = [owed EXCEPT ![a] = owed'[a]] /\ owed'[a] \in owed[a]..limit'[a]
  BY <1>5, <1>6, <1>7, <1>9
<1>11. QED
  BY <1>5, <1>7, <1>8, <1>9, <1>10 DEF Budget!Draw

\* A repayment takes off what is owed.
LEMMA RepayBudget ==
  ASSUME IInv, NEW a \in Agents, NEW n \in Amounts, RepayCreditLine(a, n)
  PROVE  Budget!Repay(a)
<1> DEFINE f == DecreaseExposure(exposure[a], n)
<1>1. TypeOK /\ WithinCap /\ Sound(exposure[a]) /\ n \in Nat
  BY EntriesSound, SpendGuardConstants DEF IInv
<1>2. exposure' = [exposure EXCEPT ![a] = f]
  BY DEF RepayCreditLine
<1>3. /\ Sound(f) /\ f.outstanding \in 0..exposure[a].outstanding
      /\ f.max_allowed = exposure[a].max_allowed /\ f.frozen = exposure[a].frozen
  BY <1>1, DecreaseFacts
<1> HIDE DEF f
<1>4. /\ limit' = limit /\ stopped' = stopped
      /\ owed' = [owed EXCEPT ![a] = f.outstanding] /\ owed'[a] = f.outstanding
  BY <1>1, <1>2, <1>3, Owes
<1>5. owed[a] = exposure[a].outstanding
  BY DEF owed
<1>6. QED
  BY <1>3, <1>4, <1>5 DEF Budget!Repay

\* A top-up changes nothing of the promise.
LEMMA TopUpBudget ==
  ASSUME IInv, NEW a \in Agents, NEW n \in Amounts, TopUpAllowance(a, n)
  PROVE  UNCHANGED <<owed, limit, stopped>>
<1> DEFINE f == ReserveExposure(exposure[a], n)
<1>1. TypeOK /\ Sound(exposure[a]) /\ n \in Nat
  BY EntriesSound, SpendGuardConstants DEF IInv
<1>2. CanReserve(exposure[a], n) /\ exposure' = [exposure EXCEPT ![a] = f]
  BY DEF TopUpAllowance
<1>3. /\ f.outstanding = exposure[a].outstanding
      /\ f.max_allowed = exposure[a].max_allowed /\ f.frozen = exposure[a].frozen
  BY <1>1, <1>2, ReserveFacts
<1> HIDE DEF f
<1>4. exposure'[a] = f /\ \A b \in Agents \ {a} : exposure'[b] = exposure[b]
  BY <1>1, <1>2 DEF TypeOK
<1>5. QED
  BY <1>3, <1>4 DEF owed, limit, stopped

\* A freeze stops the agent.
LEMMA RevokeBudget ==
  ASSUME IInv, NEW a \in Agents, Revoke(a)
  PROVE  Budget!Stop(a)
<1> DEFINE f == Frozen(exposure[a])
<1>1. TypeOK /\ Sound(exposure[a])
  BY EntriesSound DEF IInv
<1>2. exposure' = [exposure EXCEPT ![a] = f]
  BY DEF Revoke
<1>3. /\ f.outstanding = exposure[a].outstanding
      /\ f.max_allowed = exposure[a].max_allowed /\ f.frozen
  BY <1>1, FrozenFacts
<1> HIDE DEF f
<1>4. exposure'[a] = f /\ \A b \in Agents \ {a} : exposure'[b] = exposure[b]
  BY <1>1, <1>2 DEF TypeOK
<1>5. owed' = owed /\ limit' = limit
  BY <1>3, <1>4 DEF owed, limit
<1>6. stopped' = stopped \cup {a}
  BY <1>3, <1>4 DEF stopped
<1>7. QED
  BY <1>5, <1>6 DEF Budget!Stop

\* A step that leaves the book alone changes nothing of the promise.
LEMMA BookUntouched ==
  ASSUME exposure' = exposure
  PROVE  UNCHANGED <<owed, limit, stopped>>
BY DEF owed, limit, stopped

LEMMA BudgetStep == IInv /\ [Next]_vars => [Budget!Next]_(Budget!vars)
<1> SUFFICES ASSUME IInv, [Next]_vars
             PROVE  Budget!Next \/ UNCHANGED <<owed, limit, stopped>>
  BY DEF Budget!vars
<1>1. CASE Admin
  <2>1. PICK a \in Agents :
          \/ \E k \in Keys, line \in Lines : RequestSpendAuthorization(a, k, line)
          \/ \E n \in Amounts : RepayCreditLine(a, n) \/ TopUpAllowance(a, n)
          \/ \E count \in 0..SpikeThreshold : ReportDisputeSpike(a, count)
          \/ EmergencyFreeze(a)
    BY <1>1 DEF Admin
  <2>2. ASSUME NEW count \in 0..SpikeThreshold, ReportDisputeSpike(a, count)
        PROVE  Budget!Stop(a) \/ UNCHANGED <<owed, limit, stopped>>
    BY <2>2, RevokeBudget, BookUntouched DEF ReportDisputeSpike
  <2>3. ASSUME EmergencyFreeze(a)
        PROVE  Budget!Stop(a)
    BY <2>3, RevokeBudget DEF EmergencyFreeze
  <2>4. \/ Budget!Raise(a) \/ Budget!Repay(a) \/ Budget!Stop(a)
        \/ UNCHANGED <<owed, limit, stopped>>
    BY <2>1, <2>2, <2>3, RequestBudget, RepayBudget, TopUpBudget
  <2>5. QED
    BY <2>4 DEF Budget!Next
<1>2. CASE \E k \in Keys, n \in Amounts : SpendToSeller(k, n)
  BY <1>2, SpendBudget DEF Budget!Next
<1>3. CASE Chain \/ UNCHANGED vars
  <2>1. exposure' = exposure
    BY <1>3 DEF Chain, RunKeyReceipt, TransferArrives, TransferFails, book, vars
  <2>2. QED
    BY <2>1, BookUntouched
<1>4. QED
  BY <1>1, <1>2, <1>3 DEF Next

\* The contract implements the promise of a credit line (CreditBudget).
THEOREM GuardKeepsPromise == Spec => BudgetPromise
<1>1. QED
  BY BudgetInit, BudgetStep, GuardInvariance, PTL DEF Spec, BudgetPromise, Budget!Spec
===============================================================================
