SPECIFICATION FairSpec
CONSTANTS
  n1 = n1
  n2 = n2
  q1 = q1
  t1 = t1
  t2 = t2
  None = None
  Torn = Torn
  Payments = {n1, n2, q1}
  Facilitated = {q1}
  Txs = {t1, t2}
  TxOf <- TxOfProofs
  Urls = {u1, u2}
  Handlers = {h1, h2}
  Replies = {"full", "noPayer", "noTx"}
  Deployments = {{"near"}, {"qie"}}
  MaxFaults = 1
INVARIANTS
  TypeOK
  ServedIsPaid
  CountedOnceWhenFinal
  ReceiptsFollowAttempts
PROPERTIES
  TransferOncePromise
  ClaimsEnd
