SPECIFICATION FairSpec
CONSTANTS
  p1 = p1
  p2 = p2
  t1 = t1
  u1 = u1
  u2 = u2
  h1 = h1
  h2 = h2
  None = None
  Loop = Loop
  Payments = {p1}
  Txs = {t1}
  TxOf <- TxOne
  Urls = {u1}
  Handlers = {h1}
  Replies = {"full"}
  MissThreshold = 2
  MaxFaults = 1
  MaxRefunds = 0
PROPERTIES
  GoodPaymentsConfirmed
  ClaimsDoNotLinger
