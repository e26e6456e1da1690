SPECIFICATION PolledSpec
CONSTANTS
  n1 = n1
  n2 = n2
  q1 = q1
  t1 = t1
  t2 = t2
  None = None
  Torn = Torn
  Payments = {n1, q1}
  Facilitated = {q1}
  Txs = {t1, t2}
  TxOf <- TxOfSingle
  Urls = {u1}
  Handlers = {h1}
  Replies = {"full", "noPayer", "noTx"}
  Deployments = {{"near"}, {"qie"}}
  MaxFaults = 0
PROPERTIES
  OutcomeBecomesKnown
