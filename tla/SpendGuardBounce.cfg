SPECIFICATION Spec
CONSTANTS
  a1 = a1
  a2 = a2
  k1 = k1
  k2 = k2
  NoKey = NoKey
  NoAgent = NoAgent
  Agents = {a1}
  Keys = {k1}
  Lines = {0, 2}
  Amounts = {1, 2}
  SpikeThreshold = 2
  MaxReceipts = 3
  MaxRepaid = 2
INVARIANTS
  DrawsReachSellers
