SPECIFICATION FairSpec
CONSTANTS
  a1 = a1
  a2 = a2
  d1 = d1
  d2 = d2
  o1 = o1
  w1 = w1
  w2 = w2
  NoDispute = NoDispute
  Agents = {a1}
  Disputes = {d1}
  Offers = {o1}
  Watchers = {w1}
  Limits = {1, 2}
  Amounts = {1, 2}
  Slashes = {1}
  Stakes = {2}
  Term = 1
  InterestPeriod = 2
  MaxAge = 2
  MaxCash = 2
  MaxStake = 2
  MaxVault = 2
  MaxLoss = 2
INVARIANTS
  TypeOK
  OutstandingIsOwed
  ReservesBacked
  AccusedDrawsNothing
PROPERTIES
  PoolPromise
  AuditsEnd
CHECK_DEADLOCK FALSE
