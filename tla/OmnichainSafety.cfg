SPECIFICATION Spec
CONSTANTS
  a1 = a1
  a2 = a2
  evm = evm
  n1 = n1
  r1 = r1
  r2 = r2
  Flare = flare
  NoNote = NoNote
  Agents = {a1}
  Chains = {evm}
  Notes = {n1}
  Requests = {r1, r2}
  Caps = {4}
  FlareCap = 4
  Amounts = {1, 2}
  Prices = {1, 2}
  Liquidity = 2
  MaxEvents = 2
SYMMETRY Symmetry
INVARIANTS
  TypeOK
  CommittedWithinCap
  ReservationsBacked
  BooksAgree
  VaultsConserve
  FlareSolvent
  FlareSettlesTogether
CHECK_DEADLOCK FALSE
PROPERTIES
  BudgetPromise
