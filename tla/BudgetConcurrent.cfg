SPECIFICATION Spec
CONSTANTS
  Keys = {k1, k2, k3, k4}
  Clients = {c1, c2}
  Limit = 4
  Estimates = {1, 2}
  Actuals = {0, 1, 3}
  Amounts = {0, 1, 2, 3}
  SumOf <- MCSumOf
  NoClient = NoClient
SYMMETRY Symmetry
INVARIANTS
  NeverOvercommitted
  LedgerTellsStatus
