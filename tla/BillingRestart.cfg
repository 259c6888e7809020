SPECIFICATION Spec
CONSTANTS
  c1 = c1
  c2 = c2
  j1 = j1
  Calls = {c1, c2}
  Jtis = {j1}
  Wallet <- SharedJti
  Requests <- FewRequests
  MaxTime = 2
  MaxRestarts = 1
  MaxLosses = 0
  MaxRetries = 0
  MinInt64 <- MCMinInt64
SYMMETRY Symmetry
INVARIANTS NeverOverserved CreditsBounded
CHECK_DEADLOCK FALSE
