SPECIFICATION Spec
CONSTANTS
  c1 = c1
  c2 = c2
  j1 = j1
  Calls = {c1, c2}
  Jtis = {j1}
  Wallet <- MCWallet
  Requests <- MCRequests
  MaxTime = 2
  MaxRestarts = 0
  MaxLosses = 1
  MaxRetries = 1
  MinInt64 <- MCMinInt64
PROPERTY DeductFindsSession
CHECK_DEADLOCK FALSE
