SPECIFICATION Spec
CONSTANTS
  bob = bob
  eve = eve
  l1 = l1
  l2 = l2
  c1 = c1
  c2 = c2
  s1 = s1
  s2 = s2
  None = None
  Users = {bob, eve}
  MockUser = bob
  Logins = {l1, l2}
  Callbacks = {c1, c2}
  Seeds = {s1, s2}
  VerifierTtl = 1
  TokenTtl = 2
  MaxTime = 2
  MaxRetries = 1
  MaxFaults = 2
CHECK_DEADLOCK FALSE
SYMMETRY Symmetry
INVARIANTS TypeOK OneTokenPerLogin TokensAreConsented LoginsInTime LoginCompletes
