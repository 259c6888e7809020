SPECIFICATION Spec
CONSTANTS
  w1 = w1
  w2 = w2
  q1 = q1
  d1 = d1
  d2 = d2
  s1 = s1
  s2 = s2
  x1 = x1
  v0 = v0
  x2 = x2
  y2 = y2
  odd = odd
  Writers = {w1, w2}
  Searchers = {q1}
  Dids = {d1, d2}
  Services = {s1, s2}
  Cids = {x1, v0, x2, y2, odd}
  Decode <- MCDecode
  String <- MCString
  CidsOf <- MCCidsOf
  Ads <- MCAds
  Ttl = 1
  Limit = 1
  MaxTime = 2
  MaxCalls = 2
  MaxFaults = 1
CHECK_DEADLOCK FALSE
SYMMETRY Symmetry
INVARIANTS TypeOK SearchComplete IndexExpires
