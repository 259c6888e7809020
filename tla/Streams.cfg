SPECIFICATION Spec
CONSTANTS
  w1 = w1
  w2 = w2
  q1 = q1
  bob = bob
  eve = eve
  did = did
  plain = plain
  nested = nested
  Writers = {w1, w2}
  Readers = {q1}
  Names = {nested, plain}
  Accounts = {bob, eve}
  Matches <- MCMatches
  Owner <- MCOwner
  Rebuilt <- MCRebuilt
  AskedIds <- MCAskedIds
  PageSizes = {0, 1, 2}
  Ttl = 2
  Second = 2
  MaxTime = 4
  MaxCalls = 3
  MaxRetries = 1
  MaxFaults = 2
CHECK_DEADLOCK FALSE
SYMMETRY Symmetry
INVARIANTS TypeOK PagesComplete PagingAdvances Retention StreamExpires
