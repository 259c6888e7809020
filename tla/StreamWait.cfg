SPECIFICATION FairSpec
CONSTANTS
  w1 = w1
  w2 = w2
  q1 = q1
  bob = bob
  eve = eve
  did = did
  plain = plain
  nested = nested
  Writers = {w1}
  Readers = {q1}
  Names = {did, nested, plain}
  Accounts = {bob, eve}
  Matches <- MCMatches
  Owner <- MCOwner
  Rebuilt <- MCRebuilt
  AskedIds <- MCAskedIds
  PageSizes = {}
  Ttl = 2
  Second = 1
  MaxTime = 3
  MaxCalls = 1
  MaxRetries = 0
  MaxFaults = 0
CHECK_DEADLOCK FALSE
PROPERTIES MissingValueAnswered
