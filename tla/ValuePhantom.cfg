SPECIFICATION Spec
CONSTANTS
  c1 = c1
  c2 = c2
  v1 = v1
  Calls = {c1, c2}
  Contents = {v1}
  DagPb = {}
  Size <- SizeOf
  Ttls = {1000, 2400}
  MaxTtl = 2400
  MaxSizes = {2}
  MaxDuration = 4000
  Delays = {700}
  MaxTime = 2800
  MaxProlongs = 3
SYMMETRY Symmetry
INVARIANT ProlongFindsValue
CHECK_DEADLOCK FALSE
