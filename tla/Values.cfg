SPECIFICATION Spec
CONSTANTS
  c1 = c1
  c2 = c2
  v1 = v1
  Calls = {c1, c2}
  Contents = {v1}
  DagPb = {v1}
  Size <- SizeOf
  Ttls = {0, 1000, 2400}
  MaxTtl = 2400
  MaxSizes = {1, 2}
  MaxDuration = 4000
  Delays = {700}
  MaxTime = 2800
  MaxProlongs = 2
SYMMETRY Symmetry
INVARIANTS TypeOK LifetimeKept
PROPERTIES ProlongBounds
CHECK_DEADLOCK FALSE
