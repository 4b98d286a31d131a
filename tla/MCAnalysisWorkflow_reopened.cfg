SPECIFICATION Spec
CONSTANTS
  Captures = {c1}
  Dispatchers = {d1}
  Workers = {w1, w2}
  MaxRunAttempts = 3
  MaxOutputAttempts = 2
  MaxDeliveries = 4
  MaxEdits = 0
  MaxFaults = 2
  c1 = c1
  c2 = c2
  d1 = d1
  d2 = d2
  w1 = w1
  w2 = w2
SYMMETRY Symmetry
INVARIANTS
  FinalizedOrReopened
CHECK_DEADLOCK FALSE
