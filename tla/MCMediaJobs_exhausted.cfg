SPECIFICATION Spec
CONSTANTS
  Assets = {a1}
  Dispatchers = {d1}
  Workers = {w1}
  ErrorKinds = {e1}
  MaxAttempts = 1
  MaxDeliveries = 2
  MaxFaults = 2
  a1 = a1
  a2 = a2
  d1 = d1
  d2 = d2
  w1 = w1
  w2 = w2
  e1 = e1
  e2 = e2
SYMMETRY Symmetry
INVARIANTS
  ExhaustedCanBeRetried
CHECK_DEADLOCK FALSE
