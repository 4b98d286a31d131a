SPECIFICATION Spec
CONSTANTS
  Events = {e1, e2, e3}
  Participants = {p1}
  MaxAccounts = 1
  Destinations = {d1}
  Consumers = {k1}
  Passes = {q1, q2}
  Lease = 2
  Interval = 2
  Batch = 3
  Width = 1
  MaxAttempts = 2
  MaxAge = 3
  MaxFaults = 0
  MaxEdits = 2
  p1 = p1
  d1 = d1
  d2 = d2
  e1 = e1
  e2 = e2
  e3 = e3
  k1 = k1
  q1 = q1
  q2 = q2
INVARIANTS
  NoNeedlessDuplicates
CHECK_DEADLOCK FALSE
