SPECIFICATION Spec
CONSTANTS
  Events = {e1}
  Participants = {p1}
  MaxAccounts = 2
  Destinations = {d1, d2}
  Consumers = {k1}
  Passes = {q1}
  Lease = 3
  Interval = 1
  Batch = 2
  Width = 1
  MaxAttempts = 2
  MaxAge = 3
  MaxFaults = 0
  MaxEdits = 4
  p1 = p1
  d1 = d1
  d2 = d2
  e1 = e1
  e2 = e2
  e3 = e3
  k1 = k1
  q1 = q1
  q2 = q2
INVARIANTS
  OnlyConsented
CHECK_DEADLOCK FALSE
