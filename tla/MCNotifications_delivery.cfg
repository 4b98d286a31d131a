SPECIFICATION LiveSpec
CONSTANTS
  Events = {e1, e2}
  Participants = {p1}
  MaxAccounts = 2
  Destinations = {d1}
  Consumers = {k1}
  Passes = {q1, q2}
  Lease = 3
  Interval = 1
  Batch = 2
  Width = 1
  MaxAttempts = 2
  MaxAge = 3
  MaxFaults = 1
  MaxEdits = 3
  p1 = p1
  d1 = d1
  d2 = d2
  e1 = e1
  e2 = e2
  e3 = e3
  k1 = k1
  q1 = q1
  q2 = q2
INVARIANTS
  CountsTrue
  NoNeedlessDuplicates
PROPERTIES
  DecisionStands
  EveryDeliveryEnds
CHECK_DEADLOCK FALSE
