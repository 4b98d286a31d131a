SPECIFICATION LiveSpec
CONSTANTS
  Captures = {c1}
  Dispatchers = {d1, d2}
  Workers = {w1, w2}
  MaxRunAttempts = 5
  MaxOutputAttempts = 2
  MaxDeliveries = 5
  MaxEdits = 1
  MaxFaults = 2
  c1 = c1
  c2 = c2
  d1 = d1
  d2 = d2
  w1 = w1
  w2 = w2
INVARIANTS
  TaskBacked
  AttemptsBounded
PROPERTIES
  OutcomeRefined
  StartedStaysStarted
  CompletedRunStands
  Settles
CHECK_DEADLOCK FALSE
