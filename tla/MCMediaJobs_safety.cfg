SPECIFICATION LiveSpec
CONSTANTS
  Assets = {a1}
  Dispatchers = {d1}
  Workers = {w1, w2}
  ErrorKinds = {e1}
  MaxAttempts = 2
  MaxDeliveries = 2
  MaxFaults = 1
  a1 = a1
  a2 = a2
  d1 = d1
  d2 = d2
  w1 = w1
  w2 = w2
  e1 = e1
  e2 = e2
INVARIANTS
  RetentionHonoured
  SuccessMeansGone
  DeletedEventOnce
  AssetTracksValidation
  QueuedHasTask
PROPERTIES
  AttemptMovesForward
  OutcomeStands
  DueJobsSettle
CHECK_DEADLOCK FALSE
