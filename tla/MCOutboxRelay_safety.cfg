SPECIFICATION LiveSpec
CONSTANTS
  Events = {e1}
  Relays = {r1, r2}
  Consumers = {k1, k2}
  MaxDeliveries = 4
  MaxFaults = 3
  e1 = e1
  e2 = e2
  r1 = r1
  r2 = r2
  k1 = k1
  k2 = k2
INVARIANTS
  EffectOnce
  NothingLost
  NoNeedlessDuplicates
PROPERTIES
  TakesEffect
CHECK_DEADLOCK FALSE
