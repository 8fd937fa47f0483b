SPECIFICATION FairSpec
CONSTANTS
  r1 = r1
  r2 = r2
  r3 = r3
  Requests = {r1, r2, r3}
  WindowCount <- ThreeOneNone
  Limit = 2
INVARIANTS
  TypeOK
  NoLostWakeup
  QueuedGaugeExact
PROPERTIES
  ImplementsBulkhead
  EveryRequestEnds
