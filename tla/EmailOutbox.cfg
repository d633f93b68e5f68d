SPECIFICATION FairSpec
CONSTANTS
  w1 = w1
  w2 = w2
  Workers <- MCWorkers
  NumDeliveries = 2
  BatchSize = 2
  MaxAttempts = 3
  MaxFaults = 1
INVARIANTS OutboxConsistent DuplicatesNeedFaults
PROPERTIES ImplementsOutbox EveryDeliveryConcludes
CHECK_DEADLOCK FALSE
