SPECIFICATION FairSpec
CONSTANTS
  d1 = d1
  d2 = d2
  p1 = p1
  p2 = p2
  Delivery = {d1}
  Place = {p1, p2}
  MaxAttempts = 3
  MaxToggles = 3
INVARIANTS DeliveriesConsistent
PROPERTIES ImplementsOutbox DeliveryConcludes
CHECK_DEADLOCK FALSE
