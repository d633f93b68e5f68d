SPECIFICATION Spec
CONSTANTS
  None = None
  NumArticles = 3
  NumEvents = 2
  Workers = {w1, w2}
  MinArticles = 2
  MaxRemoved = 2
SYMMETRY MCSymmetry
INVARIANTS EventsMatchMembers
PROPERTIES
  RepresentativeIsStable
  UnreadDevelopingIsSticky
  MembershipEndsForAReason
CHECK_DEADLOCK FALSE
