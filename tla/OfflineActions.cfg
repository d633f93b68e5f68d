SPECIFICATION Spec
CONSTANTS
  t1 = t1
  t2 = t2
  f1 = f1
  f2 = f2
  Tabs = {t1, t2}
  Readers = {t1}
  Fields = {f1}
  Values = {"read", "unread"}
  Selections <- Singles
  Initial = "unread"
  Nobody = Nobody
  Absent = Absent
  Unknown = Unknown
  QueueLimit = 2
  BatchLimit = 2
  MaxActions = 2
  MaxFaults = 1
  MaxChanges = 1
INVARIANTS OfflineConsistent CopyAgrees
PROPERTIES NothingIsDropped CompletionIsEarned
CHECK_DEADLOCK FALSE
