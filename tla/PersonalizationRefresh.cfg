SPECIFICATION RefreshSpec
CONSTANTS
  Refresh = Refresh
  NoJob = NoJob
  Slots = {w1, w2}
  NoSlot = NoSlot
  Manual = Manual
  Stored = Stored
  RequestIds = {r1, r2, r3}
  NoRequest = NoRequest
  MaxAttempts = 1
SYMMETRY RequestSymmetry
INVARIANTS RefreshConsistent
PROPERTIES CalibratedOncePerRequest
