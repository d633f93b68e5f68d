SPECIFICATION RefreshFairSpec
CONSTANTS
  Refresh = Refresh
  NoJob = NoJob
  Slots = {w1}
  NoSlot = NoSlot
  Manual = Manual
  Stored = Stored
  RequestIds = {r1, r2, r3}
  NoRequest = NoRequest
  MaxAttempts = 2
PROPERTIES RefreshIsNotStarved QuietRefreshSettles
