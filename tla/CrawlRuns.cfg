SPECIFICATION FairSpec
CONSTANTS
  u1 = u1
  u2 = u2
  u3 = u3
  scheduled = scheduled
  manual = manual
  worker = worker
  server = server
  Users = {u1, u2, u3}
  Hosts = {worker, server}
  Pipelines = {scheduled, manual}
  Batches <- MCBatches
  HostOf <- MCHostOf
  Workers <- MCWorkers
  SlotLimit = 2
  MaxFeeds = 1
  MaxCrawls = 3
  MaxFaults = 1
INVARIANTS CrawlConsistent OverlapOnlyAfterRecovery RefusedOnlyAfterAnEnd
PROPERTIES LiveRunIsKept EveryCrawlEnds
CHECK_DEADLOCK FALSE
