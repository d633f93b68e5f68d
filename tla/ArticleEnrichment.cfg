SPECIFICATION FairSpec
CONSTANTS
  NumVersions = 2
  NoVersion = NoVersion
  Workers = {w1, w2}
  NoWorker = NoWorker
  MaxAttempts = 2
INVARIANTS EnrichmentConsistent
PROPERTIES StaleJobsTouchNothing AnalysisConcludes
CHECK_DEADLOCK FALSE
