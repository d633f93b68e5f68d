SPECIFICATION Spec
CONSTANTS
  NumVersions = 1
  NoVersion = NoVersion
  Workers = {w1, w2}
  NoWorker = NoWorker
  MaxAttempts = 1
INVARIANTS RetryRevivesArticle
CHECK_DEADLOCK FALSE
