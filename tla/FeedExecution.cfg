SPECIFICATION FairSpec
CONSTANTS
  Crawl = {c1, c2}
  NoCrawl = NoCrawl
  MaxChanges = 1
INVARIANTS
  OffStaysOff
  ValidatorsMatchEndpoint
  IncompleteImportIsFetched
PROPERTIES
  SupersededNeverWrites
  DueFeedIsRequested
