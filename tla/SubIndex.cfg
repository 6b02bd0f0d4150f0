CONSTANTS
  Filter <- Filters
  Topic <- Topics
  WildLevel <- WildLevels
  Token = {1, 2}
  MAX_SUBS = 3
SPECIFICATION Spec
INVARIANTS TypeOK IndexAgreesWithScan
PROPERTIES PruneExact
