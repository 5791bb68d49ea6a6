CONSTANTS
  r1 = r1
  r2 = r2
  Requests = {r1, r2}
  CommandCapacity = 1
  EventCapacity = 1
  MaxQueued = 1
  MaxCommands = 1
  NumPages = 1
  PageDemands = {1}
  TokenBudgets = {3}
  BatchBuckets = {1, 2}
  LargestBucket = 2
  QueryBuckets = {1}
  MaxActiveSequences = 2
  MaxBatchedTokens = 2
  MaxPrefillChunk = 1
  MaxPrefillWait = 1
  MaxPrompt = 2
SYMMETRY Symmetry
SPECIFICATION Spec
PROPERTIES
  StableYieldsToDeadlines
