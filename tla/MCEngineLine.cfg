CONSTANTS
  r1 = r1
  r2 = r2
  r3 = r3
  Requests = {r1, r2, r3}
  CommandCapacity = 1
  EventCapacity = 1
  MaxQueued = 3
  MaxCommands = 2
  NumPages = 1
  PageDemands = {1}
  TokenBudgets = {1}
  BatchBuckets = {1}
  LargestBucket = 1
  QueryBuckets = {1}
  MaxActiveSequences = 2
  MaxBatchedTokens = 1
  MaxPrefillChunk = 1
  MaxPrefillWait = 1
  MaxPrompt = 1
SYMMETRY Symmetry
SPECIFICATION Spec
PROPERTIES
  AdmissionInOrder
