CONSTANTS
  a = a
  b = b
  c = c
  SequenceIds = {a, b, c}
  BatchBuckets = {1, 2}
  LargestBucket = 2
  QueryBuckets = {1, 2}
  MaxActiveSequences = 3
  MaxBatchedTokens = 2
  MaxPrefillChunk = 2
  MaxPrefillWait = 1
  MaxPrompt = 2
SPECIFICATION LiveSpec
INVARIANTS
  SequencesExact
  PlanFits
PROPERTIES
  AgedPrefillServed
  DecodeKeepsPriority
  NobodyStarves
