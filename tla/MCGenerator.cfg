CONSTANTS
  s1 = s1
  s2 = s2
  s3 = s3
  Sessions = {s1, s2, s3}
  Groups = 3
  LookaheadGroups = 2
  NumPages = 7
  PageSize = 2
  Prompts = {1, 3}
  Budgets = {0, 1, 4}
  MaxRows = 2
SYMMETRY Symmetry
SPECIFICATION Spec
INVARIANTS
  SessionsExact
  TokensReachTheirSession
  NothingRefused
  AttentionAgrees
  LaunchIsExact
PROPERTIES
  LossStopsTokens
  UsesLedger
