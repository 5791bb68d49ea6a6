CONSTANTS
  None = None
  Json <- MCJson
  ResponseCapacity = 2
  Budgets = {0, 5, 14}
  Headers <- MCHeaders
  BodyTokens <- MCBody
  MaxBody = 2
SPECIFICATION FairSpec
INVARIANTS
  StreamExact
  ParserAgrees
  GuardIsExact
PROPERTIES
  ImplementsStream
  ResponseEnds
