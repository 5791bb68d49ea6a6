CONSTANTS
  s1 = s1
  s2 = s2
  SequenceIds = {s1, s2}
  NumPages = 3
  PageSize = 2
  MaxTokens = 2
  MaxTable = 2
SYMMETRY Symmetry
SPECIFICATION Spec
INVARIANTS
  PagesExact
  ReservationHonoured
PROPERTIES
  SealedUntilReleased
  ImplementsLedger
