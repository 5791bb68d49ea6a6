CONSTANTS
  NumContracts = 2
  MaxRestarts = 1
  MaxSignals = 2
  MaxCrashes = 1
SPECIFICATION FairSpec
INVARIANTS
  AtMostOneExecution
  SuccessMeansAllPassed
  TerminatedMeansGone
  TerminationAttempted
PROPERTIES
  KnownPodGoes
