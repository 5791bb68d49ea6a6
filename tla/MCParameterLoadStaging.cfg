CONSTANTS
  a = a
  b = b
  c = c
  Registry <- MCRegistry
  Models <- MCModels
  Parallelism = 2
SPECIFICATION Spec
INVARIANTS
  LiveWithinWorkers
