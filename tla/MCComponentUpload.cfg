CONSTANTS
  StagingBuffers = 2
  ChunkBytes = 2
  Jobs <- MCJobs
SPECIFICATION Spec
INVARIANTS
  UploadExact
  LanesOutliveTransfers
  LastIsTheLast
PROPERTIES
  Returns
