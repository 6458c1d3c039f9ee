CONSTANTS
  BufferSize = 2
  MaxRecordsPerBatch = 2
  MaxBatchBytes = 4
  MaxRecordBytes = 3
  Sizes <- MCSizes
  MaxEmits = 4
SPECIFICATION FairSpec
INVARIANTS EmitterTypeOK Conservation BatchWithinLimits SentInOrderOnce CountersBoundTheLake
PROPERTIES QueuedEventLeaves DrainFinishes
