CONSTANTS
  r1 = r1
  r2 = r2
  Requests <- MCRequests
  BufferSize = 1
  MaxRecordsPerBatch = 1
  MaxBatchBytes = 2
  MaxRecordBytes = 1
  Sizes <- MCSizes
  MaxEmits = 3
SPECIFICATION FairSpec
INVARIANTS CleanCloseAccountsForAllRows
PROPERTIES NoEmitAfterClose ShutdownEnds
