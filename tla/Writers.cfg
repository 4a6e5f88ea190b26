SPECIFICATION Spec
CONSTANTS
  Threads = {"a", "b", "c"}
  Batch <- MCBatch
  WriteBufferSize = 0
  SmallBatch = 1
  LargeGroup = 3
  kL0_CompactionTrigger = 1
  kL0_SlowdownWritesTrigger = 1
  kL0_StopWritesTrigger = 2
  Level0Found = {0, 2}
  MaxDeeper = 1
  MaxFailures = 1
INVARIANTS WritersTypeOK SyncedSurvives LogReplays
PROPERTIES ImplementsAtomicWrites EveryWaitEnds
