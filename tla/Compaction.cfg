SPECIFICATION Spec
CONSTANTS
  kMaxSequenceNumber = 99
  kNumLevels = 4
  kMaxMemCompactLevel = 2
  kL0_CompactionTrigger = 2
  TargetFileSize = 2
  MaxBytesForLevel <- MCMaxBytes
  GrandParentFactor = 1
  ExpandedFactor = 3
  Keys = {1, 2}
  Recovered <- MCRecovered
  MaxEvents = 3
INVARIANTS ReadsRight VersionsInOrder LiveFilesExist BackgroundWorkKept
CHECK_DEADLOCK FALSE
