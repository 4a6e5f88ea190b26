\* Blocks of 10 bytes in a log; bytes of 4 values in a varint; 8 keys of at
\* most 3 bytes; three files to repair; up to 43 bytes under a checksum;
\* 3 keys of up to 3 levels.
SPECIFICATION FilesSpec
CONSTANTS
  kBlockSize = 10
  RecordSizes = {0, 2, 7}
  MaxRecords = 3
  InitialOffsets = {0, 4, 12}
  Radix = 4
  Bytes32 = 3
  Max32 = 32
  Bytes64 = 4
  Max64 = 128
  kNumLevels = 7
  PadWidth = 2
  Numbers = {3, 127}
  Keys <- MCEditKeys
  MaxFields = 2
  MaxOps = 3
  TableKeys <- MCTableKeys
  kMaxByte = 2
  block_size = 19
  block_restart_interval = 2
  kFilterBase = 32
  bits_per_key = 4
  kProbes = 2
  MinFilterBits = 8
  WordBits = 8
  Hash <- MCHash
  MaxKeys = 5
  MaxSnapshot = 2
  kMaxSequenceNumber = 9
  RepairNumbers = {2, 3, 5}
  RepairEntries = {1, 2}
  MaxNumber = 14
  MaxRepairCrashes = 1
  CrcLengths = {0, 2, 5, 16, 19, 35, 43}
  CrcSeeds = {1}
  Sources <- MCSources
  SlackSizes <- MCSlackSizes
  DecodeSizes <- MCDecodeSizes
  MaxValues = 2
  StoredSizes = {1, 2}
  DamagedHandles <- MCDamagedHandles
  MaxFile = 4
  MaxStops = 2
  ArenaBlockSize = 16
  Align = 4
  PieceSizes = {1, 3, 4, 5}
  MaxPieces = 5
  ListKeys = {1, 2, 3}
  kMaxHeight = 3
  Readers = {r1}
INVARIANTS RecordsReadBack CodingIsRight TablesRight DiskCanBeOpened UtilitiesRight ListIsRight
CHECK_DEADLOCK FALSE
