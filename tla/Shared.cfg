\* 3 entries over 2 user keys and 2 children, one of them damaged, and a late
\* write; 4 tables in 2 shards whose hash table grows; a recovery of two writes,
\* two crashes and a failure.
SPECIFICATION SharedSpec
CONSTANTS
  UserKeys = {1, 2}
  NumChildren = 2
  MaxSequence = 3
  MaxLateWrites = 1
  kMaxSequenceNumber = 100
  TableFiles = {1, 2, 3, 4}
  TableReaders = {t1, t2}
  CacheCapacities = {0, 3, 5}
  kNumShards = 2
  HashBits = 3
  Hash <- MCHash
  kMinBuckets = 1
  Processes = {p1, p2}
  Threads = {t1, t2}
  NoProcess = NoProcess
  Callers = {c1, c2}
  MaxItems = 4
  kWritableFileBufferSize = 3
  AppendSizes = {1, 2, 7}
  MaxBytes = 9
  MaxMmaps = 1
  MaxOpenFiles = 1
  Openers = {o1, o2, o3}
  WriteBufferSize = 1
  ReuseLogs = {FALSE}
  NewDatabase = {TRUE, FALSE}
  MaxWrites = 2
  MaxCrashes = 2
  MaxFailures = 1
INVARIANTS IteratorsRight CacheIsRight OneThreadHolds EnvironmentRight
INVARIANTS CanBeOpened NothingPromisedIsLost NumbersRight
CHECK_DEADLOCK FALSE
