------------------------------ MODULE MCShared ------------------------------
(* Iterators, the table cache, the environment and recovery for TLC: each  *)
(* behaviour is one of a single part, the others stay as they begin.       *)
EXTENDS Iterators, TableCache, PosixEnv, DBRecovery

VARIABLE part

MCHash == [f \in TableFiles |-> <<1, 3, 2, 5>>[f]]

sharedVars ==
  <<part, iteratorVars, tableCacheVars, lockVars, threadVars, posixFileVars, vars>>

IteratorsPart ==
  /\ part = "iterators" /\ IteratorsNext
  /\ UNCHANGED <<part, tableCacheVars, lockVars, threadVars, posixFileVars, vars>>
TableCachePart ==
  /\ part = "cache" /\ TableCacheNext
  /\ UNCHANGED <<part, iteratorVars, lockVars, threadVars, posixFileVars, vars>>
LocksPart ==
  /\ part = "locks" /\ LocksNext
  /\ UNCHANGED <<part, iteratorVars, tableCacheVars, threadVars, posixFileVars, vars>>
ThreadPart ==
  /\ part = "thread" /\ ThreadNext
  /\ UNCHANGED <<part, iteratorVars, tableCacheVars, lockVars, posixFileVars, vars>>
FilesPart ==
  /\ \/ part = "writable" /\ WritableNext
     \/ part = "limits" /\ LimitsNext
  /\ UNCHANGED <<part, iteratorVars, tableCacheVars, lockVars, threadVars, vars>>

RecoveryPart ==
  /\ part = "recovery" /\ Next
  /\ UNCHANGED <<part, iteratorVars, tableCacheVars, lockVars, threadVars, posixFileVars>>

(* Only the iterators' part has more than one initial state for its own    *)
(* variables, and the cache's.                                             *)
SharedInit ==
  /\ part \in {"iterators", "cache", "locks", "thread", "writable", "limits", "recovery"}
  /\ IF part = "iterators" THEN IteratorsInit
     ELSE /\ children = [i \in Children |-> {}] /\ sequence_ = 0 /\ merging = << >>
          /\ dbiter = [direction |-> "forward", valid |-> FALSE, ok |-> TRUE]
          /\ turn = "user" /\ value_type = 0 /\ skipping = FALSE /\ expected = {} /\ scan = FALSE
  /\ IF part = "cache" THEN TableCacheInit
     ELSE /\ shard_ = [s \in ShardNumbers |-> EmptyCache(0)] /\ file_exists = {}
          /\ table_reader = [r \in TableReaders |-> IdleReader] /\ cache_open = TRUE
  /\ LocksInit /\ ThreadInit /\ PosixFilesInit
  /\ Init /\ (part # "recovery" => CURRENT = 0)

SharedNext ==
  IteratorsPart \/ TableCachePart \/ LocksPart \/ ThreadPart \/ FilesPart \/ RecoveryPart

SharedSpec == SharedInit /\ [][SharedNext]_sharedVars

=============================================================================
