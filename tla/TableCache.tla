----------------------------- MODULE TableCache -----------------------------
(***************************************************************************)
(* Open tables (db/table_cache.cc) in a sharded cache (util/cache.cc):     *)
(* readers find a table in the cache or open it, without a lock between    *)
(* the two, and hold its handle while they read; DeleteObsoleteFiles       *)
(* evicts a table and removes its file.                                    *)
(*                                                                         *)
(* A shard has reference-counted entries, the list of those only the cache *)
(* holds, in the order they were last used, and a hash table of chains     *)
(* that grows.  Its operations run under its mutex and are functions of    *)
(* the shard.  A handle is a number, taken again once its entry has been   *)
(* freed.  Every entry charges 1, as TableCache's do.  A chain is the set  *)
(* of its handles since their keys differ.                                 *)
(***************************************************************************)
EXTENDS Integers, FiniteSets, SequencesExt

CONSTANTS TableFiles, TableReaders,
          CacheCapacities,         \* capacities NewLRUCache is called with
          Hash,                    \* the hash of a key
          kMinBuckets,             \* the first length of the hash table
          kNumShards, HashBits     \* shards; the width of a hash value

VARIABLES
  shard_,          \* the shards of the cache
  file_exists,     \* the files of tables
  table_reader,    \* each reader: what it does, to which file, its handle
  cache_open       \* whether the database is open

tableCacheVars == <<shard_, file_exists, table_reader, cache_open>>

-----------------------------------------------------------------------------
(* HandleTable                                                             *)

EmptyTable == [length |-> kMinBuckets, elems |-> 0, list |-> [b \in 0 .. kMinBuckets - 1 |-> {}]]

Bucket(c, k) == Hash[k] % c.table.length
Chain(c, k) == c.table.list[Bucket(c, k)]

(* What Lookup finds, as a set of at most one handle.                      *)
TableLookup(c, k) == {h \in Chain(c, k) : c.entries[h].key = k}

(* Mutant: chains are moved as they are, to the bucket of their number.    *)
ResizeKeepsChains(c) ==
  LET length == 2 * c.table.length IN
  [c EXCEPT !.table =
     [length |-> length, elems |-> @.elems,
      list |-> [b \in 0 .. length - 1 |-> IF b \in DOMAIN @.list THEN @.list[b] ELSE {}]]]

(* The length is doubled from kMinBuckets until it holds elems, which have *)
(* just become one more than the length was: until it is twice that.       *)
Resize(c) ==
  LET length == IF c.table.elems <= kMinBuckets THEN kMinBuckets ELSE 2 * c.table.length
      all == UNION {c.table.list[b] : b \in DOMAIN c.table.list}
  IN  [c EXCEPT !.table =
         [length |-> length, elems |-> @.elems,
          list |-> [b \in 0 .. length - 1 |-> {h \in all : Hash[c.entries[h].key] % length = b}]]]

(* The new handle takes the place of the old entry, or is one more.        *)
TableInsert(c, h) ==
  LET k == c.entries[h].key
      old == TableLookup(c, k)
      t == c.table
      d == [c EXCEPT !.table =
              [length |-> t.length, elems |-> IF old = {} THEN t.elems + 1 ELSE t.elems,
               list |-> [t.list EXCEPT ![Bucket(c, k)] = (@ \ old) \cup {h}]]]
  IN  IF d.table.elems > d.table.length THEN Resize(d) ELSE d

TableRemove(c, k) ==
  LET old == TableLookup(c, k)
      t == c.table
  IN  IF old = {} THEN c
      ELSE [c EXCEPT !.table = [length |-> t.length, elems |-> t.elems - 1,
                                list |-> [t.list EXCEPT ![Bucket(c, k)] = @ \ old]]]

-----------------------------------------------------------------------------
(* LRUCache                                                                *)

EmptyCache(capacity) ==
  [capacity |-> capacity, usage |-> 0, lru |-> << >>, in_use |-> {},
   entries |-> << >>, table |-> EmptyTable]

LRU_Remove(c, h) == [c EXCEPT !.lru = RemoveFirst(@, h), !.in_use = @ \ {h}]

(* Mutant: a lookup's handle is not counted.                               *)
RefUncounted(c, h) ==
  IF c.entries[h].refs = 1 /\ c.entries[h].in_cache
  THEN [LRU_Remove(c, h) EXCEPT !.in_use = @ \cup {h}] ELSE c

Ref(c, h) ==
  LET e == c.entries[h]
      d == IF e.refs = 1 /\ e.in_cache THEN [LRU_Remove(c, h) EXCEPT !.in_use = @ \cup {h}] ELSE c
  IN  [d EXCEPT !.entries[h].refs = @ + 1]

(* The deleter runs and the entry is freed when nobody holds it.           *)
Unref(c, h) ==
  LET e == c.entries[h] IN
  IF e.refs = 1
  THEN [c EXCEPT !.entries = [g \in DOMAIN @ \ {h} |-> @[g]]]
  ELSE IF e.in_cache /\ e.refs = 2
  THEN [LRU_Remove(c, h) EXCEPT !.entries[h].refs = 1, !.lru = Append(@, h)]
  ELSE [c EXCEPT !.entries[h].refs = @ - 1]

FinishErase(c, handles) ==
  IF handles = {} THEN c
  ELSE LET h == CHOOSE g \in handles : TRUE IN
       Unref([LRU_Remove(c, h) EXCEPT !.entries[h].in_cache = FALSE, !.usage = @ - 1], h)

Erase(c, k) == FinishErase(TableRemove(c, k), TableLookup(c, k))

(* Entries that only the cache holds are erased from the old end: all, or  *)
(* until the cache is not too full.                                        *)
EraseOldest(c, all) ==
  LET n == Len(c.lru)
      done[i \in 0 .. n] ==
        IF i = 0 THEN c
        ELSE LET d == done[i - 1] IN
             IF d.lru # << >> /\ (all \/ d.usage > d.capacity)
             THEN Erase(d, d.entries[Head(d.lru)].key) ELSE d
  IN  done[n]

NewHandle(c) == CHOOSE h \in 1 .. Cardinality(DOMAIN c.entries) + 1 : h \notin DOMAIN c.entries

(* Insert, for the handle NewHandle gives.  A capacity of 0 turns caching  *)
(* off.                                                                    *)
CacheInsert(c, k) ==
  LET h == NewHandle(c)
      caching == c.capacity > 0
      e == IF caching THEN [key |-> k, in_cache |-> TRUE, refs |-> 2]
           ELSE [key |-> k, in_cache |-> FALSE, refs |-> 1]
      d == [c EXCEPT !.entries = [g \in DOMAIN @ \cup {h} |-> IF g = h THEN e ELSE @[g]]]
      f == [d EXCEPT !.in_use = @ \cup {h}, !.usage = @ + 1]
      inserted == IF caching THEN FinishErase(TableInsert(f, h), TableLookup(f, k)) ELSE d
  IN  EraseOldest(inserted, FALSE)

CacheLookup(c, k) ==
  IF TableLookup(c, k) = {} THEN c ELSE Ref(c, CHOOSE h \in TableLookup(c, k) : TRUE)

Prune(c) == EraseOldest(c, TRUE)

(* The destructor gives up what only the cache holds.                      *)
Destroy(c) ==
  LET freed == {h \in ToSet(c.lru) : c.entries[h].refs = 1}
      given_up(e) == [key |-> e.key, in_cache |-> FALSE, refs |-> e.refs - 1]
  IN  [c EXCEPT !.entries = [h \in DOMAIN @ \ freed |->
         IF h \in ToSet(c.lru) THEN given_up(@[h]) ELSE @[h]]]

-----------------------------------------------------------------------------
(* What LRUCache keeps true.                                               *)

Cached(c) == {h \in DOMAIN c.entries : c.entries[h].in_cache}

(* Its two lists have what they should, once each.                         *)
ListsRight(c) ==
  /\ c.in_use = {h \in Cached(c) : c.entries[h].refs >= 2}
  /\ ToSet(c.lru) = {h \in Cached(c) : c.entries[h].refs = 1} /\ IsInjective(c.lru)
  /\ c.usage = Cardinality(Cached(c))

TableRight(c) ==
  /\ c.table.elems = Cardinality(Cached(c))
  /\ \A h \in Cached(c) : TableLookup(c, c.entries[h].key) = {h}

-----------------------------------------------------------------------------
(* The shards and the tables in them.                                      *)

ShardNumbers == 0 .. kNumShards - 1
Shard(f) == Hash[f] \div (2 ^ HashBits \div kNumShards)

(* A hash has HashBits bits, the highest of which are the shard.           *)
ASSUME TableCacheAssumption ==
  /\ Hash \in [TableFiles -> Nat] /\ \A f \in TableFiles : Shard(f) \in ShardNumbers
  /\ kNumShards \in Nat \ {0} /\ kMinBuckets \in Nat \ {0}
  /\ CacheCapacities \subseteq Nat /\ IsFiniteSet(TableReaders)

IdleReader == [doing |-> "nothing", file |-> 0, handle |-> 0]

(* A shard gets its part of the capacity, rounded up.                      *)
PerShard(capacity) == (capacity + kNumShards - 1) \div kNumShards

(* FindTable first looks into the cache.                                   *)
FindTable(r, f) ==
  LET s == Shard(f)
      found == TableLookup(shard_[s], f)
  IN  /\ cache_open /\ table_reader[r].doing = "nothing"
      /\ f \in file_exists
      /\ shard_' = [shard_ EXCEPT ![s] = CacheLookup(@, f)]
      /\ table_reader' = [table_reader EXCEPT ![r] =
           IF found = {} THEN [doing |-> "opening", file |-> f, handle |-> 0]
           ELSE [doing |-> "reading", file |-> f, handle |-> CHOOSE h \in found : TRUE]]
      /\ UNCHANGED <<file_exists, cache_open>>

(* Then it opens the file, as .ldb or as .sst, and inserts the table;      *)
(* another reader may have done the same.                                  *)
OpenTable(r) ==
  LET f == table_reader[r].file
      s == Shard(f)
  IN  /\ table_reader[r].doing = "opening" /\ f \in file_exists
      /\ shard_' = [shard_ EXCEPT ![s] = CacheInsert(@, f)]
      /\ table_reader' = [table_reader EXCEPT ![r].doing = "reading", ![r].handle = NewHandle(shard_[s])]
      /\ UNCHANGED <<file_exists, cache_open>>

(* Opening or reading it failed: errors are not cached.                    *)
OpenFails(r) ==
  /\ table_reader[r].doing = "opening"
  /\ table_reader' = [table_reader EXCEPT ![r] = IdleReader]
  /\ UNCHANGED <<shard_, file_exists, cache_open>>

(* Get releases the handle, and so does the cleanup of an iterator.        *)
ReleaseTable(r) ==
  /\ table_reader[r].doing = "reading"
  /\ shard_' = [shard_ EXCEPT ![Shard(table_reader[r].file)] = Unref(@, table_reader[r].handle)]
  /\ table_reader' = [table_reader EXCEPT ![r] = IdleReader]
  /\ UNCHANGED <<file_exists, cache_open>>

(* Mutant: the entry is left in the cache.                                 *)
EvictNothing(c, f) == c

Evict(c, f) == Erase(c, f)

(* DeleteObsoleteFiles removes a table no version holds: no reader's       *)
(* version does, and so none is between its lookup and its release.        *)
RemoveObsoleteTable(f) ==
  /\ cache_open /\ f \in file_exists
  /\ \A r \in TableReaders : table_reader[r].file # f
  /\ shard_' = [shard_ EXCEPT ![Shard(f)] = Evict(@, f)]
  /\ file_exists' = file_exists \ {f}
  /\ UNCHANGED <<table_reader, cache_open>>

PruneCache ==
  /\ cache_open
  /\ shard_' = [s \in ShardNumbers |-> Prune(shard_[s])]
  /\ UNCHANGED <<file_exists, table_reader, cache_open>>

(* The database is closed once its iterators are deleted.                  *)
CloseTableCache ==
  /\ cache_open /\ \A r \in TableReaders : table_reader[r] = IdleReader
  /\ shard_' = [s \in ShardNumbers |-> Destroy(shard_[s])]
  /\ cache_open' = FALSE
  /\ UNCHANGED <<file_exists, table_reader>>

TableCacheInit ==
  /\ \E capacity \in CacheCapacities :
       shard_ = [s \in ShardNumbers |-> EmptyCache(PerShard(capacity))]
  /\ file_exists = TableFiles
  /\ table_reader = [r \in TableReaders |-> IdleReader]
  /\ cache_open = TRUE

TableCacheNext ==
  \/ \E r \in TableReaders :
       (\E f \in TableFiles : FindTable(r, f)) \/ OpenTable(r) \/ OpenFails(r) \/ ReleaseTable(r)
  \/ \E f \in TableFiles : RemoveObsoleteTable(f)
  \/ PruneCache \/ CloseTableCache

TableCacheSpec == TableCacheInit /\ [][TableCacheNext]_tableCacheVars

-----------------------------------------------------------------------------
(* Properties.                                                             *)

(* A reader's table is never closed under it, not when another reader      *)
(* inserts the same table, when the cache is full, pruned or the table     *)
(* evicted: its handle is an entry of its file (LRUCache::Unref).          *)
HeldTableOpen ==
  \A r \in TableReaders :
    LET t == table_reader[r] IN
    t.doing = "reading" => /\ t.handle \in DOMAIN shard_[Shard(t.file)].entries
                           /\ shard_[Shard(t.file)].entries[t.handle].key = t.file

(* The readers that hold a handle.                                         *)
Holders(s, h) ==
  {r \in TableReaders : /\ table_reader[r].doing = "reading" /\ table_reader[r].handle = h
                        /\ Shard(table_reader[r].file) = s}

(* The cache's counts, lists and hash table agree at every moment, and     *)
(* nothing is left when it is closed.                                      *)
CacheConsistent ==
  \A s \in ShardNumbers :
    LET c == shard_[s] IN
    IF cache_open
    THEN /\ ListsRight(c) /\ TableRight(c)
         /\ \A h \in DOMAIN c.entries :
              c.entries[h].refs = Cardinality(Holders(s, h)) + (IF c.entries[h].in_cache THEN 1 ELSE 0)
    ELSE DOMAIN c.entries = {}

(* No table of a removed file stays in the cache, open: the lookup, the    *)
(* opening and the insertion of a reader leave no gap for an eviction      *)
(* (TableCache::Evict).                                                    *)
NoRemovedFileOpen ==
  cache_open => \A s \in ShardNumbers : \A h \in DOMAIN shard_[s].entries :
    shard_[s].entries[h].key \in file_exists

(* What is in use stays open, what was removed does not, and the counts of *)
(* the cache agree with its lists.                                         *)
CacheIsRight ==
  /\ HeldTableOpen
  /\ CacheConsistent
  /\ NoRemovedFileOpen

=============================================================================
