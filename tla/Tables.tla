------------------------------- MODULE Tables -------------------------------
(***************************************************************************)
(* A sorted table of leveldb: how TableBuilder lays it out in blocks with  *)
(* an index and a filter (table/table_builder.cc, block_builder.cc,        *)
(* filter_block.cc, util/comparator.cc, util/bloom.cc), and how it is read *)
(* again (table/block.cc, two_level_iterator.cc, table.cc).                *)
(*                                                                         *)
(* A key is a sequence of bytes.  Entries stand where the code has         *)
(* offsets within a block: a restart point is the number of an entry.  A   *)
(* block may turn out to be unreadable: truncated, or with a checksum, a   *)
(* type or compressed contents that are wrong.                             *)
(***************************************************************************)
EXTENDS Naturals, Sequences, FiniteSets, SequencesExt

CONSTANTS TableKeys, kMaxByte,          \* keys, and the greatest byte
          block_size, block_restart_interval,
          kFilterBase, bits_per_key, kProbes, MinFilterBits,
          WordBits, Hash,          \* width of a hash value; the hash function
          MaxKeys,                 \* bound: keys of the table
          MaxSnapshot,             \* bound: sequence numbers in use
          kMaxSequenceNumber

ASSUME TablesAssumption ==
  /\ \A k \in TableKeys : k \in Seq(0 .. kMaxByte) /\ Hash[k] \in 0 .. 2 ^ WordBits - 1
  /\ block_restart_interval \in Nat \ {0} /\ kFilterBase \in Nat \ {0}
  /\ MinFilterBits \in Nat \ {0}

-----------------------------------------------------------------------------
(* util/comparator.cc                                                      *)

CommonPrefix(a, b) ==
  CHOOSE n \in 0 .. Len(a) :
    /\ n <= Len(b) /\ \A i \in 1 .. n : a[i] = b[i]
    /\ n = Len(a) \/ n = Len(b) \/ a[n + 1] # b[n + 1]

Less(a, b) ==
  LET n == CommonPrefix(a, b) IN
  n < Len(b) /\ (n < Len(a) => a[n + 1] < b[n + 1])

(* Mutant: the byte may become the limit's.                                *)
FindShortestSeparatorUpTo(start, limit) ==
  LET n == CommonPrefix(start, limit) IN
  IF n < Len(start) /\ n < Len(limit) /\ start[n + 1] < kMaxByte
  THEN Append(SubSeq(start, 1, n), start[n + 1] + 1) ELSE start

FindShortestSeparator(start, limit) ==
  LET n == CommonPrefix(start, limit) IN
  IF n < Len(start) /\ n < Len(limit) /\ start[n + 1] < kMaxByte
       /\ start[n + 1] + 1 < limit[n + 1]
  THEN Append(SubSeq(start, 1, n), start[n + 1] + 1)
  ELSE start

FindShortSuccessor(key) ==
  LET can == {i \in DOMAIN key : key[i] # kMaxByte}
      first == CHOOSE i \in can : \A j \in can : i <= j
  IN  IF can = {} THEN key ELSE Append(SubSeq(key, 1, first - 1), key[first] + 1)

-----------------------------------------------------------------------------
(* util/bloom.cc: a filter is its number of bits and those that are set.   *)

Rotate(h) == (h \div 2 ^ (WordBits \div 2)) + (h % 2 ^ (WordBits \div 2)) * 2 ^ (WordBits \div 2)

Probes(key, bits) ==
  {((Hash[key] + j * Rotate(Hash[key])) % 2 ^ WordBits) % bits : j \in 0 .. kProbes - 1}

CreateFilter(keys) ==
  LET wanted == Len(keys) * bits_per_key
      bits == (((IF wanted < MinFilterBits THEN MinFilterBits ELSE wanted) + 7) \div 8) * 8
  IN  [bits |-> bits, set |-> UNION {Probes(keys[i], bits) : i \in DOMAIN keys}]

(* A filter for no keys is empty and matches nothing.                      *)
NoFilter == [bits |-> 0, set |-> {}]
BloomKeyMayMatch(key, filter) ==
  filter.bits > 0 /\ Probes(key, filter.bits) \subseteq filter.set

-----------------------------------------------------------------------------
(* table/block_builder.cc                                                  *)

EmptyBuilder == [entries |-> << >>, restarts |-> <<1>>, counter |-> 0, last_key |-> << >>]

(* Every block_restart_interval entries a key is written in full.          *)
AddEntry(b, interval, key, value) ==
  LET restart == b.counter >= interval
      shared == IF restart THEN 0 ELSE CommonPrefix(b.last_key, key)
      entry == [shared |-> shared, delta |-> SubSeq(key, shared + 1, Len(key)), value |-> value]
  IN  [entries |-> Append(b.entries, entry),
       restarts |-> IF restart THEN Append(b.restarts, Len(b.entries) + 1) ELSE b.restarts,
       counter |-> (IF restart THEN 0 ELSE b.counter) + 1,
       last_key |-> key]

(* Each entry has three lengths, its delta and a value of one byte.        *)
CurrentSizeEstimate(b) ==
  FoldLeft(LAMBDA sum, e : sum + 4 + Len(e.delta), 0, b.entries) + 4 * Len(b.restarts) + 4

-----------------------------------------------------------------------------
(* table/block.cc.  A block's iterator is past the end when it is at the   *)
(* entry after the last.                                                   *)

NoMore(b) == [block |-> b, current |-> Len(b.entries) + 1,
              restart |-> Len(b.restarts) + 1, key |-> << >>]

BlockValid(it) == it.current <= Len(it.block.entries)

Decode(key, entry) == SubSeq(key, 1, entry.shared) \o entry.delta

(* ParseNextKey moves on the restart index while the next restart point    *)
(* lies before the entry.                                                  *)
RestartFor(b, restart, current) ==
  CHOOSE i \in restart .. Len(b.restarts) :
    /\ \A j \in restart + 1 .. i : b.restarts[j] < current
    /\ i = Len(b.restarts) \/ b.restarts[i + 1] >= current

ParseNextKey(it) ==
  LET b == it.block
      next == it.current + 1
  IN  IF next > Len(b.entries) THEN NoMore(b)
      ELSE [block |-> b, current |-> next, restart |-> RestartFor(b, it.restart, next),
            key |-> Decode(it.key, b.entries[next])]

(* The iterators from a restart point on, one for each entry.              *)
SeekToRestartPoint(b, i) ==
  [block |-> b, current |-> b.restarts[i] - 1, restart |-> i, key |-> << >>]
Scan(b, i) ==
  LET count == Len(b.entries) - b.restarts[i] + 1
      step(its, n) == Append(its, ParseNextKey(Last(its)))
  IN  Tail(FoldLeft(step, <<SeekToRestartPoint(b, i)>>, [n \in 1 .. count |-> n]))

BlockSeekToFirst(b) == ParseNextKey(SeekToRestartPoint(b, 1))
BlockSeekToLast(b) ==
  IF b.entries = << >> THEN NoMore(b) ELSE Last(Scan(b, Len(b.restarts)))

(* Mutant: a restart point of the same key is good enough to start from.   *)
RestartBeforeOrAt(it) ==
  {i \in 1 .. it.restart : it.block.restarts[i] <= it.current}

(* The restart points before the current entry.                            *)
RestartBefore(it) == {i \in 1 .. it.restart : it.block.restarts[i] < it.current}

BlockPrev(it) ==
  LET from == CHOOSE i \in RestartBefore(it) : \A j \in RestartBefore(it) : j <= i
      scan == Scan(it.block, from)
      n == it.current - it.block.restarts[from]
  IN  IF RestartBefore(it) = {} THEN NoMore(it.block)
      ELSE scan[IF n = 0 THEN 1 ELSE n]

(* The last restart point with a key below the target, by binary search.   *)
RestartBelow(b, target) ==
  LET step(range, n) ==
        LET mid == (range[1] + range[2] + 1) \div 2 IN
        IF range[1] >= range[2] THEN range
        ELSE IF Less(b.entries[b.restarts[mid]].delta, target) THEN <<mid, range[2]>>
        ELSE <<range[1], mid - 1>>
  IN  FoldLeft(step, <<1, Len(b.restarts)>>, b.restarts)[1]

BlockSeek(b, target) ==
  LET scan == Scan(b, RestartBelow(b, target))
      reached == {n \in DOMAIN scan : ~ Less(scan[n].key, target)}
  IN  IF reached = {} THEN NoMore(b)
      ELSE scan[CHOOSE n \in reached : \A m \in reached : n <= m]

BlockValue(it) == it.block.entries[it.current].value

-----------------------------------------------------------------------------
VARIABLES
  pending,        \* what TableBuilder holds: see NewBuilder
  table,          \* the file: blocks, index, filters; empty until Finish
  unreadable,     \* the blocks that cannot be read
  iter,           \* a TwoLevelIterator
  expected,       \* where it should be, in the keys that can be read
  visited         \* what was seen since SeekToFirst by Next alone, or nothing

tableVars == <<pending, table, unreadable, iter, expected, visited>>

NewBuilder ==
  [data |-> EmptyBuilder, blocks |-> << >>, offset |-> 0, keys |-> << >>,
   index |-> EmptyBuilder, pending_index_entry |-> FALSE, last_key |-> << >>,
   filter_keys |-> << >>, filters |-> << >>]

Handle(r) == Len(r.blocks)
OffsetOf(blocks, i) ==
  FoldLeft(LAMBDA sum, b : sum + CurrentSizeEstimate(b) + 5, 0, SubSeq(blocks, 1, i - 1))

(* GenerateFilter, and StartBlock for a block at an offset.                *)
GenerateFilter(r) ==
  [r EXCEPT !.filters = Append(@, IF r.filter_keys = << >> THEN NoFilter
                                  ELSE CreateFilter(r.filter_keys)),
            !.filter_keys = << >>]

(* Mutant: one filter for each block, whatever its offset.                 *)
StartBlockEach(r, offset) == GenerateFilter(r)

StartBlock(r, offset) ==
  LET wanted == offset \div kFilterBase
      missing == IF wanted > Len(r.filters) THEN wanted - Len(r.filters) ELSE 0
  IN  FoldLeft(LAMBDA s, n : GenerateFilter(s), r, [n \in 1 .. missing |-> n])

IndexEntry(r, key) ==
  IF r.pending_index_entry
  THEN [r EXCEPT !.index = AddEntry(@, 1, key, Handle(r)), !.pending_index_entry = FALSE]
  ELSE r

Flush(r) ==
  IF r.data.entries = << >> THEN r
  ELSE LET offset == r.offset + CurrentSizeEstimate(r.data) + 5 IN
       StartBlock([r EXCEPT !.blocks = Append(@, r.data), !.data = EmptyBuilder,
                            !.offset = offset, !.pending_index_entry = TRUE], offset)

AddKey(key) ==
  /\ table = << >> /\ Len(pending.keys) < MaxKeys
  /\ pending.keys # << >> => Less(pending.last_key, key)
  /\ LET i == IndexEntry(pending, FindShortestSeparator(pending.last_key, key))
         r == [i EXCEPT !.filter_keys = Append(@, key), !.last_key = key,
                        !.keys = Append(@, key),
                        !.data = AddEntry(@, block_restart_interval, key, key)]
     IN  pending' = IF CurrentSizeEstimate(r.data) >= block_size THEN Flush(r) ELSE r
  /\ UNCHANGED <<table, unreadable, iter, expected, visited>>

(* An iterator before it is positioned.                                    *)
NoBlock == << >>
NewTwoLevelIterator(index) ==
  [index |-> NoMore(index), data |-> NoBlock, data_block_handle |-> 0, ok |-> TRUE]

(* The table is written; some of its blocks will not be readable.          *)
FinishTable(bad) ==
  /\ table = << >> /\ pending.keys # << >>
  /\ LET f == Flush(pending)
         g == IF f.filter_keys = << >> THEN f ELSE GenerateFilter(f)
         r == IndexEntry(g, FindShortSuccessor(g.last_key))
     IN  /\ bad \subseteq DOMAIN r.blocks
         /\ table' = [blocks |-> r.blocks, index |-> r.index, filters |-> r.filters,
                      metaindex |-> r.offset]
         /\ iter' = NewTwoLevelIterator(r.index)
         /\ pending' = r
  /\ unreadable' = bad
  /\ UNCHANGED <<expected, visited>>

-----------------------------------------------------------------------------
(* table/two_level_iterator.cc.  The data iterator of a block that cannot  *)
(* be read is never valid and has an error status.                         *)

ErrorIterator == [error |-> TRUE]
IsError(data) == data # NoBlock /\ "error" \in DOMAIN data
DataValid(data) == data # NoBlock /\ ~ IsError(data) /\ BlockValid(data)

Valid(t) == DataValid(t.data)

(* Mutant: the error of the block that is left is forgotten.               *)
SetDataIteratorForgets(t, data) == [t EXCEPT !.data = data]

SetDataIterator(t, data) == [t EXCEPT !.data = data, !.ok = @ /\ ~ IsError(t.data)]

BlockReader(handle) ==
  IF handle \in unreadable THEN ErrorIterator ELSE NoMore(table.blocks[handle])

InitDataBlock(t) ==
  IF ~ BlockValid(t.index) THEN SetDataIterator(t, NoBlock)
  ELSE LET handle == BlockValue(t.index) IN
       IF t.data # NoBlock /\ handle = t.data_block_handle THEN t
       ELSE SetDataIterator([t EXCEPT !.data_block_handle = handle], BlockReader(handle))

(* IteratorWrapper: what it caches is taken again after every move.        *)
OnData(t, moved) ==
  IF t.data = NoBlock \/ IsError(t.data) THEN t ELSE [t EXCEPT !.data = moved]

First(data) == BlockSeekToFirst(data.block)
Final(data) == BlockSeekToLast(data.block)

(* Both loops go on over empty and unreadable blocks; each turn moves the  *)
(* index.                                                                  *)
SkipEmptyDataBlocks(t, Move(_), Start(_)) ==
  LET step(s, n) ==
        IF Valid(s) THEN s
        ELSE IF ~ BlockValid(s.index) THEN SetDataIterator(s, NoBlock)
        ELSE LET u == InitDataBlock([s EXCEPT !.index = Move(@)]) IN OnData(u, Start(u.data))
  IN  FoldLeft(step, t, [n \in 1 .. Len(table.blocks) + 2 |-> n])

SkipForward(t) == SkipEmptyDataBlocks(t, ParseNextKey, First)
SkipBackward(t) == SkipEmptyDataBlocks(t, BlockPrev, Final)

AtIndex(it) == InitDataBlock([iter EXCEPT !.index = it])

(* The keys that can be read, in order.                                    *)
Entries(i) == [j \in DOMAIN table.blocks[i].entries |-> table.blocks[i].entries[j].value]
ReadableKeys ==
  FlattenSeq([i \in DOMAIN table.blocks |-> IF i \in unreadable THEN << >> ELSE Entries(i)])

Built == table # << >>
TableUnchanged == UNCHANGED <<pending, table, unreadable>>

SeekToFirst ==
  /\ Built
  /\ LET t == AtIndex(BlockSeekToFirst(table.index)) IN iter' = SkipForward(OnData(t, First(t.data)))
  /\ expected' = 1
  /\ visited' = {{iter'.data.key : n \in IF Valid(iter') THEN {1} ELSE {}}}
  /\ TableUnchanged

SeekToLast ==
  /\ Built
  /\ LET t == AtIndex(BlockSeekToLast(table.index)) IN iter' = SkipBackward(OnData(t, Final(t.data)))
  /\ expected' = Len(ReadableKeys)
  /\ visited' = {}
  /\ TableUnchanged

Seek(target) ==
  /\ Built
  /\ LET t == AtIndex(BlockSeek(table.index, target)) IN
     iter' = SkipForward(OnData(t, BlockSeek(t.data.block, target)))
  /\ expected' = 1 + Cardinality({i \in DOMAIN ReadableKeys : Less(ReadableKeys[i], target)})
  /\ visited' = {}
  /\ TableUnchanged

NextEntry ==
  /\ Built /\ Valid(iter)
  /\ iter' = SkipForward([iter EXCEPT !.data = ParseNextKey(@)])
  /\ expected' = expected + 1
  /\ visited' = {v \cup {iter'.data.key : n \in IF Valid(iter') THEN {1} ELSE {}} : v \in visited}
  /\ TableUnchanged

PrevEntry ==
  /\ Built /\ Valid(iter)
  /\ iter' = SkipBackward([iter EXCEPT !.data = BlockPrev(@)])
  /\ expected' = expected - 1
  /\ visited' = {}
  /\ TableUnchanged

-----------------------------------------------------------------------------
(* table/table.cc                                                          *)

FilterKeyMayMatch(offset, key) ==
  LET index == offset \div kFilterBase + 1 IN
  index \in DOMAIN table.filters => BloomKeyMayMatch(key, table.filters[index])

(* The entry InternalGet hands on, or nothing, and its status.             *)
InternalGet(k) ==
  LET at == BlockSeek(table.index, k)
      handle == BlockValue(at)
      it == BlockSeek(table.blocks[handle], k)
      result(found, ok) == [found |-> found, ok |-> ok]
  IN  IF ~ BlockValid(at) \/ ~ FilterKeyMayMatch(OffsetOf(table.blocks, handle), k)
      THEN result({}, TRUE)
      ELSE IF handle \in unreadable THEN result({}, FALSE)
      ELSE result(IF BlockValid(it) THEN {it.key} ELSE {}, TRUE)

ApproximateOffsetOf(k) ==
  LET at == BlockSeek(table.index, k) IN
  IF BlockValid(at) THEN OffsetOf(table.blocks, BlockValue(at)) ELSE table.metaindex

-----------------------------------------------------------------------------
TablesInit ==
  /\ pending = NewBuilder /\ table = << >> /\ unreadable = {}
  /\ iter = << >> /\ expected = 0 /\ visited = {}

TablesNext ==
  \/ \E k \in TableKeys : AddKey(k) \/ Seek(k)
  \/ \E bad \in SUBSET DOMAIN Append(pending.blocks, pending.data) : FinishTable(bad)
  \/ SeekToFirst \/ SeekToLast \/ NextEntry \/ PrevEntry

-----------------------------------------------------------------------------
(* Properties.                                                             *)

(* Wherever it was moved, forwards, backwards or to a key, over block      *)
(* boundaries, restart points and blocks that cannot be read, the iterator *)
(* is where the list of readable keys says.                                *)
IteratorIsRight ==
  Built /\ iter.data # NoBlock =>
    IF expected \in DOMAIN ReadableKeys
    THEN /\ Valid(iter)
         /\ iter.data.key = ReadableKeys[expected] /\ BlockValue(iter.data) = ReadableKeys[expected]
    ELSE ~ Valid(iter)

(* A scan from the first key to the end that has status OK saw every key   *)
(* of the table: an unreadable block in the middle is never passed over in *)
(* silence.                                                                *)
NothingSkippedSilently ==
  \A v \in visited :
    ~ Valid(iter) /\ iter.ok /\ ~ IsError(iter.data) => v = Range(pending.keys)

(* A key of the table is found, or the status says that its block cannot   *)
(* be read; the filter never hides it.                                     *)
GetFindsKey ==
  Built => \A i \in DOMAIN pending.keys :
    LET got == InternalGet(pending.keys[i]) IN got.ok => got.found = {pending.keys[i]}

(* Each index key lies between its block and the next one, and offsets of  *)
(* keys grow with the keys.                                                *)
IndexSeparates ==
  Built =>
    /\ \A i \in DOMAIN table.index.entries :
         LET sep == table.index.entries[i].delta IN
         /\ \A k \in Range(Entries(i)) : ~ Less(sep, k)
         /\ i < Len(table.blocks) => Less(sep, Head(Entries(i + 1)))
    /\ \A j, k \in TableKeys : Less(j, k) => ApproximateOffsetOf(j) <= ApproximateOffsetOf(k)

-----------------------------------------------------------------------------
(* Internal keys whose user keys are bytes (db/dbformat.cc): how a table's *)
(* index divides them between two blocks, and which block a lookup at a    *)
(* snapshot goes to.  Table::InternalGet looks into one block only.        *)

kTypeForSeek == 1

IKey(user, sequence, type) == [user |-> user, sequence |-> sequence, type |-> type]
IKeys == {IKey(u, s, t) : u \in TableKeys, s \in 1 .. MaxSnapshot, t \in {0, 1}}
ExtractUserKey(k) == k.user
PackSequenceAndType(k) == k.sequence * 256 + k.type

InternalLess(a, b) ==
  \/ Less(a.user, b.user)
  \/ a.user = b.user /\ PackSequenceAndType(a) > PackSequenceAndType(b)

LookupKey(user, sequence) == IKey(user, sequence, kTypeForSeek)

VARIABLES
  lower, upper,     \* the last key of a block and the first of the next one, if any
  divider           \* the key of the index entry between them

orderVars == <<lower, upper, divider>>

(* Mutant: the shortened user key is taken even if nothing came of it.     *)
ShorterAlways(user, tmp) == TRUE

Shorter(user, tmp) == Len(tmp) < Len(user) /\ Less(user, tmp)

(* A shortened user key gets the tag that sorts first.                     *)
Tagged(k, tmp) ==
  IF Shorter(ExtractUserKey(k), tmp) THEN IKey(tmp, kMaxSequenceNumber, kTypeForSeek) ELSE k

InternalSeparator(start, limit) ==
  Tagged(start, FindShortestSeparator(ExtractUserKey(start), ExtractUserKey(limit)))
InternalSuccessor(k) == Tagged(k, FindShortSuccessor(ExtractUserKey(k)))

Divide ==
  /\ divider = {}
  /\ divider' = {IF upper = {} THEN InternalSuccessor(lower)
                 ELSE InternalSeparator(lower, CHOOSE u \in upper : TRUE)}
  /\ UNCHANGED <<lower, upper>>

InternalCreateFilter(keys) == CreateFilter([i \in DOMAIN keys |-> ExtractUserKey(keys[i])])
InternalKeyMayMatch(k, filter) == BloomKeyMayMatch(ExtractUserKey(k), filter)

OrderInit ==
  /\ lower \in IKeys /\ upper \in {{}} \cup {{u} : u \in IKeys}
  /\ \A u \in upper : InternalLess(lower, u)
  /\ divider = {}

(* The lookup of a user key at any snapshot is sent by the index to the    *)
(* block that holds the entry it has to find: to the first one for a key   *)
(* that is not after lower, and past it when the next block begins with    *)
(* that user key.  The first block's filter does not turn it away, whatever*)
(* the snapshot.                                                           *)
LookupsGoRight ==
  \A d \in divider, s \in 0 .. MaxSnapshot, user \in TableKeys :
    LET k == LookupKey(user, s) IN
    /\ ~ InternalLess(lower, k) => ~ InternalLess(d, k)
    /\ InternalLess(lower, k) /\ (\E u \in upper : u.user = user) => InternalLess(d, k)
    /\ user = lower.user => InternalKeyMayMatch(k, InternalCreateFilter(<<lower>>))

=============================================================================
