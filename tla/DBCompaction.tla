---------------------------- MODULE DBCompaction ----------------------------
(***************************************************************************)
(* leveldb's background work (db/db_impl.cc): memtables are flushed into   *)
(* tables, tables are merged from level to level, and files no version     *)
(* names are deleted, while clients write, take snapshots, read and ask    *)
(* for a range to be compacted.  Steps of the background thread follow     *)
(* one another at the places where the mutex is released.                  *)
(*                                                                         *)
(* One write is one entry, applied at once: how the writers queue, log and *)
(* insert is the subject of DBWriters.  The variable view is what the      *)
(* writes so far mean, and is read by no action: it maps a key to the      *)
(* sequence number of its value, or to 0.                                  *)
(***************************************************************************)
EXTENDS VersionSet, FiniteSets

CONSTANTS Keys,                \* user keys
          Recovered,           \* databases to start from, as Recover leaves them
          MaxEvents            \* bound: writes, snapshots, reads, samples, calls
                               \* of CompactRange and failures, in all

Entry == [key : Keys, seq : Nat, type : {kTypeDeletion, kTypeValue}]

ASSUME CompactionAssumption ==
  /\ Keys \subseteq Nat \ {0}
  /\ \A db \in Recovered :
       /\ db.last_sequence \in Nat /\ db.last_sequence + MaxEvents < kMaxSequenceNumber
       /\ db.tables \in Seq(SUBSET Entry)
       /\ \A n \in DOMAIN db.tables : IsFiniteSet(db.tables[n]) /\ db.tables[n] # {}
  /\ kNumLevels \in Nat /\ kNumLevels >= 2
  /\ kMaxMemCompactLevel \in Nat /\ kMaxMemCompactLevel < kNumLevels
  /\ kMaxSequenceNumber \in Nat /\ MaxEvents \in Nat
  /\ kL0_CompactionTrigger \in Nat \ {0}
  /\ MaxBytesForLevel \in [1 .. kNumLevels - 1 -> Nat \ {0}]

VARIABLES
  mem,              \* entries of mem_
  imm,              \* imm_: no memtable, or the set of its entries
  last_sequence,
  snapshots,        \* from the oldest: sequence number, and the view taken
  reader,           \* a read under way: the version it holds a reference to
  tables,           \* table files on disk: number to entries
  next_file_number,
  current,          \* the current version
  file_to_compact,  \* of the current version
  compact_pointer,
  pending_outputs,
  scheduled,        \* background_compaction_scheduled_
  flush,            \* CompactMemTable under way
  work,             \* DoCompactionWork under way
  manual,           \* manual_compaction_ is the caller's
  caller,           \* a call of CompactRange
  bg_error,
  view,
  cut,              \* a compaction left out a file that went on with a key
  crossed,          \* the outputs of a range lay across a file flushed meanwhile
  events            \* count, for the bound

clientVars == <<snapshots, reader>>
memVars == <<mem, imm, last_sequence, view>>
fileVars == <<tables, next_file_number, pending_outputs>>
versionVars == <<current, compact_pointer, cut, crossed>>
bgVars == <<flush, work, bg_error>>
callVars == <<manual, caller>>
vars == <<clientVars, memVars, fileVars, versionVars, file_to_compact, scheduled,
          bgVars, callVars, events>>

-----------------------------------------------------------------------------
(* Helpers.                                                                *)

Smallest(entries) == CHOOSE e \in entries : \A f \in entries : ~ Less(f, e)
Largest(entries) == CHOOSE e \in entries : \A f \in entries : ~ Less(e, f)
TableFile(number, entries) ==
  FileMetaData(number, Cardinality(entries), Smallest(entries), Largest(entries))

(* The table files once one has been written, or written again.            *)
WithTable(on_disk, number, entries) ==
  [n \in DOMAIN on_disk \cup {number} |-> IF n = number THEN entries ELSE on_disk[n]]

(* What a read with some sequence number answers for a key: the memtable,  *)
(* then the immutable memtable, then the files of a version.               *)
Get(k, sequence) ==
  LET inMem == Find(mem, k, sequence)
      inImm == UNION {Find(entries, k, sequence) : entries \in imm}
      found == IF inMem # {} THEN inMem ELSE IF inImm # {} THEN inImm
               ELSE VersionGet(current, tables, k, sequence).found
  IN  IF \E e \in found : e.type = kTypeValue THEN (CHOOSE e \in found : TRUE).seq ELSE 0

GetApproximateSizes(start, limit) ==
  LET at(k) == ApproximateOffsetOf(current, tables, Earliest(k))
  IN  IF at(limit) >= at(start) THEN at(limit) - at(start) ELSE 0

(* Whether MaybeScheduleCompaction finds work, with the values the step    *)
(* gives the variables it reads.                                           *)
WorkToDo(i, m, version, charged) == i # {} \/ m \/ NeedsCompaction(version, charged)

MaybeScheduleCompaction ==
  scheduled' = (scheduled \/ (~ bg_error /\ WorkToDo(imm', manual', current', file_to_compact')))

(* Mutant: the end of BackgroundCall forgets to look for more work.        *)
NoReschedule == scheduled' = FALSE

(* The end of BackgroundCall.                                              *)
BackgroundDone ==
  scheduled' = (~ bg_error' /\ WorkToDo(imm', manual', current', file_to_compact'))

(* Mutant: outputs still being written are not protected.                  *)
KeptNotPending(on_disk, versions, pending, error) ==
  LET live == AddLiveFiles(versions \cup {r.version : r \in reader})
  IN  IF error THEN on_disk ELSE [n \in DOMAIN on_disk \cap live |-> on_disk[n]]

(* The table files left by DeleteObsoleteFiles, which does nothing after a *)
(* background error; versions are those referenced besides the reader's.   *)
Kept(on_disk, versions, pending, error) ==
  LET live == pending \cup AddLiveFiles(versions \cup {r.version : r \in reader})
  IN  IF error THEN on_disk
      ELSE [n \in DOMAIN on_disk \cap live |-> on_disk[n]]

(* LogAndApply makes a new version current; the reader's is an older one.  *)
Install(version) ==
  /\ current' = version
  /\ file_to_compact' = {}
  /\ reader' = {[r EXCEPT !.newest = FALSE] : r \in reader}

Event == events < MaxEvents /\ events' = events + 1

Fail == Event

-----------------------------------------------------------------------------
(* Clients.                                                                *)

(* DBImpl::Put and Delete, through Write.                                  *)
Write(k, type) ==
  /\ ~ bg_error
  /\ Event
  /\ last_sequence' = last_sequence + 1
  /\ mem' = mem \cup {InternalKey(k, last_sequence + 1, type)}
  /\ view' = [view EXCEPT ![k] = IF type = kTypeValue THEN last_sequence + 1 ELSE 0]
  /\ UNCHANGED <<imm, clientVars, fileVars, versionVars, file_to_compact, scheduled,
                 bgVars, callVars>>

(* The log cannot be synced: the write has used its sequence number and is *)
(* an error, as all later ones are, while the background thread goes on.   *)
WriteFails ==
  /\ ~ bg_error
  /\ Fail
  /\ last_sequence' = last_sequence + 1
  /\ bg_error' = TRUE
  /\ UNCHANGED <<mem, imm, view, clientVars, fileVars, versionVars, file_to_compact, scheduled,
                 flush, work, callVars>>

SwitchMemTable ==
  /\ ~ bg_error
  /\ imm = {}
  /\ imm' = {mem}
  /\ mem' = {}
  /\ UNCHANGED <<last_sequence, view, fileVars, versionVars, file_to_compact,
                 manual, clientVars, bgVars, events>>
  /\ MaybeScheduleCompaction

(* MakeRoomForWrite finds the memtable full.                               *)
MakeRoomForWrite == mem # {} /\ SwitchMemTable /\ UNCHANGED caller

GetSnapshot ==
  /\ Event
  /\ snapshots' = Append(snapshots, [seq |-> last_sequence, view |-> view])
  /\ UNCHANGED <<reader, memVars, fileVars, versionVars, file_to_compact, scheduled,
                 bgVars, callVars>>

ReleaseSnapshot(i) ==
  /\ snapshots' = RemoveAt(snapshots, i)
  /\ UNCHANGED <<reader, memVars, fileVars, versionVars, file_to_compact, scheduled,
                 bgVars, callVars, events>>

(* The first half of DBImpl::Get and of NewIterator: references are taken  *)
(* on the memtables and on the current version.  Nothing that happens      *)
(* later changes what is read through them, so long as the files exist.    *)
BeginRead ==
  /\ Event
  /\ reader = {}
  /\ reader' = {[version |-> current, newest |-> TRUE]}
  /\ UNCHANGED <<snapshots, memVars, fileVars, versionVars, file_to_compact, scheduled,
                 bgVars, callVars>>

(* The file a read charged may be out of its allowed seeks, which only     *)
(* counts on the version that is still the current one.                    *)
UpdateStats(r, charged) ==
  \/ UNCHANGED file_to_compact
  \/ /\ r.newest /\ file_to_compact = {} /\ charged # {}
     /\ file_to_compact' = charged

EndRead(r, charged) ==
  /\ reader' = {}
  /\ UpdateStats(r, charged)
  /\ UNCHANGED <<snapshots, memVars, fileVars, versionVars, bgVars, callVars, events>>
  /\ MaybeScheduleCompaction

(* An iterator that samples the key it stands at; it reads its own version *)
(* and charges the current one.                                            *)
RecordReadSample(ikey) ==
  /\ Event
  /\ file_to_compact = {}
  /\ ReadSample(current, ikey) # {}
  /\ file_to_compact' = ReadSample(current, ikey)
  /\ UNCHANGED <<clientVars, memVars, fileVars, versionVars, bgVars, callVars>>
  /\ MaybeScheduleCompaction

-----------------------------------------------------------------------------
(* DBImpl::CompactRange, called by one thread.                             *)

CompactRangeCall(begin, end) ==
  /\ Event
  /\ caller.pc = "idle" /\ begin <= end
  /\ LET full == {level \in 1 .. kNumLevels - 1 : OverlapInLevel(current, level, begin, end)}
     IN  caller' = [pc |-> "write", level |-> 0,
                    max |-> GreatestOf(full \cup {1}), begin |-> begin, end |-> end,
                    from |-> begin, done |-> FALSE]
  /\ UNCHANGED <<clientVars, memVars, fileVars, versionVars, file_to_compact, scheduled,
                 bgVars, manual>>

(* TEST_CompactMemTable: Write(nullptr) forces a new memtable, and the     *)
(* call waits until the old one is compacted.  The null batch may also be  *)
(* taken along in the group of another writer, and then forces nothing.    *)
CallerWrites ==
  /\ caller.pc = "write"
  /\ \/ SwitchMemTable
     \/ /\ ~ bg_error
        /\ UNCHANGED <<clientVars, memVars, fileVars, versionVars, file_to_compact, scheduled,
                       bgVars, manual, events>>
  /\ caller' = [caller EXCEPT !.pc = "memtable"]

CallerMemTableDone ==
  /\ \/ caller.pc = "memtable" /\ imm = {}
     \/ caller.pc \in {"write", "memtable"} /\ bg_error
  /\ caller' = [caller EXCEPT !.pc = "range"]
  /\ UNCHANGED <<clientVars, memVars, fileVars, versionVars, file_to_compact, scheduled,
                 bgVars, manual, events>>

(* The loop of TEST_CompactRange: it registers the range when no other is, *)
(* and waits while the range is registered.                                *)
CallerRegisters ==
  /\ caller.pc = "range" /\ ~ caller.done /\ ~ bg_error
  /\ ~ manual
  /\ manual' = TRUE
  /\ UNCHANGED <<clientVars, memVars, fileVars, versionVars, file_to_compact, bgVars, caller, events>>
  /\ MaybeScheduleCompaction

(* Mutant: the caller gives up at any wake-up.                             *)
CallerGivesUp ==
  /\ caller.pc = "range"
  /\ manual' = FALSE
  /\ caller' = [caller EXCEPT !.pc = "idle"]
  /\ UNCHANGED <<clientVars, memVars, fileVars, versionVars, file_to_compact, scheduled, bgVars,
                 events>>

CallerLevelDone ==
  /\ caller.pc = "range" /\ (caller.done \/ bg_error)
  /\ manual' = FALSE
  /\ caller' = IF caller.level + 1 < caller.max
               THEN [caller EXCEPT !.level = @ + 1, !.from = caller.begin, !.done = FALSE]
               ELSE [caller EXCEPT !.pc = "idle"]
  /\ UNCHANGED <<clientVars, memVars, fileVars, versionVars, file_to_compact, scheduled, bgVars,
                 events>>

-----------------------------------------------------------------------------
(* The background thread: CompactMemTable.                                 *)

(* Called first by BackgroundCompaction, or between two keys of a          *)
(* compaction.  WriteLevel0Table takes a file number and drops the mutex.  *)
FlushBegins ==
  /\ scheduled /\ flush = {} /\ imm # {}
  /\ IF work = {} THEN ~ bg_error ELSE \E w \in work : w.input # {}
  /\ flush' = {[number |-> next_file_number, base |-> current]}
  /\ next_file_number' = next_file_number + 1
  /\ pending_outputs' = pending_outputs \cup {next_file_number}
  /\ UNCHANGED <<clientVars, memVars, tables, versionVars, file_to_compact, scheduled,
                 work, bg_error, callVars, events>>

(* The table is written, unless the memtable is empty, and the version     *)
(* with it installed; then obsolete files are deleted.                     *)
FlushInstalls(fl) ==
  LET entries == CHOOSE m \in imm : TRUE
      file == TableFile(fl.number, entries)
      level == PickLevelForMemTableOutput(fl.base, file.smallest.key, file.largest.key)
      pending == pending_outputs \ {fl.number}
  IN
  /\ flush' = {}
  /\ imm' = {}
  /\ pending_outputs' = pending
  /\ Install(IF entries = {} THEN current
             ELSE ApplyEdit(current, Edit({}, {<<level, file>>})))
  /\ tables' = Kept(IF entries = {} THEN tables ELSE WithTable(tables, fl.number, entries),
                    {current'} \cup {w.c.version : w \in work}, pending, bg_error)
  /\ UNCHANGED <<mem, last_sequence, view, snapshots, next_file_number,
                 compact_pointer, cut, crossed, work, bg_error, callVars, events>>
  /\ IF work = {} THEN BackgroundDone ELSE UNCHANGED scheduled

(* BuildTable or the write of the manifest fails.                          *)
FlushFails(fl) ==
  /\ Fail
  /\ flush' = {}
  /\ bg_error' = TRUE
  /\ pending_outputs' = pending_outputs \ {fl.number}
  /\ UNCHANGED <<clientVars, memVars, tables, next_file_number, versionVars, file_to_compact,
                 work, callVars>>
  /\ IF work = {} THEN BackgroundDone ELSE UNCHANGED scheduled

-----------------------------------------------------------------------------
(* The background thread: compactions.                                     *)

Picked ==
  IF manual THEN CompactRange(current, caller.level, caller.from, caller.end)
  ELSE PickCompaction(current, compact_pointer, file_to_compact)

(* The file at the next level that goes on with the last key of an input.  *)
CutsKey(c) ==
  /\ c.inputs[2] # << >>
  /\ FindSmallestBoundaryFile(c.version[c.level + 1], GetRange(c.inputs[2]).largest) # {}

SetPointer(c) ==
  compact_pointer' = [compact_pointer EXCEPT ![c.level] = {c.pointer}]

BackgroundStarts ==
  scheduled /\ flush = {} /\ work = {} /\ imm = {} /\ ~ bg_error

(* After an error BackgroundCall does no work.                             *)
BackgroundIdles ==
  /\ scheduled /\ flush = {} /\ work = {} /\ bg_error
  /\ UNCHANGED <<clientVars, memVars, fileVars, versionVars, file_to_compact, bgVars, callVars,
                 events>>
  /\ BackgroundDone

NothingToCompact ==
  /\ BackgroundStarts
  /\ Picked = {}
  /\ manual' = FALSE
  /\ caller' = IF manual THEN [caller EXCEPT !.done = TRUE] ELSE caller
  /\ UNCHANGED <<clientVars, memVars, fileVars, versionVars, file_to_compact, bgVars, events>>
  /\ BackgroundDone

TrivialMove(c) ==
  /\ BackgroundStarts
  /\ ~ manual /\ IsTrivialMove(c)
  /\ SetPointer(c)
  /\ LET f == c.inputs[1][1] IN
     \/ /\ Install(ApplyEdit(current, Edit({<<c.level, f.number>>}, {<<c.level + 1, f>>})))
        /\ UNCHANGED <<bg_error, events>>
     \/ /\ Fail
        /\ bg_error' = TRUE
        /\ UNCHANGED <<current, file_to_compact, reader>>
  /\ UNCHANGED <<snapshots, memVars, fileVars, cut, crossed, flush, work, callVars>>
  /\ BackgroundDone

(* The entries of the input files, of which MakeInputIterator always gives *)
(* the smallest that is left.                                              *)
InputOf(c) == UNION {tables[f.number] : f \in Range(c.inputs[1]) \cup Range(c.inputs[2])}

DoCompactionWork(c) ==
  /\ BackgroundStarts
  /\ manual \/ ~ IsTrivialMove(c)
  /\ SetPointer(c)
  /\ cut' = (cut \/ CutsKey(c))
  /\ work' = {[c |-> c, is_manual |-> manual, input |-> InputOf(c),
               smallest_snapshot |-> IF snapshots = << >> THEN last_sequence
                                     ELSE Head(snapshots).seq,
               key |-> 0, last_sequence_for_key |-> kMaxSequenceNumber,
               scan |-> [index |-> 0, seen |-> FALSE, bytes |-> 0],
               outputs |-> << >>, open |-> FALSE]}
  /\ UNCHANGED <<clientVars, memVars, fileVars, current, crossed, file_to_compact, scheduled,
                 flush, bg_error, callVars, events>>

(* Mutant: a deletion marker is dropped whatever deeper levels hold.       *)
DropAnyDeletion(w, ikey) ==
  LET newer == IF ikey.key = w.key THEN w.last_sequence_for_key ELSE kMaxSequenceNumber IN
  \/ newer <= w.smallest_snapshot
  \/ ikey.type = kTypeDeletion /\ ikey.seq <= w.smallest_snapshot

(* Whether the entry is hidden by a newer one that the oldest snapshot     *)
(* sees, or is a deletion nothing is left to be hidden by.                 *)
Drop(w, ikey) ==
  LET newer == IF ikey.key = w.key THEN w.last_sequence_for_key ELSE kMaxSequenceNumber IN
  \/ newer <= w.smallest_snapshot
  \/ /\ ikey.type = kTypeDeletion
     /\ ikey.seq <= w.smallest_snapshot
     /\ IsBaseLevelForKey(w.c, ikey.key)

OpenCompactionOutputFile(number) ==
  /\ next_file_number' = number + 1
  /\ pending_outputs' = pending_outputs \cup {number}

(* One round of the loop: the output is closed before or after the key     *)
(* when it is large enough, and a new one opened when there is none.       *)
CompactKey(w) ==
  LET ikey == Smallest(w.input)
      stop == ShouldStopBefore(w.c, w.scan, ikey)
      open == w.open /\ ~ stop.stop
      drop == Drop(w, ikey)
      number == IF open THEN Last(w.outputs) ELSE next_file_number
      entries == IF open THEN tables[number] \cup {ikey} ELSE {ikey}
  IN
  /\ flush = {}
  /\ w.input # {}
  /\ work' = {[w EXCEPT
       !.input = @ \ {ikey}, !.key = ikey.key, !.last_sequence_for_key = ikey.seq,
       !.scan = stop.scan,
       !.outputs = IF drop \/ open THEN @ ELSE Append(@, number),
       !.open = IF drop THEN open ELSE Cardinality(entries) < TargetFileSize]}
  /\ IF drop THEN UNCHANGED fileVars
     ELSE /\ tables' = WithTable(tables, number, entries)
          /\ IF open THEN UNCHANGED <<next_file_number, pending_outputs>>
             ELSE OpenCompactionOutputFile(number)
  /\ UNCHANGED <<clientVars, memVars, versionVars, file_to_compact, scheduled, flush,
                 bg_error, callVars, events>>

(* CleanupCompaction, and the end of BackgroundCompaction for a manual     *)
(* compaction: the rest of the range is still to do.  When the caller has  *)
(* withdrawn the range, because a flush within the compaction failed, the  *)
(* code follows a null pointer here: the process ends, with no next step.  *)
FinishWork(w, ok) ==
  /\ w.is_manual => manual
  /\ work' = {}
  /\ pending_outputs' = pending_outputs \ Range(w.outputs)
  /\ manual' = (manual /\ ~ w.is_manual)
  /\ caller' = IF w.is_manual
               THEN IF ok THEN [caller EXCEPT !.from = Last(w.c.inputs[1]).largest.key]
                    ELSE [caller EXCEPT !.done = TRUE]
               ELSE caller
  /\ UNCHANGED <<snapshots, memVars, next_file_number, compact_pointer, cut, flush>>
  /\ BackgroundDone

(* InstallCompactionResults replaces the inputs by the outputs; then the   *)
(* inputs are released and obsolete files deleted.                         *)
WorkInstalls(w) ==
  LET added == {<<w.c.level + 1, TableFile(n, tables[n])>> : n \in Range(w.outputs)} IN
  /\ flush = {} /\ w.input = {}
  /\ Install(ApplyEdit(current, Edit(AddInputDeletions(w.c), added)))
  /\ crossed' = (crossed \/ (w.is_manual /\ ~ LevelsDisjoint(current')))
  /\ tables' = Kept(tables, {current'}, pending_outputs \ Range(w.outputs), bg_error)
  /\ UNCHANGED <<bg_error, events>>
  /\ FinishWork(w, TRUE)

(* An output or the manifest cannot be written.                            *)
WorkFails(w) ==
  /\ Fail
  /\ flush = {}
  /\ bg_error' = TRUE
  /\ UNCHANGED <<tables, current, crossed, file_to_compact, reader>>
  /\ FinishWork(w, FALSE)

-----------------------------------------------------------------------------
(* A database recovered from disk: its tables, and the level of each.      *)
VersionOf(db) ==
  [level \in Levels |->
     InOrder({TableFile(n, db.tables[n]) : n \in {m \in DOMAIN db.tables : db.level[m] = level}},
             BySmallestKey)]

(* What a level holds of a key is newer than what deeper levels hold, and  *)
(* at level 0 newer files have higher numbers.                             *)
Newer(S, T) == \A e \in S, f \in T : e.key = f.key => e.seq > f.seq
EntriesAt(version, on_disk, level) == UNION {on_disk[f.number] : f \in Range(version[level])}
AgesInOrder(version, on_disk) ==
  /\ \A a \in Levels : \A b \in a + 1 .. kNumLevels - 1 :
       Newer(EntriesAt(version, on_disk, a), EntriesAt(version, on_disk, b))
  /\ \A f, g \in Range(version[0]) :
       f.number > g.number => Newer(on_disk[f.number], on_disk[g.number])

(* The runs that left these databases kept them in order.                  *)
ASSUME RecoveredAssumption ==
  \A db \in Recovered :
    LET entries == UNION Range(db.tables) IN
    /\ \A e \in entries : e.seq <= db.last_sequence
    /\ \A e, f \in entries : e.key = f.key /\ e.seq = f.seq => e = f
    /\ LevelsDisjoint(VersionOf(db)) /\ AgesInOrder(VersionOf(db), db.tables)

ViewOf(entries) ==
  [k \in Keys |-> LET newest == {e \in entries : e.key = k /\ \A f \in entries :
                                                   f.key = k => f.seq <= e.seq}
                  IN  IF \E e \in newest : e.type = kTypeValue
                      THEN (CHOOSE e \in newest : TRUE).seq ELSE 0]

Init ==
  /\ \E db \in Recovered :
       /\ tables = db.tables /\ current = VersionOf(db)
       /\ last_sequence = db.last_sequence
       /\ next_file_number = Cardinality(DOMAIN db.tables) + 1
       /\ view = ViewOf(UNION Range(db.tables))
  /\ mem = {} /\ imm = {}
  /\ snapshots = << >> /\ reader = {}
  /\ pending_outputs = {}
  /\ file_to_compact = {}
  /\ compact_pointer = [level \in Levels |-> {}] /\ cut = FALSE /\ crossed = FALSE
  /\ scheduled = NeedsCompaction(current, {})
  /\ flush = {} /\ work = {} /\ bg_error = FALSE
  /\ manual = FALSE
  /\ caller = [pc |-> "idle", level |-> 0, max |-> 1, begin |-> 0, end |-> 0,
               from |-> 0, done |-> FALSE]
  /\ events = 0

Client ==
  \/ \E k \in Keys, type \in {kTypeDeletion, kTypeValue} : Write(k, type)
  \/ WriteFails
  \/ MakeRoomForWrite
  \/ GetSnapshot
  \/ \E i \in DOMAIN snapshots : ReleaseSnapshot(i)
  \/ BeginRead
  \/ \E r \in reader, k \in Keys, s \in 1 .. last_sequence :
       EndRead(r, VersionGet(r.version, tables, k, s).charged)
  \/ \E k \in Keys, s \in 1 .. last_sequence : RecordReadSample(LookupKey(k, s))
  \/ \E begin, end \in Keys : CompactRangeCall(begin, end)

Caller ==
  \/ CallerWrites
  \/ CallerMemTableDone
  \/ CallerRegisters
  \/ CallerLevelDone

Background ==
  \/ FlushBegins
  \/ \E fl \in flush : FlushInstalls(fl) \/ FlushFails(fl)
  \/ BackgroundIdles
  \/ NothingToCompact
  \/ BackgroundStarts /\ \E c \in Picked : TrivialMove(c) \/ DoCompactionWork(c)
  \/ \E w \in work : CompactKey(w) \/ WorkInstalls(w) \/ WorkFails(w)

Next == Client \/ Caller \/ Background

Spec == Init /\ [][Next]_vars

-----------------------------------------------------------------------------
(* Properties.                                                             *)

(* The state has the shape the code's types give it: entries, versions     *)
(* whose files lie in key order, and one thread doing background work.     *)
DBTypeOK ==
  /\ last_sequence \in Nat
  /\ Cardinality(imm) <= 1 /\ Cardinality(flush) <= 1 /\ Cardinality(work) <= 1
  /\ (flush # {} \/ work # {}) => scheduled
  /\ \A level \in Levels : \A i \in 1 .. Len(current[level]) - 1 :
       BySmallestKey(current[level][i], current[level][i + 1])

(* Version::Get, DBImpl::Get and DoCompactionWork agree on what a snapshot *)
(* is: however flushes, merges and deletions of files fall between them, a *)
(* read at the latest sequence number or at a snapshot answers with the    *)
(* newest write it may see.  (See cut and crossed for the exceptions.)     *)
GetsRight ==
  ~ cut /\ ~ crossed =>
    \A k \in Keys :
      /\ Get(k, last_sequence) = view[k]
      /\ \A s \in Range(snapshots) : Get(k, s.seq) = s.view[k]

(* DeleteObsoleteFiles keeps every table that the current version, a       *)
(* reader's version, the inputs of the compaction under way or its outputs *)
(* name, and the metadata of a file describe its table.                    *)
LiveFilesExist ==
  /\ \A v \in {current} \cup {r.version : r \in reader} \cup {w.c.version : w \in work} :
       \A f \in FilesOf(v) : f.number \in DOMAIN tables /\ f = TableFile(f.number, tables[f.number])
  /\ \A w \in work : Range(w.outputs) \subseteq DOMAIN tables

(* Entries never hop across levels (the comment in Version::Get): what a   *)
(* level holds of a key is newer than what deeper levels hold, the         *)
(* memtables being newer than all of them, and at level 0 newer files have *)
(* higher numbers.                                                         *)
NewerAbove ==
  ~ crossed =>
    /\ AgesInOrder(current, tables)
    /\ \A m \in imm, level \in Levels : Newer(m, EntriesAt(current, tables, level))

(* An iterator sought to any key meets every entry of the version from     *)
(* there on, and each source in order: a level above 0 is walked file by   *)
(* file, from the one the binary search gives (AddIterators).              *)
ScanMeetsAll ==
  ~ crossed => \A k \in Keys :
    LET iters == AddIterators(current, tables, Earliest(k))
        stored == UNION {tables[f.number] : f \in FilesOf(current)}
    IN  /\ UNION {UNION Range(s) : s \in iters} = {e \in stored : e.key >= k}
        /\ \A s \in iters : \A i \in 1 .. Len(s) - 1 :
             \A e \in s[i], f \in s[i + 1] : Less(e, f)

(* GetApproximateSizes counts what the files hold from start up to limit,  *)
(* in whatever levels it has come to lie.                                  *)
SizesAreRight ==
  ~ crossed => \A start \in Keys, limit \in Keys \cup {kMaxSequenceNumber} :
    start < limit =>
      GetApproximateSizes(start, limit) =
        Cardinality({e \in UNION {tables[f.number] : f \in FilesOf(current)} :
                       start <= e.key /\ e.key < limit})

(* MaybeScheduleCompaction is called wherever work may arise: there is     *)
(* never a full memtable, a registered range or a level over its limit     *)
(* with no background work scheduled.                                      *)
WorkIsScheduled ==
  ~ bg_error /\ WorkToDo(imm, manual, current, file_to_compact) => scheduled

(* A deletion marker is dropped only when nothing older is left for it to  *)
(* hide (the comment in DoCompactionWork): a key deleted stays deleted.    *)
DeletedStaysDeleted ==
  \A k \in Keys : view[k] = 0 => Get(k, last_sequence) = 0

(* BackgroundCompaction goes back to manual_compaction_ when the work is   *)
(* over: the caller must not have withdrawn its range by then.  (After a   *)
(* background error it does; see FinishWork.)                              *)
RangeStaysRegistered ==
  \A w \in work : w.is_manual /\ ~ bg_error => manual /\ caller.pc = "range"

(* Whatever moved between the levels meanwhile, gets, scans and sizes are  *)
(* answered from what was written.                                         *)
ReadsRight ==
  /\ GetsRight
  /\ ScanMeetsAll
  /\ SizesAreRight

(* No overlap in levels > 0 (the check in SaveTo), which the searches of a *)
(* level count on, whatever is flushed while a compaction runs.  The one   *)
(* exception is a range that a caller asked for: its files may leave a gap *)
(* that a flush fills, and its outputs lie across it.                      *)
NoOverlap == ~ crossed => LevelsDisjoint(current)


(* Versions are ordered within their levels and from level to level.       *)
VersionsInOrder ==
  /\ DBTypeOK
  /\ NoOverlap
  /\ NewerAbove

(* Work for the background thread is neither forgotten nor withdrawn under *)
(* it.                                                                     *)
BackgroundWorkKept ==
  /\ WorkIsScheduled
  /\ RangeStaysRegistered

=============================================================================
