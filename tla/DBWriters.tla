----------------------------- MODULE DBWriters ------------------------------
(***************************************************************************)
(* DBImpl::Write (db/db_impl.cc): threads that write queue up; the first   *)
(* in the queue makes room in the memtable, takes a group of batches,      *)
(* writes it to the log, inserts it into the memtable with the mutex       *)
(* released, and wakes the writers it worked for.  The background thread   *)
(* is reduced to what writers wait for: the immutable memtable, the number *)
(* of files at level 0, and that compactions of other levels may come      *)
(* before the one that is waited for (what they do is in DBCompaction).    *)
(*                                                                         *)
(* A step is a critical section, or a part of the leader's work without    *)
(* the mutex.  An entry is a sequence number, the write it comes from and  *)
(* its place in the batch.                                                 *)
(***************************************************************************)
EXTENDS Naturals, Sequences, FiniteSets, Functions

CONSTANTS Threads,
          Batch,                \* Batch[t]: the batches t writes, one after another
          WriteBufferSize,      \* entries a memtable holds
          SmallBatch, LargeGroup,           \* limits of BuildBatchGroup
          kL0_CompactionTrigger, kL0_SlowdownWritesTrigger, kL0_StopWritesTrigger,
          Level0Found,          \* how many files of level 0 Open may find
          MaxDeeper,            \* bound: compactions the levels below 0 call for
          MaxFailures           \* bound: failed writes, syncs and background work

(* A batch has a number of entries, 0 for the null batch that asks for the *)
(* memtable to be compacted, and the sync option.                          *)
ASSUME WritersAssumption ==
  /\ \A t \in Threads : Batch[t] \in Seq([count : Nat, sync : BOOLEAN])
  /\ WriteBufferSize \in Nat /\ SmallBatch \in Nat /\ LargeGroup \in Nat
  /\ kL0_CompactionTrigger <= kL0_SlowdownWritesTrigger
  /\ kL0_SlowdownWritesTrigger <= kL0_StopWritesTrigger

VARIABLES
  pc, nth,            \* where each thread is, and which of its batches it writes
  done, status,       \* Writer::done, Writer::status ("ok" or "error")
  signalled,          \* the thread was woken from the condition it waits for
  force, delay,       \* force and allow_delay of MakeRoomForWrite
  lock,               \* the thread that goes on holding mutex_, if any
  writers,            \* writers_
  group,              \* the leader's group: writers, first sequence, entries inserted
  sync_error,
  last_sequence,
  mem, imm,           \* entries; imm is empty or holds the set of entries
  tables,             \* entries in tables
  log, imm_log,       \* the records of the logs of mem and of imm
  synced,             \* entries of the records Sync has covered
  level0,             \* versions_->NumLevelFiles(0)
  deeper,             \* compactions the levels below 0 still call for
  inputs,             \* files of level 0 among the inputs of the compaction under way
  scheduled, busy,    \* background work is scheduled; a compaction is under way
  bg_error, shutting_down,
  failures, results   \* count, for the bound; the writes that returned

threadVars == <<pc, nth, done, status, signalled, results>>
roomVars == <<force, delay>>
storeVars == <<mem, imm, tables>>
logVars == <<log, imm_log, synced>>
bgVars == <<level0, deeper, inputs, scheduled, busy>>
vars == <<threadVars, roomVars, lock, writers, group, sync_error, last_sequence, storeVars, logVars,
          bgVars, bg_error, shutting_down, failures>>

Op(t) == <<t, nth[t]>>
BatchAt(op) == Batch[op[1]][op[2]]
Current(t) == BatchAt(Op(t))

Waiting == {t \in Threads : pc[t] \in {"full", "memtable"}}

(* Mutant: nobody is woken.                                                *)
SignalNone(woken) == woken

(* background_work_finished_signal_.SignalAll()                            *)
SignalAll(woken) == [t \in Threads |-> woken[t] \/ t \in Waiting]

NeedsCompaction == level0 >= kL0_CompactionTrigger \/ deeper > 0

MaybeScheduleCompaction ==
  scheduled' = (scheduled \/ (~ bg_error /\ ~ shutting_down
                              /\ (imm' # {} \/ NeedsCompaction')))

Failure == failures < MaxFailures /\ failures' = failures + 1

Goto(t, place) == pc' = [pc EXCEPT ![t] = place]

-----------------------------------------------------------------------------
(* Entering the queue.                                                     *)

(* The head of the queue goes on to MakeRoomForWrite, holding the mutex.   *)
Lead(t, batch) ==
  /\ Goto(t, "room")
  /\ lock' = {t}
  /\ force' = (batch.count = 0)
  /\ delay' = (batch.count > 0)

Call(t) ==
  /\ pc[t] = "idle" /\ lock = {} /\ ~ shutting_down
  /\ nth[t] < Len(Batch[t])
  /\ nth' = [nth EXCEPT ![t] = @ + 1]
  /\ done' = [done EXCEPT ![t] = FALSE]
  /\ writers' = Append(writers, t)
  /\ IF writers = << >> THEN Lead(t, Batch[t][nth[t] + 1])
     ELSE Goto(t, "queued") /\ UNCHANGED <<lock, roomVars>>
  /\ UNCHANGED <<status, signalled, results, group, sync_error, last_sequence, storeVars,
                 logVars, bgVars, bg_error, shutting_down, failures>>

(* A wait on the writer's own condition variable ends.                     *)
Wake(t) ==
  /\ pc[t] = "queued" /\ signalled[t] /\ lock = {}
  /\ signalled' = [signalled EXCEPT ![t] = FALSE]
  /\ \/ done[t] /\ Goto(t, "return") /\ UNCHANGED <<lock, roomVars>>
     \/ ~ done[t] /\ Head(writers) = t /\ Lead(t, Current(t))
     \/ ~ done[t] /\ Head(writers) # t /\ UNCHANGED <<pc, lock, roomVars>>
  /\ UNCHANGED <<nth, done, status, results, writers, group, sync_error, last_sequence,
                 storeVars, logVars, bgVars, bg_error, shutting_down, failures>>

-----------------------------------------------------------------------------
(* MakeRoomForWrite: one operator per branch of its loop, in their order.  *)

RoomUnchanged == UNCHANGED <<storeVars, logVars, scheduled>>

RoomError(t) ==
  /\ bg_error
  /\ Goto(t, "finish")
  /\ status' = [status EXCEPT ![t] = "error"]
  /\ RoomUnchanged
  /\ UNCHANGED <<roomVars, lock, failures>>

Slow == delay /\ level0 >= kL0_SlowdownWritesTrigger

RoomDelay(t) ==
  /\ ~ bg_error /\ Slow
  /\ delay' = FALSE
  /\ Goto(t, "sleep") /\ lock' = {}
  /\ RoomUnchanged
  /\ UNCHANGED <<force, status, failures>>

HasRoom == ~ force /\ Cardinality(mem) <= WriteBufferSize

RoomFound(t) ==
  /\ ~ bg_error /\ ~ Slow /\ HasRoom
  /\ Goto(t, "build")
  /\ RoomUnchanged
  /\ UNCHANGED <<roomVars, lock, status, failures>>

(* The previous memtable is still being compacted, or level 0 is full.     *)
MustWait == imm # {} \/ level0 >= kL0_StopWritesTrigger

RoomWait(t) ==
  /\ ~ bg_error /\ ~ Slow /\ ~ HasRoom /\ MustWait
  /\ Goto(t, "full") /\ lock' = {}
  /\ RoomUnchanged
  /\ UNCHANGED <<roomVars, status, failures>>

(* Mutant: the new memtable goes on with the old log.                      *)
RoomSwitchSameLog(t) ==
  /\ ~ bg_error /\ ~ Slow /\ ~ HasRoom /\ ~ MustWait
  /\ imm' = {mem} /\ mem' = {}
  /\ imm_log' = log
  /\ force' = FALSE
  /\ UNCHANGED <<pc, delay, lock, status, tables, log, synced, failures, level0, deeper>>
  /\ MaybeScheduleCompaction

RoomSwitch(t) ==
  /\ ~ bg_error /\ ~ Slow /\ ~ HasRoom /\ ~ MustWait
  /\ imm' = {mem} /\ mem' = {}
  /\ imm_log' = log /\ log' = << >>
  /\ force' = FALSE
  /\ UNCHANGED <<pc, delay, lock, status, tables, synced, failures, level0, deeper>>
  /\ MaybeScheduleCompaction

(* The new log file cannot be created.                                     *)
RoomFails(t) ==
  /\ ~ bg_error /\ ~ Slow /\ ~ HasRoom /\ ~ MustWait
  /\ Failure
  /\ Goto(t, "finish")
  /\ status' = [status EXCEPT ![t] = "error"]
  /\ RoomUnchanged
  /\ UNCHANGED <<roomVars, lock>>

MakeRoomForWrite(t) ==
  /\ pc[t] = "room" /\ lock = {t}
  /\ \/ RoomError(t) \/ RoomDelay(t) \/ RoomFound(t)
     \/ RoomWait(t) \/ RoomSwitch(t) \/ RoomFails(t)
  /\ UNCHANGED <<nth, done, signalled, results, writers, group, sync_error, last_sequence,
                 level0, deeper, inputs, busy, bg_error, shutting_down>>

(* The millisecond is over, or the wait on the background work has ended.  *)
RoomAgain(t) ==
  /\ pc[t] = "sleep" \/ (pc[t] = "full" /\ signalled[t])
  /\ lock = {}
  /\ lock' = {t}
  /\ Goto(t, "room")
  /\ signalled' = [signalled EXCEPT ![t] = FALSE]
  /\ UNCHANGED <<nth, done, status, results, roomVars, writers, group, sync_error,
                 last_sequence, storeVars, logVars, bgVars, bg_error, shutting_down, failures>>

-----------------------------------------------------------------------------
(* The leader's group.                                                     *)

(* How many entries the first of some writes have together.                *)
Sizes(ops) ==
  LET size[n \in 0 .. Len(ops)] == IF n = 0 THEN 0 ELSE size[n - 1] + BatchAt(ops[n]).count
  IN  size

Queued == [i \in DOMAIN writers |-> Op(writers[i])]

(* Mutant: sync writes are taken along by a leader that does not sync.     *)
BuildBatchGroupAnySync ==
  LET first == Current(Head(writers))
      max_size == IF first.count <= SmallBatch THEN first.count + SmallBatch ELSE LargeGroup
      stops(n) == Current(writers[n]).count > 0 /\ Sizes(Queued)[n] > max_size
  IN  CHOOSE n \in 1 .. Len(writers) :
        (\A m \in 2 .. n : ~ stops(m)) /\ (n < Len(writers) => stops(n + 1))

(* How many of the queue BuildBatchGroup takes: up to the first sync write *)
(* after a leader that does not sync, or the first batch that makes the    *)
(* group too large.  Null batches count for nothing and are taken along.   *)
BuildBatchGroup ==
  LET first == Current(Head(writers))
      max_size == IF first.count <= SmallBatch THEN first.count + SmallBatch ELSE LargeGroup
      stops(n) == \/ Current(writers[n]).sync /\ ~ first.sync
                  \/ Current(writers[n]).count > 0 /\ Sizes(Queued)[n] > max_size
  IN  CHOOSE n \in 1 .. Len(writers) :
        /\ \A m \in 2 .. n : ~ stops(m)
        /\ n < Len(writers) => stops(n + 1)

(* The entries of a group of writes, numbered from first.                  *)
EntriesOf(ops, first) ==
  LET size == Sizes(ops)
      from(k) == CHOOSE i \in DOMAIN ops : size[i - 1] < k /\ k <= size[i]
  IN  [k \in 1 .. size[Len(ops)] |->
         [seq |-> first + k - 1, op |-> ops[from(k)], place |-> k - size[from(k) - 1]]]

Build(t) ==
  /\ pc[t] = "build" /\ lock = {t}
  /\ status' = [status EXCEPT ![t] = "ok"]
  /\ IF Current(t).count = 0
     THEN Goto(t, "finish") /\ UNCHANGED <<lock, group>>
     ELSE LET size == BuildBatchGroup IN
          /\ Goto(t, "append")
          /\ lock' = {}
          /\ group' = [size |-> size, inserted |-> 0,
                       entries |-> EntriesOf(SubSeq(Queued, 1, size), last_sequence + 1)]
  /\ UNCHANGED <<nth, done, signalled, results, roomVars, writers, sync_error, last_sequence,
                 storeVars, logVars, bgVars, bg_error, shutting_down, failures>>

(* log_->AddRecord, without the mutex.                                     *)
AddRecord(t) ==
  /\ pc[t] = "append"
  /\ \/ /\ log' = Append(log, [whole |-> TRUE, entries |-> Range(group.entries)])
        /\ Goto(t, IF Current(t).sync THEN "sync" ELSE "insert")
        /\ UNCHANGED <<status, failures>>
     \/ /\ Failure
        /\ log' = Append(log, [whole |-> FALSE, entries |-> {}])
        /\ Goto(t, "finish")
        /\ status' = [status EXCEPT ![t] = "error"]
  /\ UNCHANGED <<nth, done, signalled, results, roomVars, lock, writers, group, sync_error,
                 last_sequence, storeVars, imm_log, synced, bgVars, bg_error, shutting_down>>

(* What a reader of the log finds: it is lost after a record that could    *)
(* not be written whole.                                                   *)
Readable(records) ==
  UNION {records[i].entries : i \in {j \in DOMAIN records : \A k \in 1 .. j : records[k].whole}}

Sync(t) ==
  /\ pc[t] = "sync"
  /\ \/ /\ synced' = synced \cup Readable(log)
        /\ Goto(t, "insert")
        /\ UNCHANGED <<status, sync_error, failures>>
     \/ /\ Failure
        /\ sync_error' = TRUE
        /\ Goto(t, "finish")
        /\ status' = [status EXCEPT ![t] = "error"]
        /\ UNCHANGED synced
  /\ UNCHANGED <<nth, done, signalled, results, roomVars, lock, writers, group, last_sequence,
                 storeVars, log, imm_log, bgVars, bg_error, shutting_down>>

(* Mutant: only the first entry of the group is inserted.                  *)
InsertFirst(t) ==
  /\ pc[t] = "insert"
  /\ mem' = mem \cup {group.entries[1]}
  /\ Goto(t, "finish")
  /\ UNCHANGED <<nth, done, status, signalled, results, roomVars, lock, writers, group, sync_error,
                 last_sequence, imm, tables, logVars, bgVars, bg_error, shutting_down, failures>>

(* InsertInto adds one entry after another to the memtable.                *)
Insert(t) ==
  /\ pc[t] = "insert"
  /\ mem' = mem \cup {group.entries[group.inserted + 1]}
  /\ group' = [group EXCEPT !.inserted = @ + 1]
  /\ IF group.inserted + 1 = Len(group.entries) THEN Goto(t, "finish") ELSE UNCHANGED pc
  /\ UNCHANGED <<nth, done, status, signalled, results, roomVars, lock, writers, sync_error,
                 last_sequence, imm, tables, logVars, bgVars, bg_error, shutting_down, failures>>

(* Mutant: the writers of the group stay in the queue.                     *)
FinishPopsOne(t) ==
  LET size == IF group.size = 0 THEN 1 ELSE group.size
      mine == {writers[i] : i \in 2 .. size}
      rest == Tail(writers)
      woken == [u \in Threads |-> signalled[u] \/ u \in mine \/ (rest # << >> /\ u = Head(rest))]
  IN
  /\ pc[t] = "finish" /\ lock \in {{}, {t}}
  /\ lock' = {}
  /\ bg_error' = (bg_error \/ sync_error)
  /\ signalled' = IF sync_error /\ ~ bg_error THEN SignalAll(woken) ELSE woken
  /\ last_sequence' = last_sequence + Len(group.entries)
  /\ writers' = rest
  /\ done' = [u \in Threads |-> done[u] \/ u \in mine]
  /\ status' = [u \in Threads |-> IF u \in mine THEN status[t] ELSE status[u]]
  /\ group' = [size |-> 0, inserted |-> 0, entries |-> << >>]
  /\ sync_error' = FALSE
  /\ Goto(t, "return")
  /\ UNCHANGED <<nth, results, roomVars, storeVars, logVars, bgVars, shutting_down, failures>>

(* The last critical section: a failed sync ends all writing, the sequence *)
(* numbers of the group are published, its writers get the leader's        *)
(* status, and the next in the queue is woken.                             *)
Finish(t) ==
  LET size == IF group.size = 0 THEN 1 ELSE group.size
      mine == {writers[i] : i \in 2 .. size}
      rest == SubSeq(writers, size + 1, Len(writers))
      woken == [u \in Threads |-> signalled[u] \/ u \in mine \/ (rest # << >> /\ u = Head(rest))]
  IN
  /\ pc[t] = "finish" /\ lock \in {{}, {t}}
  /\ lock' = {}
  /\ bg_error' = (bg_error \/ sync_error)
  /\ signalled' = IF sync_error /\ ~ bg_error THEN SignalAll(woken) ELSE woken
  /\ last_sequence' = last_sequence + Len(group.entries)
  /\ writers' = rest
  /\ done' = [u \in Threads |-> done[u] \/ u \in mine]
  /\ status' = [u \in Threads |-> IF u \in mine THEN status[t] ELSE status[u]]
  /\ group' = [size |-> 0, inserted |-> 0, entries |-> << >>]
  /\ sync_error' = FALSE
  /\ Goto(t, "return")
  /\ UNCHANGED <<nth, results, roomVars, storeVars, logVars, bgVars, shutting_down, failures>>

(* Write returns; after a null batch TEST_CompactMemTable goes on to wait  *)
(* for the memtable.                                                       *)
Return(t) ==
  /\ pc[t] = "return"
  /\ results' = [results EXCEPT ![status[t]] = @ \cup {Op(t)}]
  /\ Goto(t, IF Current(t).count = 0 /\ status[t] = "ok" THEN "check" ELSE "idle")
  /\ UNCHANGED <<nth, done, status, signalled, roomVars, lock, writers, group, sync_error,
                 last_sequence, storeVars, logVars, bgVars, bg_error, shutting_down, failures>>

(* The wait of TEST_CompactMemTable.                                       *)
MemTableWait(t) ==
  /\ pc[t] = "check" \/ (pc[t] = "memtable" /\ signalled[t])
  /\ lock = {}
  /\ signalled' = [signalled EXCEPT ![t] = FALSE]
  /\ Goto(t, IF imm # {} /\ ~ bg_error THEN "memtable" ELSE "idle")
  /\ UNCHANGED <<nth, done, status, results, roomVars, lock, writers, group, sync_error,
                 last_sequence, storeVars, logVars, bgVars, bg_error, shutting_down, failures>>

-----------------------------------------------------------------------------
(* The background thread.                                                  *)

BackgroundUnchanged ==
  UNCHANGED <<pc, nth, done, status, results, roomVars, lock, writers, group, sync_error,
              last_sequence, mem, log, synced, shutting_down>>

(* Mutant: the next work is scheduled for the memtable only.               *)
BackgroundDoneFlushOnly == scheduled' = (~ bg_error /\ ~ shutting_down /\ imm' # {})

(* The end of BackgroundCall: the flag is cleared, and the work is         *)
(* scheduled again if there is a memtable to write or a level with too     *)
(* many files, even when this call has just compacted one.                 *)
BackgroundDone ==
  scheduled' = (~ bg_error /\ ~ shutting_down /\ (imm' # {} \/ NeedsCompaction'))

(* CompactMemTable, first in BackgroundCompaction or within a compaction.  *)
(* The table may be placed below level 0.                                  *)
BackgroundFlush ==
  /\ scheduled /\ lock = {} /\ imm # {} /\ ~ shutting_down
  /\ busy \/ ~ bg_error
  /\ tables' = tables \cup (UNION imm)
  /\ imm' = {} /\ imm_log' = << >>
  /\ \/ level0' = level0 + 1 /\ UNCHANGED deeper
     \/ deeper' \in deeper .. MaxDeeper /\ UNCHANGED level0
  /\ signalled' = SignalAll(signalled)
  /\ IF busy THEN UNCHANGED scheduled ELSE BackgroundDone
  /\ BackgroundUnchanged
  /\ UNCHANGED <<inputs, busy, bg_error, failures>>

(* PickCompaction: files of level 0, or a compaction of a deeper level.    *)
BackgroundCompacts ==
  /\ scheduled /\ lock = {} /\ imm = {} /\ ~ busy /\ ~ bg_error /\ ~ shutting_down
  /\ \/ level0 >= kL0_CompactionTrigger /\ inputs' \in 1 .. level0
     \/ deeper > 0 /\ inputs' = 0
  /\ busy' = TRUE
  /\ BackgroundUnchanged
  /\ UNCHANGED <<imm, tables, imm_log, signalled, level0, deeper, scheduled, bg_error, failures>>

(* A compaction deletes its inputs only.  One of level 0 may overfill the  *)
(* level below, and so on down; one of a deeper level brings the files     *)
(* nearer to the last level, which is never compacted.                     *)
BackgroundCompacted ==
  /\ busy /\ lock = {} /\ ~ shutting_down
  /\ busy' = FALSE /\ inputs' = 0
  /\ level0' = level0 - inputs
  /\ deeper' \in IF inputs > 0 THEN deeper .. MaxDeeper ELSE 0 .. deeper - 1
  /\ signalled' = SignalAll(signalled)
  /\ UNCHANGED <<imm, tables, imm_log, bg_error, failures>>
  /\ BackgroundDone
  /\ BackgroundUnchanged

(* Work fails: the error is recorded, and everyone who waits is woken.  A  *)
(* compaction goes on when the memtable cannot be written meanwhile.       *)
BackgroundFails ==
  /\ scheduled /\ lock = {}
  /\ Failure
  /\ bg_error' = TRUE
  /\ \/ imm # {} /\ ~ bg_error /\ scheduled' = busy /\ UNCHANGED <<inputs, busy>>
     \/ busy /\ busy' = FALSE /\ inputs' = 0 /\ scheduled' = FALSE
  /\ signalled' = SignalAll(signalled)
  /\ BackgroundUnchanged
  /\ UNCHANGED <<imm, tables, imm_log, level0, deeper>>

(* Mutant: work is rescheduled although the database is being closed.      *)
BackgroundReschedules ==
  /\ scheduled /\ lock = {} /\ (shutting_down \/ (bg_error /\ ~ busy))
  /\ bg_error' = (bg_error \/ busy)
  /\ busy' = FALSE /\ inputs' = 0 /\ scheduled' = (imm # {} /\ ~ bg_error)
  /\ signalled' = SignalAll(signalled)
  /\ BackgroundUnchanged
  /\ UNCHANGED <<imm, tables, imm_log, level0, deeper, failures>>

(* BackgroundCall after an error or during shutdown; a compaction under    *)
(* way is given up, which is an error too.                                 *)
BackgroundStops ==
  /\ scheduled /\ lock = {} /\ (shutting_down \/ (bg_error /\ ~ busy))
  /\ bg_error' = (bg_error \/ busy)
  /\ busy' = FALSE /\ inputs' = 0 /\ scheduled' = FALSE
  /\ signalled' = SignalAll(signalled)
  /\ BackgroundUnchanged
  /\ UNCHANGED <<imm, tables, imm_log, level0, deeper, failures>>

(* The destructor: it may only be called when no call is under way, and    *)
(* waits until no background work is scheduled.                            *)
Close ==
  /\ ~ shutting_down
  /\ \A t \in Threads : pc[t] = "idle" /\ nth[t] = Len(Batch[t])
  /\ shutting_down' = TRUE
  /\ UNCHANGED <<threadVars, roomVars, lock, writers, group, sync_error, last_sequence,
                 storeVars, logVars, bgVars, bg_error, failures>>

Closed == shutting_down /\ ~ scheduled

-----------------------------------------------------------------------------
(* DB::Open has recovered the files and ends with MaybeScheduleCompaction. *)
Init ==
  /\ pc = [t \in Threads |-> "idle"] /\ nth = [t \in Threads |-> 0]
  /\ done = [t \in Threads |-> FALSE] /\ status = [t \in Threads |-> "ok"]
  /\ signalled = [t \in Threads |-> FALSE]
  /\ results = [outcome \in {"ok", "error"} |-> {}]
  /\ force = FALSE /\ delay = FALSE /\ lock = {} /\ writers = << >>
  /\ group = [size |-> 0, inserted |-> 0, entries |-> << >>]
  /\ sync_error = FALSE /\ last_sequence = 0
  /\ mem = {} /\ imm = {} /\ tables = {}
  /\ log = << >> /\ imm_log = << >> /\ synced = {}
  /\ level0 \in Level0Found /\ deeper \in 0 .. MaxDeeper /\ inputs = 0
  /\ scheduled = NeedsCompaction /\ busy = FALSE
  /\ bg_error = FALSE /\ shutting_down = FALSE /\ failures = 0

Thread(t) ==
  \/ Wake(t) \/ MakeRoomForWrite(t) \/ RoomAgain(t) \/ Build(t)
  \/ AddRecord(t) \/ Sync(t) \/ Insert(t) \/ Finish(t) \/ Return(t) \/ MemTableWait(t)

Background ==
  \/ BackgroundFlush \/ BackgroundCompacts \/ BackgroundCompacted
  \/ BackgroundFails \/ BackgroundStops

Next ==
  \/ \E t \in Threads : Call(t) \/ Thread(t)
  \/ Background
  \/ Close
  \/ Closed /\ UNCHANGED vars

(* Threads that are runnable run, and so does scheduled background work;   *)
(* nobody is obliged to call.                                              *)
Spec ==
  /\ Init /\ [][Next]_vars
  /\ \A t \in Threads : WF_vars(Thread(t))
  /\ WF_vars(Background)

-----------------------------------------------------------------------------
(* Properties.                                                             *)

AllEntries == mem \cup (UNION imm) \cup tables

(* The queue holds the threads that are in Write and not done, once each,  *)
(* and only its head works.                                                *)
WritersTypeOK ==
  /\ \A i, j \in DOMAIN writers : writers[i] = writers[j] => i = j
  /\ \A t \in Threads :
       /\ pc[t] \notin {"idle", "queued", "return", "check", "memtable"} => Head(writers) = t
       /\ pc[t] = "queued" => (done[t] <=> t \notin Range(writers))
  /\ group.size <= Len(writers)

(* What readers see at last_sequence.                                      *)
Visible == {e \in AllEntries : e.seq <= last_sequence}

CountOf(op) == BatchAt(op).count

InWrite == {t \in Threads : pc[t] \notin {"idle", "check", "memtable"}}

Atomic == INSTANCE AtomicWrites WITH
  Ops <- UNION {{t} \X DOMAIN Batch[t] : t \in Threads},
  Count <- CountOf,
  called <- {Op(t) : t \in InWrite},
  store <- Visible,
  ok <- results["ok"],
  error <- results["error"]

(* Group commit keeps DB::Write's promise: although one thread writes the  *)
(* batches of others and inserts them entry by entry with the mutex        *)
(* released, readers see each batch at once and as a whole, before its     *)
(* writer returns OK, and never see a batch whose writer got an error.     *)
ImplementsAtomicWrites == Atomic!Spec

Whole(records) == \A i \in DOMAIN records : records[i].whole

(* A write with the sync option that returned OK survives a crash: its     *)
(* entries are in a log record that Sync has covered, or in a table, even  *)
(* when another thread logged it and the memtable was switched since.  (A  *)
(* log in which a record could not be written whole is the exception: the  *)
(* error goes to that record's writers only, and the log stays in use.)    *)
SyncedSurvives ==
  LET survives(m, records) == Whole(records) =>
        \A e \in m : e.op \in results["ok"] /\ BatchAt(e.op).sync => e \in synced
  IN  survives(mem, log) /\ \A m \in imm : survives(m, imm_log)

(* The log of a memtable replays to that memtable: records come in the     *)
(* order of the sequence numbers, everything in the memtable was logged    *)
(* first, and everything logged and published is in the memtable, unless a *)
(* sync failed, after which all writes fail.                               *)
LogReplays ==
  LET published(records) == {e \in Readable(records) : e.seq <= last_sequence}
      replays(m, records) == Whole(records) => /\ m \subseteq Readable(records)
                                               /\ ~ bg_error => published(records) \subseteq m
  IN  /\ \A i, j \in DOMAIN log : i < j =>
           \A e \in log[i].entries, f \in log[j].entries : e.seq < f.seq
      /\ replays(mem, log)
      /\ \A m \in imm : replays(m, imm_log)

(* Every call of Write, and every wait for the memtable, comes to an end,  *)
(* and so does the destructor's wait for the background thread: no wake-up *)
(* is lost between the queue, the full memtable, the stopped level 0 and   *)
(* the background thread, whatever fails.                                  *)
EveryWaitEnds ==
  /\ \A t \in Threads : (pc[t] # "idle") ~> (pc[t] = "idle")
  /\ shutting_down ~> ~ scheduled

=============================================================================
