----------------------------- MODULE DBRecovery -----------------------------
(***************************************************************************)
(* What leveldb keeps on disk and how it is opened again after a crash     *)
(* (db/db_impl.cc, db/version_set.cc): logs, tables, manifests and the     *)
(* file CURRENT that names the manifest in use.                            *)
(*                                                                         *)
(* A log or a manifest is a sequence of records, a prefix of which has     *)
(* been synced.  When the process dies the file system keeps all that was  *)
(* written; when the machine dies it keeps what was synced and any part of *)
(* the rest, and the last record kept may be torn.  Creating, renaming and *)
(* deleting files, and the files that are synced before they are used (the *)
(* tables and CURRENT), are taken to survive.                              *)
(*                                                                         *)
(* An entry is a sequence number and the incarnation that wrote it.        *)
(* Levels are left out: a version is a set of tables.                      *)
(***************************************************************************)
EXTENDS Naturals, Sequences, FiniteSets, Functions

CONSTANTS WriteBufferSize,     \* entries a memtable holds
          ReuseLogs,           \* values options_.reuse_logs may have
          NewDatabase,         \* values for: there is no database at first
          MaxWrites, MaxCrashes, MaxFailures     \* bounds

ASSUME RecoveryAssumption ==
  /\ WriteBufferSize \in Nat
  /\ ReuseLogs \subseteq BOOLEAN /\ NewDatabase \subseteq BOOLEAN

VARIABLES
  CURRENT,            \* number of the manifest it names, or 0: no such file
  manifests, logs,    \* number to [records, synced]
  tables,             \* number to the entries of a table
  pc,                 \* down, newdb, open, logs, newlog, save, up
  vs,                 \* the VersionSet
  reuse, save,        \* options_.reuse_logs, save_manifest
  todo, edit,         \* logs to recover; the edit of DB::Open
  mem, imm,           \* entries; imm is empty or holds a set
  logfile,            \* logfile_number_, or 0
  flushing,           \* the number of the table CompactMemTable writes, or 0
  apply, record,      \* where LogAndApply is; the edit it writes
  collect,            \* DeleteObsoleteFiles is under way
  bg_error,
  written, synced,    \* entries whose Write returned; that a sync covered
  incarnation, writes, failures

diskVars == <<CURRENT, manifests, logs, tables>>
openVars == <<reuse, save, todo, edit>>
memVars == <<mem, imm, logfile, flushing>>
applyVars == <<apply, record, collect>>
ghostVars == <<written, synced, incarnation, writes>>
vars == <<diskVars, pc, vs, openVars, memVars, applyVars, bg_error, ghostVars, failures>>

-----------------------------------------------------------------------------
(* Files.                                                                  *)

EmptyFile == [records |-> << >>, synced |-> 0]
Torn == [whole |-> FALSE]
Whole(data) == [whole |-> TRUE, data |-> data]

AddRecord(file, data) == [file EXCEPT !.records = Append(@, Whole(data))]
Sync(file) == [file EXCEPT !.synced = Len(file.records)]

(* What log::Reader gives: the records before the first torn one.          *)
Records(file) ==
  LET n == {i \in 0 .. Len(file.records) : \A j \in 1 .. i : file.records[j].whole}
      last == CHOOSE i \in n : \A j \in n : j <= i
  IN  [i \in 1 .. last |-> file.records[i].data]

(* What may be left of a file when the machine dies.                       *)
LeftOf(file) ==
  LET kept == {SubSeq(file.records, 1, n) : n \in file.synced .. Len(file.records)}
      torn == {Append(r, Torn) : r \in {s \in kept : Len(s) < Len(file.records)}}
  IN  {[records |-> r, synced |-> Len(r)] : r \in kept \cup torn}

Put(files, n, file) == [m \in DOMAIN files \cup {n} |-> IF m = n THEN file ELSE files[m]]
Without(files, S) == [m \in DOMAIN files \ S |-> files[m]]

(* An edit: tables deleted and added, and fields that may be absent.       *)
Edit(deleted, added, log, next, sequence) ==
  [deleted |-> deleted, added |-> added, log |-> log, next |-> next, sequence |-> sequence]
NoEdit == Edit({}, {}, {}, {}, {})

(* VersionSet::Recover reads the edits of a manifest one after another.    *)
ApplyEdit(state, e) ==
  LET newest(old, new) == IF new = {} THEN old ELSE new
  IN  Edit({}, (state.added \ e.deleted) \cup e.added, newest(state.log, e.log),
           newest(state.next, e.next), newest(state.sequence, e.sequence))

States(edits) ==
  LET state[n \in 0 .. Len(edits)] ==
        IF n = 0 THEN NoEdit ELSE ApplyEdit(state[n - 1], edits[n])
  IN  state

Replay(edits) == States(edits)[Len(edits)]

Saved == Replay(Records(manifests[CURRENT]))

(* Open does not fail: the manifest has its fields and no table is missing.*)
Readable ==
  LET saved == Saved IN
  /\ CURRENT \in DOMAIN manifests
  /\ saved.log # {} /\ saved.next # {} /\ saved.sequence # {}
  /\ saved.added \subseteq DOMAIN tables

The(S) == CHOOSE x \in S : TRUE
Greatest(S) == CHOOSE x \in S : \A y \in S : y <= x
Least(S) == CHOOSE x \in S : \A y \in S : x <= y
EntriesIn(numbers) == UNION {tables[n] : n \in numbers}
LogEntries(n) == Range(Records(logs[n]))
LogsFrom(number) == {n \in DOMAIN logs : n >= number}

(* What the next Open would find.                                          *)
Recoverable ==
  LET saved == Saved IN
  EntriesIn(saved.added) \cup UNION {LogEntries(n) : n \in LogsFrom(The(saved.log))}

NoVersions == [files |-> {}, log_number |-> 0, next_file |-> 2, last_sequence |-> 0,
               manifest |-> 0, open |-> FALSE]

-----------------------------------------------------------------------------
(* DB::Open.                                                               *)

(* NewDB writes the first manifest, and then CURRENT.                      *)
NewDB ==
  /\ pc = "down" /\ CURRENT = 0
  /\ manifests' = Put(manifests, 1, AddRecord(EmptyFile, Edit({}, {}, {0}, {2}, {0})))
  /\ pc' = "newdb"
  /\ UNCHANGED <<CURRENT, logs, tables, vs, openVars, memVars, applyVars, bg_error, ghostVars,
                 failures>>

NewDBSetCurrent ==
  /\ pc = "newdb"
  /\ CURRENT' = 1
  /\ pc' = "open"
  /\ UNCHANGED <<manifests, logs, tables, vs, openVars, memVars, applyVars, bg_error, ghostVars,
                 failures>>

(* Mutant. *)
MarkNothing(next, number) == next

MarkFileNumberUsed(next, number) == IF next <= number THEN number + 1 ELSE next

(* A manifest may be too large to be reused.                               *)
ReuseManifest(r) == IF r THEN BOOLEAN ELSE {FALSE}

(* VersionSet::Recover, and the logs DBImpl::Recover finds.                *)
Recover ==
  /\ pc \in {"down", "open"} /\ CURRENT # 0 /\ Readable
  /\ \E r \in ReuseLogs : \E reused \in ReuseManifest(r) :
       /\ reuse' = r
       /\ save' = ~ reused
       /\ LET log == The(Saved.log)
              next == The(Saved.next)
          IN  /\ vs' = [files |-> Saved.added, log_number |-> log, next_file |-> next + 1,
                        last_sequence |-> The(Saved.sequence),
                        manifest |-> IF reused THEN CURRENT ELSE next, open |-> reused]
              /\ todo' = LogsFrom(log)
  /\ pc' = "logs"
  /\ edit' = NoEdit
  /\ UNCHANGED <<diskVars, memVars, applyVars, bg_error, ghostVars, failures>>

(* The entries of a log, cut into tables wherever the memtable is full.    *)
Tables(entries) ==
  LET full == WriteBufferSize + 1
      nth(j) == Least({n \in 0 .. Len(entries) : j <= n * full})
  IN  [i \in 1 .. nth(Len(entries)) |->
         {entries[j] : j \in {k \in DOMAIN entries : nth(k) = i}}]

(* Mutant: the sequence numbers of a log do not count. *)
RecoverLogFileSequence ==
  /\ pc = "logs" /\ todo # {}
  /\ LET number == Least(todo)
         entries == Records(logs[number])
         keep == reuse /\ todo = {number} /\ Len(entries) <= WriteBufferSize
         new == IF keep THEN << >> ELSE Tables(entries)
         numbers == {vs.next_file + i - 1 : i \in DOMAIN new}
         next == vs.next_file + Len(new)
     IN
     /\ mem' = IF keep THEN Range(entries) ELSE mem
     /\ logfile' = IF keep THEN number ELSE logfile
     /\ tables' = [n \in DOMAIN tables \cup numbers |->
                     IF n \in numbers THEN new[n - vs.next_file + 1] ELSE tables[n]]
     /\ edit' = [edit EXCEPT !.added = @ \cup numbers]
     /\ todo' = todo \ {number}
     /\ save' = (save \/ new # << >>)
     /\ vs' = [vs EXCEPT !.next_file = MarkFileNumberUsed(next, number)]
  /\ UNCHANGED <<CURRENT, manifests, logs, pc, reuse, imm, flushing, applyVars, bg_error,
                 ghostVars, failures>>

(* RecoverLogFile: the last log may be kept in use, with its entries in    *)
(* the memtable; those of other logs, and of a log that fills the          *)
(* memtable, are written to tables.                                        *)
RecoverLogFile ==
  /\ pc = "logs" /\ todo # {}
  /\ LET number == Least(todo)
         entries == Records(logs[number])
         keep == reuse /\ todo = {number} /\ Len(entries) <= WriteBufferSize
         new == IF keep THEN << >> ELSE Tables(entries)
         numbers == {vs.next_file + i - 1 : i \in DOMAIN new}
         next == vs.next_file + Len(new)
     IN
     /\ mem' = IF keep THEN Range(entries) ELSE mem
     /\ logfile' = IF keep THEN number ELSE logfile
     /\ tables' = [n \in DOMAIN tables \cup numbers |->
                     IF n \in numbers THEN new[n - vs.next_file + 1] ELSE tables[n]]
     /\ edit' = [edit EXCEPT !.added = @ \cup numbers]
     /\ todo' = todo \ {number}
     /\ save' = (save \/ new # << >>)
     /\ vs' = [vs EXCEPT !.next_file = MarkFileNumberUsed(next, number),
                         !.last_sequence = Greatest({@} \cup {e[1] : e \in Range(entries)})]
  /\ UNCHANGED <<CURRENT, manifests, logs, pc, reuse, imm, flushing, applyVars, bg_error,
                 ghostVars, failures>>

(* The rest of Open: a new log unless one is kept, and the edit saved.     *)
OpenLog ==
  /\ pc = "logs" /\ todo = {}
  /\ pc' = "save"
  /\ IF logfile # 0 THEN UNCHANGED <<logs, vs, logfile, mem>>
     ELSE /\ logs' = Put(logs, vs.next_file, EmptyFile)
          /\ logfile' = vs.next_file
          /\ vs' = [vs EXCEPT !.next_file = @ + 1]
          /\ mem' = {}
  /\ UNCHANGED <<CURRENT, manifests, tables, openVars, imm, flushing, applyVars, bg_error,
                 ghostVars, failures>>

BeginLogAndApply(e) ==
  /\ record' = e
  /\ apply' = IF vs.open THEN "append" ELSE "create"

OpenSave ==
  /\ pc = "save" /\ apply = "none"
  /\ IF save THEN /\ BeginLogAndApply([edit EXCEPT !.log = {logfile}])
                  /\ UNCHANGED <<collect, pc>>
     ELSE collect' = TRUE /\ pc' = "up" /\ UNCHANGED <<apply, record>>
  /\ UNCHANGED <<diskVars, vs, openVars, memVars, bg_error, ghostVars, failures>>

-----------------------------------------------------------------------------
(* VersionSet::LogAndApply.  Writers go on between its steps.              *)

(* Mutant: the edit does not say what sequence number was used last. *)
FilledNoSequence ==
  [record EXCEPT !.next = {vs.next_file}, !.log = IF @ = {} THEN {vs.log_number} ELSE @,
                 !.sequence = IF vs.open THEN {} ELSE {0}]

Filled ==
  [record EXCEPT !.next = {vs.next_file}, !.sequence = {vs.last_sequence},
                 !.log = IF @ = {} THEN {vs.log_number} ELSE @]

(* The first call creates the manifest, with a snapshot of the version.    *)
CreateManifest ==
  /\ apply = "create"
  /\ record' = Filled
  /\ manifests' = Put(manifests, vs.manifest,
                      AddRecord(EmptyFile, [NoEdit EXCEPT !.added = vs.files]))
  /\ apply' = "append"
  /\ UNCHANGED <<CURRENT, logs, tables, pc, vs, openVars, memVars, collect, bg_error, ghostVars,
                 failures>>

(* Mutant: nobody waits for the manifest to be on disk. *)
AppendManifestNoSync ==
  /\ apply = "append"
  /\ record' = IF vs.open THEN Filled ELSE record
  /\ manifests' = [manifests EXCEPT ![vs.manifest] = AddRecord(@, record')]
  /\ apply' = IF vs.open THEN "install" ELSE "current"
  /\ UNCHANGED <<CURRENT, logs, tables, pc, vs, openVars, memVars, collect, bg_error, ghostVars,
                 failures>>

AppendManifest ==
  /\ apply = "append"
  /\ record' = IF vs.open THEN Filled ELSE record
  /\ manifests' = [manifests EXCEPT ![vs.manifest] = AddRecord(@, record')]
  /\ apply' = "sync"
  /\ UNCHANGED <<CURRENT, logs, tables, pc, vs, openVars, memVars, collect, bg_error, ghostVars,
                 failures>>

SyncManifest ==
  /\ apply = "sync"
  /\ manifests' = [manifests EXCEPT ![vs.manifest] = Sync(@)]
  /\ apply' = IF vs.open THEN "install" ELSE "current"
  /\ UNCHANGED <<CURRENT, logs, tables, pc, vs, openVars, memVars, record, collect, bg_error,
                 ghostVars, failures>>

SetCurrentFile ==
  /\ apply = "current"
  /\ CURRENT' = vs.manifest
  /\ apply' = "install"
  /\ UNCHANGED <<manifests, logs, tables, pc, vs, openVars, memVars, record, collect, bg_error,
                 ghostVars, failures>>

(* The new version becomes current; a flush, which deletes no table, lets  *)
(* go of its memtable.                                                     *)
InstallVersion ==
  /\ apply = "install"
  /\ vs' = [vs EXCEPT !.files = (@ \ record.deleted) \cup record.added,
                      !.log_number = The(record.log), !.open = TRUE]
  /\ apply' = "none"
  /\ pc' = "up"
  /\ collect' = TRUE
  /\ flushing' = 0
  /\ imm' = IF flushing # 0 /\ record.deleted = {} THEN {} ELSE imm
  /\ UNCHANGED <<diskVars, openVars, mem, logfile, record, bg_error, ghostVars, failures>>

(* The record may have been written or not, or CURRENT could not be        *)
(* replaced; a new manifest is deleted, and Open fails.                    *)
ManifestFails ==
  /\ apply \in {"create", "append", "sync", "current"} /\ failures < MaxFailures
  /\ failures' = failures + 1
  /\ apply' = "none"
  /\ flushing' = 0
  /\ IF vs.open THEN /\ bg_error' = (pc = "up")
                     /\ UNCHANGED manifests
     ELSE /\ manifests' = Without(manifests, {vs.manifest})
          /\ UNCHANGED bg_error
  /\ pc' = IF pc = "up" THEN "up" ELSE "failed"
  /\ UNCHANGED <<CURRENT, logs, tables, vs, openVars, mem, imm, logfile, record, collect,
                 ghostVars>>

(* Mutant: one log too many. *)
ObsoleteUpTo ==
  [logs |-> {n \in DOMAIN logs : n <= vs.log_number},
   manifests |-> {n \in DOMAIN manifests : n < vs.manifest},
   tables |-> DOMAIN tables \ (vs.files \cup {flushing})]

(* DeleteObsoleteFiles, one file after another, with the mutex held.       *)
Obsolete ==
  [logs |-> {n \in DOMAIN logs : n < vs.log_number},
   manifests |-> {n \in DOMAIN manifests : n < vs.manifest},
   tables |-> DOMAIN tables \ (vs.files \cup {flushing})]

DeleteObsoleteFile ==
  /\ collect /\ ~ bg_error
  /\ \/ \E n \in Obsolete.logs : logs' = Without(logs, {n}) /\ UNCHANGED <<manifests, tables>>
     \/ \E n \in Obsolete.manifests :
          manifests' = Without(manifests, {n}) /\ UNCHANGED <<logs, tables>>
     \/ \E n \in Obsolete.tables : tables' = Without(tables, {n}) /\ UNCHANGED <<logs, manifests>>
  /\ UNCHANGED <<CURRENT, pc, vs, openVars, memVars, applyVars, bg_error, ghostVars, failures>>

Collected ==
  /\ collect
  /\ bg_error \/ \A kind \in DOMAIN Obsolete : Obsolete[kind] = {}
  /\ collect' = FALSE
  /\ UNCHANGED <<diskVars, pc, vs, openVars, memVars, apply, record, bg_error, ghostVars, failures>>

-----------------------------------------------------------------------------
(* A database that is open.                                                *)

Up == pc = "up" /\ ~ collect

(* DBImpl::Write; DBWriters shows how the log is written.                  *)
Write(sync) ==
  /\ Up /\ ~ bg_error /\ writes < MaxWrites
  /\ LET e == <<vs.last_sequence + 1, incarnation>>
         file == AddRecord(logs[logfile], e)
     IN  /\ logs' = [logs EXCEPT ![logfile] = IF sync THEN Sync(file) ELSE file]
         /\ mem' = mem \cup {e}
         /\ written' = written \cup {e}
         /\ synced' = IF sync THEN synced \cup Range(Records(file)) ELSE synced
  /\ vs' = [vs EXCEPT !.last_sequence = @ + 1]
  /\ writes' = writes + 1
  /\ UNCHANGED <<CURRENT, manifests, tables, pc, openVars, imm, logfile, flushing, applyVars,
                 bg_error, incarnation, failures>>

(* MakeRoomForWrite switches to a new log and a new memtable.              *)
SwitchMemTable ==
  /\ Up /\ ~ bg_error /\ imm = {} /\ mem # {}
  /\ imm' = {mem} /\ mem' = {}
  /\ logs' = Put(logs, vs.next_file, EmptyFile)
  /\ logfile' = vs.next_file
  /\ vs' = [vs EXCEPT !.next_file = @ + 1]
  /\ UNCHANGED <<CURRENT, manifests, tables, pc, openVars, flushing, applyVars, bg_error,
                 ghostVars, failures>>

(* CompactMemTable writes and syncs the table, then applies the edit: logs *)
(* before the one in use now are no longer needed.                         *)
CompactMemTable ==
  /\ Up /\ ~ bg_error /\ imm # {} /\ apply = "none"
  /\ flushing' = vs.next_file
  /\ tables' = Put(tables, vs.next_file, UNION imm)
  /\ vs' = [vs EXCEPT !.next_file = @ + 1]
  /\ BeginLogAndApply(Edit({}, {vs.next_file}, {logfile}, {}, {}))
  /\ UNCHANGED <<CURRENT, manifests, logs, pc, openVars, mem, imm, logfile, collect, bg_error,
                 ghostVars, failures>>

(* A compaction of all tables into one.                                    *)
CompactTables ==
  /\ Up /\ ~ bg_error /\ imm = {} /\ apply = "none" /\ Cardinality(vs.files) > 1
  /\ flushing' = vs.next_file
  /\ tables' = Put(tables, vs.next_file, EntriesIn(vs.files))
  /\ vs' = [vs EXCEPT !.next_file = @ + 1]
  /\ BeginLogAndApply(Edit(vs.files, {vs.next_file}, {}, {}, {}))
  /\ UNCHANGED <<CURRENT, manifests, logs, pc, openVars, mem, imm, logfile, collect, bg_error,
                 ghostVars, failures>>

-----------------------------------------------------------------------------
(* Crashes.                                                                *)

Down ==
  /\ pc' = "down"
  /\ vs' = NoVersions
  /\ reuse' = FALSE /\ save' = FALSE /\ todo' = {} /\ edit' = NoEdit
  /\ mem' = {} /\ imm' = {} /\ logfile' = 0 /\ flushing' = 0
  /\ apply' = "none" /\ record' = NoEdit /\ collect' = FALSE
  /\ bg_error' = FALSE
  /\ incarnation' = incarnation + 1
  /\ UNCHANGED <<CURRENT, tables, synced, writes, failures>>

(* The process ends, by a crash or because the database is closed; the     *)
(* file system has all that was written.                                   *)
ProcessDies ==
  /\ pc # "down" /\ incarnation < MaxCrashes
  /\ UNCHANGED <<manifests, logs, written>>
  /\ Down

(* Only what was synced was promised to survive this.                      *)
MachineDies ==
  /\ pc # "down" /\ incarnation < MaxCrashes
  /\ \E left \in [DOMAIN manifests -> UNION {LeftOf(manifests[n]) : n \in DOMAIN manifests}] :
       /\ \A n \in DOMAIN manifests : left[n] \in LeftOf(manifests[n])
       /\ manifests' = left
  /\ \E left \in [DOMAIN logs -> UNION {LeftOf(logs[n]) : n \in DOMAIN logs}] :
       /\ \A n \in DOMAIN logs : left[n] \in LeftOf(logs[n])
       /\ logs' = left
  /\ written' = synced
  /\ Down

-----------------------------------------------------------------------------
(* A new directory, or a database that was opened, and closed, before.     *)
Init ==
  /\ \/ TRUE \in NewDatabase /\ CURRENT = 0 /\ manifests = << >> /\ logs = << >>
     \/ /\ FALSE \in NewDatabase
        /\ CURRENT = 2
        /\ manifests = [n \in {2} |->
             Sync(AddRecord(AddRecord(EmptyFile, NoEdit), Edit({}, {}, {3}, {4}, {0})))]
        /\ logs = [n \in {3} |-> EmptyFile]
  /\ tables = << >>
  /\ pc = "down" /\ vs = NoVersions
  /\ reuse = FALSE /\ save = FALSE /\ todo = {} /\ edit = NoEdit
  /\ mem = {} /\ imm = {} /\ logfile = 0 /\ flushing = 0
  /\ apply = "none" /\ record = NoEdit /\ collect = FALSE /\ bg_error = FALSE
  /\ written = {} /\ synced = {} /\ incarnation = 0 /\ writes = 0 /\ failures = 0

Open == NewDB \/ NewDBSetCurrent \/ Recover \/ RecoverLogFile \/ OpenLog \/ OpenSave

LogAndApply ==
  \/ CreateManifest \/ AppendManifest \/ SyncManifest \/ SetCurrentFile
  \/ InstallVersion \/ ManifestFails

Next ==
  \/ Open
  \/ LogAndApply
  \/ DeleteObsoleteFile \/ Collected
  \/ \E sync \in BOOLEAN : Write(sync)
  \/ SwitchMemTable \/ CompactMemTable \/ CompactTables
  \/ ProcessDies \/ MachineDies

Spec == Init /\ [][Next]_vars

-----------------------------------------------------------------------------
(* Properties.                                                             *)

RecoveryTypeOK ==
  /\ pc \in {"down", "newdb", "open", "logs", "save", "up", "failed"}
  /\ apply \in {"none", "create", "append", "sync", "current", "install"}
  /\ \A n \in DOMAIN logs : logs[n].synced \in 0 .. Len(logs[n].records)
  /\ logfile # 0 => logfile \in DOMAIN logs
  /\ Cardinality(imm) <= 1

(* A record was appended to a file that ends in a torn one, which happens  *)
(* only when logs are reused.                                              *)
EndsTorn(file) == \A i \in 1 .. Len(file.records) - 1 : file.records[i].whole
AfterTorn == ~ (\A n \in DOMAIN manifests : EndsTorn(manifests[n])) \/
             ~ (\A n \in DOMAIN logs : EndsTorn(logs[n]))

(* At every moment, in the middle of an Open or of a flush too, the files  *)
(* on disk can be opened: the manifest CURRENT names is there and complete *)
(* enough, and no table it names is missing.  Manifest 1 is left aside:    *)
(* NewDB does not sync it.                                                 *)
CanBeOpened == CURRENT > 1 /\ ~ AfterTorn => Readable

(* What was promised can be recovered at every moment: a crash of the      *)
(* process loses no write that returned, a crash of the machine none that  *)
(* was synced before.                                                     *)
NothingPromisedIsLost ==
  CURRENT # 0 /\ Readable /\ ~ AfterTorn => written \subseteq Recoverable

(* A database that is open holds what could be recovered, and nothing      *)
(* twice: no sequence number is given again while an entry that has it can *)
(* come back from an old log.                                              *)
SequencesUnique ==
  CURRENT # 0 /\ Readable =>
    \A e, f \in Recoverable \cup mem \cup (UNION imm) : e[1] = f[1] => e = f

(* The sequence numbers of an open database start above all it holds.      *)
SequenceIsFresh ==
  pc \in {"save", "up"} =>
    \A e \in mem \cup (UNION imm) \cup EntriesIn(vs.files) : e[1] <= vs.last_sequence

(* Files are created under numbers that no file still needed has: creating *)
(* one truncates a file of that name.                                      *)
NumberIsFresh ==
  pc \in {"logs", "save", "up"} =>
    \A n \in vs.files \cup {flushing} \cup LogsFrom(vs.log_number) \cup {CURRENT} :
      (pc = "logs" /\ n \in todo) \/ n < vs.next_file

(* Recovery and what follows it use no number twice, of a file or of an    *)
(* entry, and write to the log that is there.                              *)
NumbersRight ==
  /\ RecoveryTypeOK
  /\ SequencesUnique
  /\ SequenceIsFresh
  /\ NumberIsFresh

=============================================================================
