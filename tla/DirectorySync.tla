---------------------------- MODULE DirectorySync ----------------------------
(***************************************************************************)
(* What the file system keeps when the machine stops (util/env_posix.cc,   *)
(* util/env.cc): a file's contents are durable once its descriptor is      *)
(* synced, its name once the directory is, which happens only when a       *)
(* manifest is.  Tables are written, named by an edit of the manifest, and *)
(* removed by another; each opening writes a new manifest and CURRENT.     *)
(*                                                                         *)
(* A file system is assumed to keep the order of its changes to a          *)
(* directory (a journal does): after a stop the directory is as it was     *)
(* after one of them, no earlier than the last one that was synced.  Of a  *)
(* file the part that was synced is left, and the rest if the system has   *)
(* written it back on its own, which it may do with a record of a manifest *)
(* too: AddRecord flushes it to the system before Sync begins.             *)
(***************************************************************************)
EXTENDS Naturals, Sequences, SequencesExt, FiniteSets

CONSTANTS MaxFile, MaxStops        \* bounds: numbers given to files; stops of the machine

VARIABLES
  names, unsynced,       \* the directory; what it was since it was last synced
  inodes,                \* a file: what was written, and how much of it is synced
  env_step,              \* where the process is
  descriptor_number, next_number,
  live_tables,           \* the tables of the current version
  stops,
  overtaken              \* history: the table an edit adds that was on the disk before
                         \* the directory was synced for it

dirVars == <<names, unsynced, inodes, env_step, descriptor_number, next_number, live_tables, stops,
             overtaken>>

Current == <<"CURRENT", 0>>
Temp(n) == <<"dbtmp", n>>
Manifest(n) == <<"MANIFEST", n>>
TableName(n) == <<"ldb", n>>

Exists(d, f) == f \in DOMAIN d
Data(d, f) == inodes[d[f]].data

(* Every change of the directory is one that a stop may leave it at.       *)
Directory(d) == names' = d /\ unsynced' = Append(unsynced, d)
Entry(f, i) == [g \in DOMAIN names \cup {f} |-> IF g = f THEN i ELSE names[g]]
NoEntries(S) == [g \in DOMAIN names \ S |-> names[g]]

NewWritableFile(f) ==
  /\ Directory(Entry(f, Len(inodes) + 1))
  /\ inodes' = Append(inodes, [data |-> << >>, synced |-> 0])
Written(f, record) == [inodes EXCEPT ![names[f]].data = Append(@, record)]
SyncFd(f) == inodes' = [inodes EXCEPT ![names[f]].synced = Len(inodes[names[f]].data)]

RenameFile(from, to) ==
  Directory([g \in (DOMAIN names \cup {to}) \ {from} |-> IF g = to THEN names[from] ELSE names[g]])
DeleteFiles(S) == Directory(NoEntries(S))

(* Mutant: the directory is left to be synced by the file system.          *)
SyncDirIfManifestNot == UNCHANGED <<names, unsynced>>

SyncDirIfManifest == unsynced' = <<names>> /\ UNCHANGED names

Goes(from, to) == env_step = from /\ env_step' = to

-----------------------------------------------------------------------------
(* A table is written and synced, then an edit of the manifest adds it and *)
(* removes another, then the other is deleted.                             *)

CreateTable ==
  /\ Goes("idle", "table") /\ next_number <= MaxFile
  /\ NewWritableFile(TableName(next_number))
  /\ UNCHANGED <<descriptor_number, next_number, live_tables, stops, overtaken>>

WriteTable ==
  /\ env_step = "table" /\ inodes[names[TableName(next_number)]].data = << >>
  /\ inodes' = Written(TableName(next_number), "entries")
  /\ UNCHANGED <<names, unsynced, env_step, descriptor_number, next_number, live_tables, stops,
                 overtaken>>

SyncTable ==
  /\ Goes("table", "edit") /\ inodes[names[TableName(next_number)]].data # << >>
  /\ SyncFd(TableName(next_number))
  /\ UNCHANGED <<names, unsynced, descriptor_number, next_number, live_tables, stops, overtaken>>

AppendEdit(removed) ==
  /\ Goes("edit", "edit_dir") /\ removed \subseteq live_tables
  /\ inodes' = Written(Manifest(descriptor_number), (live_tables \cup {next_number}) \ removed)
  /\ live_tables' = (live_tables \cup {next_number}) \ removed /\ next_number' = next_number + 1
  /\ UNCHANGED <<names, unsynced, descriptor_number, stops, overtaken>>

(* Sync of a manifest: first its directory, then its descriptor.           *)
SyncManifestDir ==
  /\ Goes("edit_dir", "edit_fd") \/ Goes("new_dir", "new_fd")
  /\ SyncDirIfManifest
  /\ UNCHANGED <<inodes, descriptor_number, next_number, live_tables, stops, overtaken>>

SyncManifestFd ==
  /\ Goes("edit_fd", "obsolete") \/ Goes("new_fd", "temp")
  /\ SyncFd(Manifest(descriptor_number))
  /\ UNCHANGED <<names, unsynced, descriptor_number, next_number, live_tables, stops, overtaken>>

Obsolete ==
  {f \in DOMAIN names : \/ f[1] = "ldb" /\ f[2] \notin live_tables
                        \/ f[1] = "MANIFEST" /\ f[2] < descriptor_number
                        \/ f[1] = "dbtmp"}

(* The files go one after another, in the order of the listing.            *)
DeleteObsoleteFile(f) ==
  /\ env_step = "obsolete" /\ f \in Obsolete
  /\ DeleteFiles({f})
  /\ UNCHANGED <<inodes, env_step, descriptor_number, next_number, live_tables, stops, overtaken>>

AllDeleted ==
  /\ Goes("obsolete", "idle") /\ Obsolete = {}
  /\ UNCHANGED <<names, unsynced, inodes, descriptor_number, next_number, live_tables, stops,
                 overtaken>>

-----------------------------------------------------------------------------
(* Opening: CURRENT names the manifest whose last edit gives the version;  *)
(* a new manifest begins with it and CURRENT is replaced.  It is refused   *)
(* when a table of the version is missing.                                 *)

ManifestOf(d) == Manifest(Last(Data(d, Current)))
Readable(d) ==
  /\ Exists(d, Current) /\ Data(d, Current) # << >>
  /\ Exists(d, ManifestOf(d)) /\ Data(d, ManifestOf(d)) # << >>

Recover ==
  /\ Goes("stopped", "new") /\ Readable(names) /\ next_number <= MaxFile
  /\ live_tables' = Last(Data(names, ManifestOf(names)))
  /\ \A t \in live_tables' : Exists(names, TableName(t))
  /\ descriptor_number' = next_number /\ next_number' = next_number + 1
  /\ UNCHANGED <<names, unsynced, inodes, stops, overtaken>>

CreateManifest ==
  /\ Goes("new", "snapshot")
  /\ NewWritableFile(Manifest(descriptor_number))
  /\ UNCHANGED <<descriptor_number, next_number, live_tables, stops, overtaken>>

WriteSnapshot ==
  /\ Goes("snapshot", "new_dir")
  /\ inodes' = Written(Manifest(descriptor_number), live_tables)
  /\ UNCHANGED <<names, unsynced, descriptor_number, next_number, live_tables, stops, overtaken>>

(* SetCurrentFile: WriteStringToFileSync and RenameFile.                   *)
CreateTemp ==
  /\ Goes("temp", "temp_write")
  /\ NewWritableFile(Temp(descriptor_number))
  /\ UNCHANGED <<descriptor_number, next_number, live_tables, stops, overtaken>>

WriteTemp ==
  /\ Goes("temp_write", "temp_sync")
  /\ inodes' = Written(Temp(descriptor_number), descriptor_number)
  /\ UNCHANGED <<names, unsynced, descriptor_number, next_number, live_tables, stops, overtaken>>

SyncTemp ==
  /\ Goes("temp_sync", "rename")
  /\ SyncFd(Temp(descriptor_number))
  /\ UNCHANGED <<names, unsynced, descriptor_number, next_number, live_tables, stops, overtaken>>

RenameTemp ==
  /\ Goes("rename", "obsolete")
  /\ RenameFile(Temp(descriptor_number), Current)
  /\ UNCHANGED <<inodes, descriptor_number, next_number, live_tables, stops, overtaken>>

-----------------------------------------------------------------------------
(* Files with a record that was not synced; there is one at most.          *)
Dirty == {n \in DOMAIN inodes : inodes[n].synced < Len(inodes[n].data)}

(* The machine stops: names that were not synced may be gone, and so may   *)
(* contents, except those of the files written back early.                 *)
Stop(i, early) ==
  /\ env_step # "stopped" /\ stops < MaxStops
  /\ names' = unsynced[i] /\ unsynced' = <<unsynced[i]>>
  /\ inodes' = [n \in DOMAIN inodes |->
                  LET length == IF n \in early THEN Len(inodes[n].data) ELSE inodes[n].synced
                  IN  [data |-> SubSeq(inodes[n].data, 1, length), synced |-> length]]
  /\ overtaken' = IF env_step = "edit_dir" /\ names[Manifest(descriptor_number)] \in early
                  THEN {next_number - 1} ELSE {}
  /\ env_step' = "stopped" /\ stops' = stops + 1
  /\ UNCHANGED <<descriptor_number, next_number, live_tables>>

(* A database with one manifest, which names no table.                     *)
DirInit ==
  /\ names = [f \in {Current, Manifest(1)} |-> IF f = Current THEN 1 ELSE 2]
  /\ unsynced = <<names>>
  /\ inodes = <<[data |-> <<1>>, synced |-> 1], [data |-> <<{}>>, synced |-> 1]>>
  /\ env_step = "idle" /\ descriptor_number = 1 /\ next_number = 2 /\ live_tables = {} /\ stops = 0
  /\ overtaken = {}

DirNext ==
  \/ CreateTable \/ WriteTable \/ SyncTable
  \/ \E removed \in SUBSET live_tables : AppendEdit(removed)
  \/ SyncManifestDir \/ SyncManifestFd
  \/ \E f \in DOMAIN names : DeleteObsoleteFile(f)
  \/ AllDeleted
  \/ Recover \/ CreateManifest \/ WriteSnapshot
  \/ CreateTemp \/ WriteTemp \/ SyncTemp \/ RenameTemp
  \/ \E i \in DOMAIN unsynced : \E early \in SUBSET Dirty : Stop(i, early)

-----------------------------------------------------------------------------
(* Properties.                                                             *)

(* CURRENT names a manifest that is there wherever the machine stopped,    *)
(* and every table of the version it describes is there with its contents  *)
(* ("avoid crashing in a state where the manifest refers to files that are *)
(* not yet on disk", env_posix.cc).  The one exception is the table of an  *)
(* edit that the system wrote back before the directory was synced for it, *)
(* which Sync comes too late to prevent: that table's name may be missing. *)
StoppedCanOpen ==
  env_step = "stopped" =>
    /\ Readable(names)
    /\ \A t \in Last(Data(names, ManifestOf(names))) :
         \/ Exists(names, TableName(t)) /\ Data(names, TableName(t)) = <<"entries">>
         \/ ~ Exists(names, TableName(t)) /\ t \in overtaken

=============================================================================
