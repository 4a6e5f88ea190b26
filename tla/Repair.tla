------------------------------- MODULE Repair -------------------------------
(***************************************************************************)
(* RepairDB (db/repair.cc): logs are turned into tables, every table is    *)
(* scanned and a descriptor is written that holds them all in level 0.     *)
(* The process may stop anywhere and the repair be run again.              *)
(*                                                                         *)
(* The directory gives for a number a log or a table.  An entry is its     *)
(* sequence number.  Of a damaged file only a part can be read: readable.  *)
(* Directories are listed in any order.                                    *)
(***************************************************************************)
EXTENDS Naturals, FiniteSets, FiniteSetsExt

CONSTANTS RepairNumbers,           \* numbers of the files that are found
          RepairEntries,           \* their entries
          MaxNumber,               \* bound: file numbers used
          MaxRepairCrashes         \* bound: times the repair is stopped

VARIABLES
  directory,       \* the files, by number
  archived,        \* the entries of files moved to lost/
  repairing,       \* where Run is
  logs_, table_numbers_, tables_, next_file_number_,   \* fields of Repairer
  current,         \* the file ConvertLogToTable or RepairTable is at
  descriptor,      \* the descriptor that CURRENT names, or nothing
  sound,           \* entries of files that were whole when repair began
  repair_crashes, repair_error   \* stops; whether a write has failed

repairVars == <<directory, archived, repairing, logs_, table_numbers_, tables_,
                next_file_number_, current, descriptor, sound, repair_crashes, repair_error>>

File(kind, entries, readable, whole) ==
  [kind |-> kind, entries |-> entries, readable |-> readable, whole |-> whole]
NumbersOf(kind) == {n \in DOMAIN directory : directory[n].kind = kind}
With(n, f) == [m \in DOMAIN directory \cup {n} |-> IF m = n THEN f ELSE directory[m]]
Without(n) == [m \in DOMAIN directory \ {n} |-> directory[m]]

(* Mutant: the next number is the greatest that is in use.                 *)
NumberInUse == Max(DOMAIN directory)

NumberAfterAll == Max(DOMAIN directory) + 1

FindFiles ==
  /\ repairing = "start" /\ DOMAIN directory # {}
  /\ next_file_number_' = NumberAfterAll
  /\ logs_' = NumbersOf("log") /\ table_numbers_' = NumbersOf("table")
  /\ tables_' = {} /\ repairing' = "logs"
  /\ UNCHANGED <<directory, archived, current, descriptor, sound, repair_crashes, repair_error>>

(* What can be read of a log becomes a table; an error is ignored.         *)
ConvertLogToTable(l) ==
  /\ repairing = "logs" /\ l \in logs_ /\ next_file_number_ <= MaxNumber
  /\ current' = l /\ repairing' = "archive_log"
  /\ next_file_number_' = next_file_number_ + 1
  /\ LET n == next_file_number_
         read == directory[l].readable
     IN  \/ /\ read # {} /\ directory' = With(n, File("table", read, read, TRUE))
            /\ table_numbers_' = table_numbers_ \cup {n} /\ UNCHANGED repair_error
         \/ read = {} /\ UNCHANGED <<directory, table_numbers_, repair_error>>
         \/ repair_error' = TRUE /\ UNCHANGED <<directory, table_numbers_>>
  /\ UNCHANGED <<archived, logs_, tables_, descriptor, sound, repair_crashes>>

Archive(n) == archived' = archived \cup directory[n].entries

(* The log is moved away, converted or not.                                *)
ArchiveLog ==
  /\ repairing = "archive_log"
  /\ Archive(current) /\ directory' = Without(current)
  /\ logs_' = logs_ \ {current} /\ repairing' = "logs"
  /\ UNCHANGED <<table_numbers_, tables_, next_file_number_, current, descriptor, sound,
                 repair_crashes, repair_error>>

ExtractMetaData ==
  /\ repairing = "logs" /\ logs_ = {} /\ repairing' = "tables"
  /\ UNCHANGED <<directory, archived, logs_, table_numbers_, tables_, next_file_number_, current,
                 descriptor, sound, repair_crashes, repair_error>>

TableInfo(n, readable) ==
  [number |-> n, entries |-> readable, max_sequence |-> IF readable = {} THEN 0 ELSE Max(readable)]

(* A table that can be read to its end is taken as it is; of another a     *)
(* copy is begun, and if that fails the table is left where it is.         *)
ScanTable(n) ==
  /\ repairing = "tables" /\ n \in table_numbers_
  /\ IF directory[n].whole
     THEN /\ tables_' = tables_ \cup {TableInfo(n, directory[n].readable)}
          /\ table_numbers_' = table_numbers_ \ {n}
          /\ UNCHANGED <<directory, next_file_number_, repairing, current>>
          /\ UNCHANGED repair_error
     ELSE /\ next_file_number_ <= MaxNumber
          /\ next_file_number_' = next_file_number_ + 1
          /\ \/ /\ directory' = With(next_file_number_,
                                  File("table", directory[n].readable, {}, FALSE))
                /\ repairing' = "archive_table" /\ current' = n
                /\ UNCHANGED <<table_numbers_, repair_error>>
             \/ /\ table_numbers_' = table_numbers_ \ {n} /\ repair_error' = TRUE
                /\ UNCHANGED <<directory, repairing, current>>
          /\ UNCHANGED tables_
  /\ UNCHANGED <<archived, logs_, descriptor, sound, repair_crashes>>

Copy == next_file_number_ - 1

ArchiveTable ==
  /\ repairing = "archive_table"
  /\ Archive(current) /\ directory' = Without(current)
  /\ repairing' = "finish_copy"
  /\ UNCHANGED <<logs_, table_numbers_, tables_, next_file_number_, current, descriptor, sound,
                 repair_crashes, repair_error>>

(* The copy is finished and renamed, or abandoned when nothing was read or *)
(* a write failed.  An abandoned copy of nothing stays, empty.             *)
FinishCopy ==
  /\ repairing = "finish_copy"
  /\ LET read == directory[Copy].entries IN
     \/ /\ read # {}
        /\ directory' = [m \in (DOMAIN directory \ {Copy}) \cup {current} |->
                           IF m = current THEN File("table", read, read, TRUE) ELSE directory[m]]
        /\ tables_' = tables_ \cup {TableInfo(current, read)} /\ UNCHANGED repair_error
     \/ read = {} /\ UNCHANGED <<directory, tables_, repair_error>>
     \/ directory' = Without(Copy) /\ repair_error' = TRUE /\ UNCHANGED tables_
  /\ table_numbers_' = table_numbers_ \ {current} /\ repairing' = "tables"
  /\ UNCHANGED <<archived, logs_, next_file_number_, current, descriptor, sound, repair_crashes>>

(* Mutant: the last sequence is that of any one table.                     *)
LastSequenceOfOne == CHOOSE s \in {t.max_sequence : t \in tables_} \cup {0} : s > 0

LastSequence == Max({t.max_sequence : t \in tables_} \cup {0})

(* The descriptor is written as a temporary file, older ones are moved     *)
(* away, and then it is installed: until then there is none, nor when the  *)
(* renaming to it or to CURRENT fails.                                     *)
WriteDescriptor ==
  /\ repairing = "tables" /\ table_numbers_ = {}
  /\ \/ repairing' = "install" /\ descriptor' = {} /\ UNCHANGED repair_error
     \/ repairing' = "failed" /\ repair_error' = TRUE /\ UNCHANGED descriptor
  /\ UNCHANGED <<directory, archived, logs_, table_numbers_, tables_, next_file_number_, current,
                 sound, repair_crashes>>

InstallDescriptor ==
  /\ repairing = "install"
  /\ \/ /\ descriptor' = {[next_file |-> next_file_number_, last_sequence |-> LastSequence,
                           level0 |-> tables_]}
        /\ repairing' = "done" /\ UNCHANGED repair_error
     \/ repairing' = "failed" /\ repair_error' = TRUE /\ UNCHANGED descriptor
  /\ UNCHANGED <<directory, archived, logs_, table_numbers_, tables_, next_file_number_, current,
                 sound, repair_crashes>>

(* The process stops and RepairDB is called again.                         *)
StopRepair ==
  /\ repairing \notin {"start", "done"} /\ repair_crashes < MaxRepairCrashes
  /\ repair_crashes' = repair_crashes + 1
  /\ repairing' = "start" /\ logs_' = {} /\ table_numbers_' = {} /\ tables_' = {}
  /\ next_file_number_' = 1 /\ current' = 0
  /\ UNCHANGED <<directory, archived, descriptor, sound, repair_error>>

-----------------------------------------------------------------------------
(* Files of both kinds, each with some entries and whole or damaged.       *)
RepairInit ==
  /\ \E where \in [RepairEntries -> RepairNumbers], logs, damaged \in SUBSET RepairNumbers,
        kept \in SUBSET RepairEntries :
       directory = [n \in RepairNumbers |->
         LET entries == {e \in RepairEntries : where[e] = n} IN
         File(IF n \in logs THEN "log" ELSE "table", entries,
              IF n \in damaged THEN entries \cap kept ELSE entries, n \notin damaged)]
  /\ \A n \in RepairNumbers : directory[n].kind = "log" \/ directory[n].entries # {}
  /\ sound = UNION {directory[n].entries : n \in {m \in RepairNumbers : directory[m].whole}}
  /\ archived = {} /\ repairing = "start"
  /\ logs_ = {} /\ table_numbers_ = {} /\ tables_ = {} /\ next_file_number_ = 1 /\ current = 0
  /\ descriptor = {} /\ repair_crashes = 0 /\ repair_error = FALSE

RepairNext ==
  \/ FindFiles \/ ArchiveLog \/ ExtractMetaData \/ ArchiveTable \/ FinishCopy
  \/ \E n \in DOMAIN directory : ConvertLogToTable(n) \/ ScanTable(n)
  \/ WriteDescriptor \/ InstallDescriptor \/ StopRepair

-----------------------------------------------------------------------------
(* Properties.                                                             *)

(* Whatever a whole file held is always in a file that can be read, in the *)
(* middle of a repair and after it was stopped, and nothing at all is ever *)
(* deleted: it is in the directory or in lost/ (ArchiveFile).              *)
RepairKeepsEntries ==
  LET present == UNION {directory[n].readable : n \in DOMAIN directory} IN
  /\ ~ repair_error => sound \subseteq present
  /\ sound \subseteq present \cup archived

(* The descriptor that is installed holds every entry of a whole file, and *)
(* a database opened with it reuses neither a file's number nor a sequence *)
(* number.                                                                 *)
DescriptorCovers ==
  repairing = "done" => \A d \in descriptor :
    /\ ~ repair_error => sound \subseteq UNION {t.entries : t \in d.level0}
    /\ \A t \in d.level0 : t.number \in DOMAIN directory
                           /\ \A e \in t.entries : e <= d.last_sequence
    /\ \A n \in DOMAIN directory : n < d.next_file

=============================================================================
