------------------------------ MODULE MCFiles ------------------------------
(* The formats and the small data structures of leveldb, and base64, for   *)
(* TLC: each behaviour is one of a single part, the others stay as they    *)
(* begin.                                                                  *)
EXTENDS LogFormat, Encodings, Tables, Repair, Crc32c, Base64, CBinding, BlockFormat,
        DirectorySync, Arena, SkipList

VARIABLE part

MCEditKeys == {<< >>, <<7>>}

MCTableKeys == {<< >>, <<0, 1>>, <<0, 1, 2>>, <<1>>, <<1, 1>>, <<1, 2>>, <<2>>, <<2, 2>>}
MCHash ==
  [k \in MCTableKeys |-> (Len(k) * 37 + (IF k = << >> THEN 5 ELSE k[1] * 11)
                          + (IF Len(k) > 1 THEN k[2] * 101 ELSE 0)) % 256]

MCSources == {<< >>, <<0>>, <<255>>, <<93, 1>>, <<0, 0, 0>>, <<255, 254, 77>>, <<1, 2, 3, 16>>,
              <<200, 100, 50, 25, 12>>}
MCSlackSizes == {-3, -1, 0, 1}
MCDecodeSizes == {-1, 0, 1}

MCDamagedHandles == [offset : {0, 6, 7, 8}, size : {0, 1, 2, 9}]

filesVars == <<part, logFormatVars, encodingVars, tableVars, orderVars, repairVars, crcVars,
               base64Vars, cVars, blockVars, dirVars, arenaVars, listVars>>

LogPart ==
  /\ part = "log" /\ LogFormatNext
  /\ UNCHANGED <<part, encodingVars, tableVars, orderVars, repairVars, crcVars, base64Vars, cVars,
                 blockVars, dirVars, arenaVars, listVars>>
EncodingsPart ==
  /\ part = "encodings" /\ EncodingsNext
  /\ UNCHANGED <<part, logFormatVars, tableVars, orderVars, repairVars, crcVars, base64Vars, cVars,
                 blockVars, dirVars, arenaVars, listVars>>
TablesPart ==
  /\ part = "tables" /\ TablesNext
  /\ UNCHANGED <<part, logFormatVars, encodingVars, orderVars, repairVars, crcVars, base64Vars,
                 cVars, blockVars, dirVars, arenaVars, listVars>>
OrderPart ==
  /\ part = "order" /\ Divide
  /\ UNCHANGED <<part, logFormatVars, encodingVars, tableVars, repairVars, crcVars, base64Vars,
                 cVars, blockVars, dirVars, arenaVars, listVars>>
RepairPart ==
  /\ part = "repair" /\ RepairNext
  /\ UNCHANGED <<part, logFormatVars, encodingVars, tableVars, orderVars, crcVars, base64Vars,
                 cVars, blockVars, dirVars, arenaVars, listVars>>
CrcPart ==
  /\ part = "crc" /\ CrcNext
  /\ UNCHANGED <<part, logFormatVars, encodingVars, tableVars, orderVars, repairVars, base64Vars,
                 cVars, blockVars, dirVars, arenaVars, listVars>>
Base64Part ==
  /\ part = "base64" /\ Base64Next
  /\ UNCHANGED <<part, logFormatVars, encodingVars, tableVars, orderVars, repairVars, crcVars,
                 cVars, blockVars, dirVars, arenaVars, listVars>>
CPart ==
  /\ part = "c" /\ CNext
  /\ UNCHANGED <<part, logFormatVars, encodingVars, tableVars, orderVars, repairVars, crcVars,
                 base64Vars, blockVars, dirVars, arenaVars, listVars>>
BlockPart ==
  /\ part = "block" /\ BlockNext
  /\ UNCHANGED <<part, logFormatVars, encodingVars, tableVars, orderVars, repairVars, crcVars,
                 base64Vars, cVars, dirVars, arenaVars, listVars>>
DirPart ==
  /\ part = "directory" /\ DirNext
  /\ UNCHANGED <<part, logFormatVars, encodingVars, tableVars, orderVars, repairVars, crcVars,
                 base64Vars, cVars, blockVars, arenaVars, listVars>>
ArenaPart ==
  /\ part = "arena" /\ ArenaNext
  /\ UNCHANGED <<part, logFormatVars, encodingVars, tableVars, orderVars, repairVars, crcVars,
                 base64Vars, cVars, blockVars, dirVars, listVars>>
SkipListPart ==
  /\ part = "skiplist" /\ ListNext
  /\ UNCHANGED <<part, logFormatVars, encodingVars, tableVars, orderVars, repairVars, crcVars,
                 base64Vars, cVars, blockVars, dirVars, arenaVars>>

(* The parts with several initial states have one of them when another     *)
(* part runs.                                                              *)
OrderBegins ==
  IF part = "order" THEN OrderInit
  ELSE lower = IKey(<< >>, 1, 1) /\ upper = {} /\ divider = {}
RepairBegins ==
  IF part = "repair" THEN RepairInit
  ELSE /\ directory = << >> /\ sound = {} /\ archived = {} /\ repairing = "start"
       /\ logs_ = {} /\ table_numbers_ = {} /\ tables_ = {} /\ next_file_number_ = 1
       /\ current = 0 /\ descriptor = {} /\ repair_crashes = 0 /\ repair_error = FALSE
CrcBegins ==
  IF part = "crc" THEN CrcInit
  ELSE /\ crc_data = << >> /\ crc_address = 0 /\ crc_from = {}
       /\ p = 0 /\ l = {} /\ lanes = << >> /\ crc_result = << >>
Base64Begins ==
  IF part = "base64" THEN Base64Init
  ELSE /\ src = << >> /\ targsize = 0 /\ chars = << >> /\ spot = 0 /\ target = << >>
       /\ b64state = 0 /\ b64phase = "encode"
BlockBegins ==
  IF part = "block" THEN BlockInit
  ELSE /\ whole = << >> /\ block_file = << >> /\ access = "kept" /\ verify_checksums = TRUE
       /\ reading = "footer" /\ wanted = BlockHandle(0, 0) /\ contents = << >>
       /\ block_data = << >> /\ chunks = {} /\ owned = {} /\ open_fds = 0

FilesInit ==
  /\ part \in {"log", "encodings", "tables", "order", "repair", "crc", "base64", "c", "block",
               "directory", "arena", "skiplist"}
  /\ OrderBegins /\ RepairBegins /\ CrcBegins /\ Base64Begins /\ BlockBegins
  /\ LogFormatInit /\ EncodingsInit /\ TablesInit /\ CInit /\ DirInit /\ ArenaInit
  /\ ListInit

FilesNext ==
  \/ LogPart \/ EncodingsPart \/ TablesPart \/ OrderPart \/ RepairPart \/ CrcPart
  \/ Base64Part \/ CPart \/ BlockPart \/ DirPart \/ ArenaPart \/ SkipListPart

FilesSpec == FilesInit /\ [][FilesNext]_filesVars

(* A table answers lookups and scans by what was put into it, at every edge*)
(* of a block, and a block that cannot be verified is an error that leaves *)
(* nothing behind (table/*.cc).                                            *)
TablesRight ==
  /\ IteratorIsRight
  /\ NothingSkippedSilently
  /\ GetFindsKey
  /\ IndexSeparates
  /\ LookupsGoRight
  /\ VerifiedIsWritten
  /\ NothingLeftBehind

(* Wherever the machine or a repair is stopped, the disk holds what a      *)
(* database can be opened from, but for a table overtaken by its edit (see *)
(* StoppedCanOpen), and after a repair all that was whole (LogAndApply,    *)
(* SetCurrentFile, Repairer).                                              *)
DiskCanBeOpened ==
  /\ StoppedCanOpen
  /\ RepairKeepsEntries
  /\ DescriptorCovers

(* Checksums and base64 do not depend on how the data lies and is cut, and *)
(* memory is owned by one side: the C interface, the pieces of an arena,   *)
(* the targets of base64 (crc32c::Extend, fbase64.c, c.cc, arena.cc).      *)
UtilitiesRight ==
  /\ CrcIsRight
  /\ DecodedIsText
  /\ WithinTarget
  /\ HeapIsOwned
  /\ PiecesApart

=============================================================================
