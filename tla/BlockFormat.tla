----------------------------- MODULE BlockFormat ----------------------------
(***************************************************************************)
(* How a block of a table is found and read (table/format.cc), from a file *)
(* that may have been cut or changed, through a file descriptor that is    *)
(* kept or opened for each read, or through a mapping (util/env_posix.cc). *)
(*                                                                         *)
(* A file is a sequence of cells.  A block is its contents, a type and a   *)
(* checksum of both, taken to be perfect: it is what it was computed from. *)
(* The footer holds the two handles, where the code has bytes for each     *)
(* number, padding and a magic number.                                     *)
(***************************************************************************)
EXTENDS Naturals, Sequences, SequencesExt

CONSTANTS StoredSizes, DamagedHandles      \* bounds: sizes of a stored block; what a
                                           \* damaged handle may decode to

kNoCompression == 0
kSnappyCompression == 1
kBlockTrailerSize == 5
kEncodedLength == 4
kTableMagicNumber == "magic"

VARIABLES
  block_file, whole,       \* the file; the blocks as they were written
  access, verify_checksums,      \* kept, temporary or mapped; the read option
  reading,                 \* where Open and ReadBlock are; at last ok or the failure
  wanted, contents,        \* the handle; what Read gave
  block_data,              \* result->data
  chunks, owned, open_fds  \* buffers allocated; given to the caller; temporary descriptors

blockVars == <<block_file, whole, access, verify_checksums, reading, wanted, contents,
               block_data, chunks, owned, open_fds>>

-----------------------------------------------------------------------------
(* The file as it was written: metaindex block, index block, footer.       *)

Stored(id, size, type) == [at \in 1 .. size |-> [block |-> id, at |-> at, type |-> type]]

WriteRawBlock(stored, type) ==
  stored \o <<[type |-> type]>>
    \o [i \in 1 .. kBlockTrailerSize - 1 |-> [crc |-> i, of |-> Append(stored, [type |-> type])]]

BlockHandle(offset, size) == [offset |-> offset, size |-> size]

FooterEncodeTo(metaindex_handle, index_handle) ==
  <<[handle |-> metaindex_handle], [handle |-> index_handle], [padding |-> 0],
    [magic |-> kTableMagicNumber]>>

TableFile(blocks) ==
  WriteRawBlock(blocks[1].stored, blocks[1].type) \o WriteRawBlock(blocks[2].stored, blocks[2].type)
    \o FooterEncodeTo(BlockHandle(0, Len(blocks[1].stored)),
                      BlockHandle(Len(blocks[1].stored) + kBlockTrailerSize, Len(blocks[2].stored)))

(* A cell changes into another of its kind, or into nothing meaningful.    *)
Other(cell) ==
  {[bad |-> 0]} \cup
  IF "handle" \in DOMAIN cell THEN {[handle |-> h] : h \in DamagedHandles}
  ELSE IF DOMAIN cell = {"type"} THEN {[type |-> t] : t \in 0 .. 2} ELSE {}

Damaged(file) ==
  {file} \cup {SubSeq(file, 1, n) : n \in 0 .. Len(file) - 1}
         \cup UNION {{ReplaceAt(file, i, c) : c \in Other(file[i])} : i \in DOMAIN file}

-----------------------------------------------------------------------------
(* RandomAccessFile::Read: the cells there are.  A mapping fails unless it *)
(* has them all.                                                           *)
Available(offset, n) == SubSeq(block_file, offset + 1, Min({offset + n, Len(block_file)}))

MmapReadFails(offset, n) == access = "mapped" /\ offset + n > Len(block_file)

FooterDecodeFrom(input) ==
  [ok |-> /\ "magic" \in DOMAIN input[4]
          /\ "handle" \in DOMAIN input[1] /\ "handle" \in DOMAIN input[2],
   index_handle |-> IF "handle" \in DOMAIN input[2] THEN input[2].handle ELSE BlockHandle(0, 0)]

(* Table::Open, up to the index block: its buffer is allocated.            *)
DecodeFooter ==
  /\ reading = "footer"
  /\ IF Len(block_file) < kEncodedLength
     THEN reading' = "corruption" /\ UNCHANGED <<wanted, chunks>>
     ELSE \E failing \in BOOLEAN :
            LET footer == FooterDecodeFrom(Available(Len(block_file) - kEncodedLength, kEncodedLength))
            IN  /\ reading' = IF failing THEN "io error" ELSE IF footer.ok THEN "read" ELSE "corruption"
                /\ wanted' = IF reading' = "read" THEN footer.index_handle ELSE wanted
                /\ chunks' = IF reading' = "read" THEN {"buf"} ELSE {}
  /\ UNCHANGED <<block_file, whole, access, verify_checksums, contents, block_data, owned, open_fds>>

(* A temporary descriptor is opened first, which may fail.                 *)
OpenForRead ==
  /\ reading = "read" /\ access = "temporary" /\ open_fds = 0
  /\ \/ open_fds' = 1 /\ UNCHANGED <<reading, chunks>>
     \/ reading' = "io error" /\ chunks' = {} /\ UNCHANGED open_fds
  /\ UNCHANGED <<block_file, whole, access, verify_checksums, wanted, contents, block_data, owned>>

(* pread, or the mapping, gives cells or fails; the descriptor is closed.  *)
ReadContents ==
  /\ reading = "read" /\ (access = "temporary" => open_fds = 1)
  /\ open_fds' = 0
  /\ \E failing \in BOOLEAN :
       LET n == wanted.size + kBlockTrailerSize
           got == Available(wanted.offset, n)
       IN  IF failing \/ MmapReadFails(wanted.offset, n)
           THEN reading' = "io error" /\ chunks' = {} /\ UNCHANGED contents
           ELSE IF Len(got) # n THEN reading' = "corruption" /\ chunks' = {} /\ UNCHANGED contents
           ELSE reading' = "check" /\ contents' = got /\ UNCHANGED chunks
  /\ UNCHANGED <<block_file, whole, access, verify_checksums, wanted, block_data, owned>>

Body == SubSeq(contents, 1, wanted.size)
ChecksumMatches ==
  \A i \in 1 .. kBlockTrailerSize - 1 :
    contents[wanted.size + 1 + i] = [crc |-> i, of |-> SubSeq(contents, 1, wanted.size + 1)]

(* Mutant: the type is not part of what is checked.                        *)
CheckCrcData ==
  /\ reading = "check"
  /\ IF verify_checksums
          /\ \E i \in 1 .. kBlockTrailerSize - 1 :
               LET cell == contents[wanted.size + 1 + i] IN
               "crc" \notin DOMAIN cell \/ Front(cell.of) # Body
     THEN reading' = "corruption" /\ chunks' = {} ELSE reading' = "switch" /\ UNCHANGED chunks
  /\ UNCHANGED <<block_file, whole, access, verify_checksums, wanted, contents, block_data, owned,
                 open_fds>>

CheckCrc ==
  /\ reading = "check"
  /\ IF verify_checksums /\ ~ ChecksumMatches
     THEN reading' = "corruption" /\ chunks' = {} ELSE reading' = "switch" /\ UNCHANGED chunks
  /\ UNCHANGED <<block_file, whole, access, verify_checksums, wanted, contents, block_data, owned,
                 open_fds>>

Type == LET cell == contents[wanted.size + 1] IN IF "type" \in DOMAIN cell THEN cell.type ELSE 2

(* Mutant: the buffer is forgotten when the contents are elsewhere.        *)
UnusedNone == {}

(* Mapped contents are used where they are; others in their buffer.        *)
Unused == IF access = "mapped" THEN {"buf"} ELSE {}
Uncompressed ==
  /\ reading = "switch" /\ Type = kNoCompression
  /\ block_data' = Body /\ reading' = "ok"
  /\ chunks' = chunks \ Unused
  /\ owned' = IF access = "mapped" THEN {} ELSE {"buf"}
  /\ UNCHANGED <<block_file, whole, access, verify_checksums, wanted, contents, open_fds>>

(* Snappy (external) restores what it compressed; anything else it refuses *)
(* or takes for something else.                                            *)
Restores(cells) == cells # << >> /\ \A i \in DOMAIN cells :
                     "block" \in DOMAIN cells[i] /\ cells[i].type = kSnappyCompression

Snappy ==
  /\ reading = "switch" /\ Type = kSnappyCompression
  /\ IF Restores(Body)
     THEN block_data' = Body /\ reading' = "ok" /\ chunks' = {"ubuf"} /\ owned' = {"ubuf"}
     ELSE \/ block_data' = <<[bad |-> 0]>> /\ reading' = "ok" /\ chunks' = {"ubuf"} /\ owned' = {"ubuf"}
          \/ reading' = "corruption" /\ chunks' = {} /\ UNCHANGED <<block_data, owned>>
  /\ UNCHANGED <<block_file, whole, access, verify_checksums, wanted, contents, open_fds>>

BadType ==
  /\ reading = "switch" /\ Type \notin {kNoCompression, kSnappyCompression}
  /\ reading' = "corruption" /\ chunks' = {}
  /\ UNCHANGED <<block_file, whole, access, verify_checksums, wanted, contents, block_data, owned,
                 open_fds>>

BlockInit ==
  /\ \E sizes \in StoredSizes \X StoredSizes, types \in {0, 1} \X {0, 1} :
       whole = [b \in 1 .. 2 |-> [stored |-> Stored(b, sizes[b], types[b]), type |-> types[b]]]
  /\ block_file \in Damaged(TableFile(whole))
  /\ access \in {"kept", "temporary", "mapped"} /\ verify_checksums \in BOOLEAN
  /\ reading = "footer" /\ wanted = BlockHandle(0, 0) /\ contents = << >> /\ block_data = << >>
  /\ chunks = {} /\ owned = {} /\ open_fds = 0

BlockNext ==
  \/ DecodeFooter \/ OpenForRead \/ ReadContents \/ CheckCrc \/ Uncompressed \/ Snappy \/ BadType

-----------------------------------------------------------------------------
(* A read that checks returns a block as it was written, whatever became   *)
(* of the file and of the handle.                                          *)
VerifiedIsWritten ==
  reading = "ok" /\ verify_checksums => \E b \in 1 .. 2 : block_data = whole[b].stored

(* However a read ends, its buffers are freed or the caller's, none of     *)
(* them both, and no descriptor is left open.                              *)
NothingLeftBehind ==
  reading \in {"ok", "io error", "corruption"} => chunks = owned /\ open_fds = 0

=============================================================================
