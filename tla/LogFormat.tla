----------------------------- MODULE LogFormat ------------------------------
(***************************************************************************)
(* The format of leveldb's logs and manifests (db/log_writer.cc,           *)
(* db/log_reader.cc): records are cut into fragments that fill blocks, and *)
(* a reader finds the records of a file that was cut short by a crash or   *)
(* damaged.                                                                *)
(*                                                                         *)
(* A file is a sequence of cells, one per byte.  The first cell of a       *)
(* header holds its fields; the checksum is taken to be perfect: it is the *)
(* type and the payload it was computed from.  A payload cell is the       *)
(* number of its record and its place in it.                               *)
(***************************************************************************)
EXTENDS Integers, Sequences, SequencesExt

CONSTANTS kBlockSize,
          RecordSizes, MaxRecords,   \* bounds: sizes of records, and how many are written
          InitialOffsets             \* values of the reader's initial_offset_

kHeaderSize == 7

ASSUME LogAssumption ==
  kBlockSize \in Nat /\ kBlockSize > kHeaderSize /\ RecordSizes \subseteq Nat

kZeroType == 0
kFullType == 1
kFirstType == 2
kMiddleType == 3
kLastType == 4
kEof == 5
kBadRecord == 6

VARIABLES
  dest, block_offset,     \* the file; the writer's place in its block
  appended,               \* what was written: the record, where it starts and ends
  damage,                 \* none, cut (at the end), reused (written to again), flipped, unread
  damaged,                \* where
  log_reader,             \* the fields of Reader; empty before it is constructed
  found, reports          \* the records it returned; corruptions it reported

logFormatVars == <<dest, block_offset, appended, damage, damaged, log_reader, found, reports>>

-----------------------------------------------------------------------------
(* Writer.                                                                 *)

Zeros(n) == [i \in 1 .. n |-> [byte |-> 0]]
Payload(id, size) == [at \in 1 .. size |-> [id |-> id, at |-> at]]

(* EmitPhysicalRecord: a header and a fragment.                            *)
EmitPhysicalRecord(type, fragment) ==
  <<[crc |-> [type |-> type, data |-> fragment], length |-> Len(fragment), type |-> type]>>
    \o [i \in 1 .. kHeaderSize - 1 |-> [byte |-> i]] \o fragment

(* Mutant: whether the record ends is not looked at after its first block. *)
FragmentTypeNoLast(begin, end) ==
  IF ~ begin THEN kMiddleType ELSE IF end THEN kFullType ELSE kFirstType

FragmentType(begin, end) ==
  CASE begin /\ end -> kFullType
    [] begin /\ ~ end -> kFirstType
    [] ~ begin /\ end -> kLastType
    [] OTHER -> kMiddleType

(* Where the next header goes: a trailer has no room for one.              *)
StartOfHeader(offset) == IF kBlockSize - offset < kHeaderSize THEN 0 ELSE offset
Trailer(offset) == IF StartOfHeader(offset) = offset THEN 0 ELSE kBlockSize - offset

(* The cells AddRecord appends and the new block_offset_.  The fragments   *)
(* after the first start a block each.                                     *)
Fragmented(payload, offset) ==
  LET start == StartOfHeader(offset)
      avail == kBlockSize - start - kHeaderSize
      full == kBlockSize - kHeaderSize
      size == Len(payload)
      count == IF size <= avail THEN 1 ELSE 1 + (size - avail + full - 1) \div full
      from(i) == IF i = 1 THEN 0 ELSE avail + (i - 2) * full
      to(i) == IF i = count THEN size ELSE avail + (i - 1) * full
      fragment(i) == EmitPhysicalRecord(FragmentType(i = 1, i = count),
                                        SubSeq(payload, from(i) + 1, to(i)))
  IN  [cells |-> Zeros(Trailer(offset)) \o FlattenSeq([i \in 1 .. count |-> fragment(i)]),
       offset |-> (IF count = 1 THEN start ELSE 0) + kHeaderSize + to(count) - from(count)]

AddRecord(size) ==
  /\ log_reader = << >> /\ damage \in {"none", "reused"}
  /\ Len(appended) < MaxRecords
  /\ LET payload == Payload(Len(appended) + 1, size)
         added == Fragmented(payload, block_offset)
     IN  /\ dest' = dest \o added.cells
         /\ block_offset' = added.offset
         /\ appended' = Append(appended, [data |-> payload,
                                          start |-> Len(dest) + Trailer(block_offset),
                                          end |-> Len(dest) + Len(added.cells)])
  /\ UNCHANGED <<damage, damaged, log_reader, found, reports>>

(* The process dies, and the end of the file is lost.                      *)
CutShort(n) ==
  /\ log_reader = << >> /\ damage = "none" /\ n < Len(dest)
  /\ dest' = SubSeq(dest, 1, n)
  /\ damage' = "cut" /\ damaged' = n
  /\ UNCHANGED <<block_offset, appended, log_reader, found, reports>>

(* With reuse_logs, Writer(dest, dest_length) goes on where the file ends. *)
(* Records that were torn start nowhere from now on.                       *)
Reopen ==
  /\ log_reader = << >> /\ damage = "cut"
  /\ block_offset' = Len(dest) % kBlockSize
  /\ damage' = "reused"
  /\ appended' = [i \in DOMAIN appended |->
                   IF appended[i].end > damaged THEN [appended[i] EXCEPT !.start = -1]
                   ELSE appended[i]]
  /\ UNCHANGED <<dest, damaged, log_reader, found, reports>>

IsHeader(cell) == "crc" \in DOMAIN cell

(* The storage damages a byte.                                             *)
Flip(n) ==
  /\ log_reader = << >> /\ damage = "none"
  /\ \E cell \in IF IsHeader(dest[n])
                 THEN {[dest[n] EXCEPT !.crc.type = kZeroType]}
                        \cup {[dest[n] EXCEPT !.length = m] : m \in {0, 1, kBlockSize}}
                        \cup {[dest[n] EXCEPT !.type = t] : t \in kZeroType .. kLastType}
                 ELSE {[byte |-> kHeaderSize]} :
       cell # dest[n] /\ dest' = [dest EXCEPT ![n] = cell]
  /\ damage' = "flipped" /\ damaged' = n
  /\ UNCHANGED <<block_offset, appended, log_reader, found, reports>>

-----------------------------------------------------------------------------
(* Reader.                                                                 *)

(* Its construction and, in the first ReadRecord, SkipToInitialBlock.      *)
(* When Skip fails nothing is read, nor reported: what ReportDrop is told  *)
(* of begins before the initial offset.                                    *)
NewReader(initial) ==
  LET in_block == initial % kBlockSize
      block == initial - in_block + (IF in_block > kBlockSize - 6 THEN kBlockSize ELSE 0)
      skipped == [initial |-> initial, buffer |-> << >>, end_of_buffer |-> block,
                  eof |-> FALSE, resyncing |-> initial > 0, in_fragmented |-> FALSE,
                  scratch |-> << >>, prospective |-> 0, last |-> 0, done |-> FALSE]
  IN  /\ log_reader = << >>
      /\ \/ log_reader' = skipped /\ UNCHANGED <<damage, damaged>>
         \/ /\ block > 0 /\ damage = "none"
            /\ damage' = "unread" /\ damaged' = 0
            /\ log_reader' = [skipped EXCEPT !.done = TRUE]
      /\ UNCHANGED <<dest, block_offset, appended, found, reports>>

Reading == log_reader # << >> /\ ~ log_reader.done

(* PosixSequentialFile::Read: n bytes from where it is, or what is left.   *)
SequentialRead(from, n) == SubSeq(dest, from + 1, IF from + n < Len(dest) THEN from + n ELSE Len(dest))

(* ReadPhysicalRecord reads the next block.                                *)
ReadBlock ==
  /\ Reading /\ Len(log_reader.buffer) < kHeaderSize /\ ~ log_reader.eof
  /\ LET block == SequentialRead(log_reader.end_of_buffer, kBlockSize)
     IN  log_reader' = [log_reader EXCEPT !.buffer = block,
                          !.end_of_buffer = @ + Len(block), !.eof = Len(block) < kBlockSize]
  /\ UNCHANGED <<dest, block_offset, appended, damage, damaged, found, reports>>

(* The file cannot be read: an error, and the end of the reading.          *)
ReadFails ==
  /\ Reading /\ Len(log_reader.buffer) < kHeaderSize /\ ~ log_reader.eof
  /\ damage = "none"
  /\ damage' = "unread" /\ damaged' = log_reader.end_of_buffer
  /\ reports' = reports + 1
  /\ log_reader' = [log_reader EXCEPT !.buffer = << >>, !.eof = TRUE, !.done = TRUE]
  /\ UNCHANGED <<dest, block_offset, appended, found>>

(* Mutant: the payload is not part of the checksum.                        *)
ChecksumOfType(buffer, fragment) ==
  IsHeader(buffer[1]) /\ buffer[1].crc.type = buffer[1].type

ChecksumHolds(buffer, fragment) ==
  /\ IsHeader(buffer[1])
  /\ buffer[1].crc = [type |-> buffer[1].type, data |-> fragment]
  /\ \A i \in 2 .. kHeaderSize : buffer[i] = [byte |-> i - 1]

(* Mutant: a record cut off by the end of the file is a corruption.        *)
AlwaysBad(eof) == kBadRecord

(* A length that exceeds the buffer: the writer died, or a corruption.     *)
BadLength(eof) == IF eof THEN kEof ELSE kBadRecord

(* What the rest of ReadPhysicalRecord finds in the buffer: a type, a      *)
(* fragment, what is left of the buffer, and the bytes it reports, if any. *)
Physical ==
  LET r == log_reader
      header == r.buffer[1]
      length == IF IsHeader(header) THEN header.length ELSE 0
      fragment == SubSeq(r.buffer, kHeaderSize + 1, kHeaderSize + length)
      rest == SubSeq(r.buffer, kHeaderSize + length + 1, Len(r.buffer))
      result(type, data, left, drop) ==
        [type |-> type, fragment |-> data, buffer |-> left, drop |-> drop]
  IN  IF Len(r.buffer) < kHeaderSize THEN result(kEof, << >>, << >>, {})
      ELSE IF kHeaderSize + length > Len(r.buffer)
      THEN result(BadLength(r.eof), << >>, << >>,
                  IF BadLength(r.eof) = kEof THEN {} ELSE {Len(r.buffer)})
      ELSE IF IsHeader(header) /\ header.type = kZeroType /\ length = 0
      THEN result(kBadRecord, << >>, << >>, {})
      ELSE IF ~ ChecksumHolds(r.buffer, fragment)
      THEN result(kBadRecord, << >>, << >>, {Len(r.buffer)})
      ELSE IF r.end_of_buffer - Len(rest) - kHeaderSize - length < r.initial
      THEN result(kBadRecord, << >>, rest, {})
      ELSE result(header.type, fragment, rest, {})

(* ReportDrop; the unsigned subtraction wraps around.                      *)
Counts(left, bytes) ==
  LET offset == log_reader.end_of_buffer - Len(left) - bytes
  IN  offset >= log_reader.initial \/ offset < 0

(* Mutant: the header is not counted.                                      *)
OffsetWithoutHeader(p) == log_reader.end_of_buffer - Len(p.buffer) - Len(p.fragment)

PhysicalOffset(p) == log_reader.end_of_buffer - Len(p.buffer) - kHeaderSize - Len(p.fragment)

(* One turn of the loop of ReadRecord.                                     *)
ReadRecord ==
  /\ Reading /\ (Len(log_reader.buffer) >= kHeaderSize \/ log_reader.eof)
  /\ LET r == log_reader
         p == Physical
         offset == PhysicalOffset(p)
         skip == r.resyncing /\ p.type \in {kMiddleType, kLastType}
         broken == CASE p.type = kBadRecord -> r.in_fragmented
                     [] p.type \in {kFullType, kFirstType} -> r.in_fragmented /\ r.scratch # << >>
                     [] p.type \in {kMiddleType, kLastType} -> ~ skip /\ ~ r.in_fragmented
                     [] OTHER -> FALSE
         bytes == IF p.type \in {kMiddleType, kLastType} THEN Len(p.fragment) ELSE Len(r.scratch)
         drops == {b \in p.drop : Counts(p.buffer, b)}
         next == [r EXCEPT !.buffer = p.buffer,
                           !.resyncing = @ /\ p.type = kMiddleType]
         return(data, start) ==
           /\ found' = Append(found, data)
           /\ log_reader' = [next EXCEPT !.last = start, !.in_fragmented = FALSE, !.scratch = << >>]
         continue(in, data, start) ==
           /\ log_reader' = [next EXCEPT !.in_fragmented = in, !.scratch = data,
                                         !.prospective = start]
           /\ UNCHANGED found
     IN
     /\ reports' = reports + (IF drops = {} THEN 0 ELSE 1)
                     + (IF broken /\ Counts(p.buffer, bytes) THEN 1 ELSE 0)
     /\ CASE skip -> continue(r.in_fragmented, r.scratch, r.prospective)
          [] p.type = kFullType -> return(p.fragment, offset)
          [] p.type = kFirstType -> continue(TRUE, p.fragment, offset)
          [] p.type = kMiddleType /\ ~ skip ->
               continue(r.in_fragmented, IF r.in_fragmented THEN r.scratch \o p.fragment
                                         ELSE r.scratch, r.prospective)
          [] p.type = kLastType /\ ~ skip /\ r.in_fragmented ->
               return(r.scratch \o p.fragment, r.prospective)
          [] p.type = kLastType /\ ~ skip /\ ~ r.in_fragmented ->
               continue(FALSE, r.scratch, r.prospective)
          [] p.type = kBadRecord -> continue(FALSE, << >>, r.prospective)
          [] p.type = kEof -> /\ log_reader' = [next EXCEPT !.done = TRUE, !.scratch = << >>]
                              /\ UNCHANGED found
  /\ UNCHANGED <<dest, block_offset, appended, damage, damaged>>

-----------------------------------------------------------------------------
LogFormatInit ==
  /\ dest = << >> /\ block_offset = 0 /\ appended = << >>
  /\ damage = "none" /\ damaged = 0
  /\ log_reader = << >> /\ found = << >> /\ reports = 0

LogFormatNext ==
  \/ \E size \in RecordSizes : AddRecord(size)
  \/ \E n \in DOMAIN dest : CutShort(n) \/ Flip(n)
  \/ Reopen
  \/ \E initial \in InitialOffsets : NewReader(initial)
  \/ ReadBlock \/ ReadFails \/ ReadRecord

-----------------------------------------------------------------------------
(* Properties.                                                             *)

(* A reader returns records that were written, in their order, whatever    *)
(* happened to the file: never a part of one, and never two mixed, also    *)
(* where a reused log goes on after a torn record.                         *)
FoundWereAppended ==
  \E ids \in [DOMAIN found -> DOMAIN appended] :
    /\ \A i \in DOMAIN found : found[i] = appended[ids[i]].data
    /\ \A i, j \in DOMAIN found : i < j => ids[i] < ids[j]

Block(n) == n \div kBlockSize

(* The records that must be found, by what happened to the file: those in  *)
(* blocks other than the damaged one, and those before the damage.  What a *)
(* reused log holds in the block of a torn record is lost.                 *)
MustBeFound ==
  LET before(a) == a.end <= damaged
      later(a) == Block(a.start) > Block(damaged)
  IN  {i \in DOMAIN appended :
         LET a == appended[i] IN
         /\ a.start >= log_reader.initial
         /\ CASE damage = "none" -> TRUE
              [] damage = "cut" -> before(a)
              [] damage = "unread" -> before(a)
              [] damage = "flipped" -> a.end < damaged \/ later(a)
              [] damage = "reused" -> before(a) \/ later(a)}

NothingElseIsLost ==
  log_reader # << >> /\ log_reader.done =>
    \A i \in MustBeFound : \E j \in DOMAIN found : found[j] = appended[i].data

(* The end a crash leaves is not reported as a corruption; with            *)
(* paranoid_checks that would keep the database from being opened.  (From  *)
(* an initial offset within a record, which the database never asks for,   *)
(* the rest of that record can be reported.)                               *)
CrashIsNotCorruption ==
  damage \in {"none", "cut"} /\ reports > 0 => log_reader.initial > 0

(* LastRecordOffset says where the last record that was returned starts.   *)
OffsetIsRight ==
  damage \in {"none", "cut"} /\ found # << >> =>
    \E i \in DOMAIN appended :
      appended[i].data = Last(found) /\ appended[i].start = log_reader.last

(* What is read from a log: only what was written, in order, all of it that*)
(* the damage did not reach, and no report of corruption for what a crash  *)
(* leaves (log::Reader::ReadRecord).                                       *)
RecordsReadBack ==
  /\ FoundWereAppended
  /\ NothingElseIsLost
  /\ CrashIsNotCorruption
  /\ OffsetIsRight

=============================================================================
