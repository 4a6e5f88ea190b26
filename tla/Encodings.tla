----------------------------- MODULE Encodings ------------------------------
(***************************************************************************)
(* How leveldb writes numbers, strings, version edits, write batches and   *)
(* file names as bytes, and reads them back: util/coding.cc,               *)
(* db/version_edit.cc, db/write_batch.cc, db/filename.cc.                  *)
(*                                                                         *)
(* A byte is a number below 2 * Radix (Radix is 128 in the code), an       *)
(* internal key is a sequence of bytes.  A reader returns whether it       *)
(* succeeded, the value, and the input that is left.                       *)
(***************************************************************************)
EXTENDS Naturals, Sequences, FiniteSets, SequencesExt

CONSTANTS Radix,                \* values of a byte's payload
          Bytes32, Max32,       \* bytes a varint32 may have; 2^32
          Bytes64, Max64,       \* the same for a varint64
          kNumLevels,
          PadWidth,             \* digits a file number is padded to
          Numbers, Keys, MaxFields, MaxOps      \* bounds

ASSUME EncodingsAssumption ==
  /\ Radix \in Nat \ {0, 1} /\ Max32 <= Max64
  /\ Radix ^ Bytes32 >= Max32 /\ Radix ^ Bytes64 >= Max64
  /\ Numbers \subseteq 0 .. Max64 - 1
  /\ \A k \in Keys : k \in Seq(0 .. 2 * Radix - 1)

-----------------------------------------------------------------------------
(* util/coding.cc                                                          *)

Failed == [ok |-> FALSE, value |-> 0, rest |-> << >>]
Got(value, rest) == [ok |-> TRUE, value |-> value, rest |-> rest]

VarintLength(v) == CHOOSE n \in 1 .. Bytes64 : /\ v < Radix ^ n
                                               /\ n = 1 \/ v >= Radix ^ (n - 1)

(* Seven bits in each byte, the low ones first; all but the last marked.   *)
EncodeVarint(v) ==
  [i \in 1 .. VarintLength(v) |->
     ((v \div Radix ^ (i - 1)) % Radix) + (IF i < VarintLength(v) THEN Radix ELSE 0)]

Sum(f, n) == FoldLeft(LAMBDA sum, i : sum + f[i], 0, [i \in 1 .. n |-> i])

(* The first unmarked byte ends a varint, if it comes within the limit.    *)
GetVarint(input, bytes, max) ==
  LET ends == {i \in 1 .. bytes : i <= Len(input) /\ input[i] < Radix}
      last == CHOOSE i \in ends : \A j \in ends : i <= j
  IN  IF ends = {} THEN Failed
      ELSE Got(Sum([i \in 1 .. last |-> (input[i] % Radix) * Radix ^ (i - 1)], last) % max,
               SubSeq(input, last + 1, Len(input)))

GetVarint32(input) == GetVarint(input, Bytes32, Max32)
GetVarint64(input) == GetVarint(input, Bytes64, Max64)

PutLengthPrefixedSlice(value) == EncodeVarint(Len(value)) \o value

(* Mutant: nothing says that so many bytes are left.                       *)
GetLengthPrefixedSliceUnchecked(input) ==
  LET n == GetVarint32(input)
      end == IF n.value <= Len(n.rest) THEN n.value ELSE Len(n.rest)
  IN  IF ~ n.ok THEN Failed
      ELSE Got(SubSeq(n.rest, 1, end), SubSeq(n.rest, end + 1, Len(n.rest)))

TakeBytes(n) ==
  IF ~ n.ok \/ Len(n.rest) < n.value THEN Failed
  ELSE Got(SubSeq(n.rest, 1, n.value), SubSeq(n.rest, n.value + 1, Len(n.rest)))

GetLengthPrefixedSlice(input) == TakeBytes(GetVarint32(input))

(* Reads with one reader after another; the value is the sequence of       *)
(* theirs.                                                                 *)
GetAll(readers, input) ==
  LET level(l) == IF l.ok /\ l.value < kNumLevels THEN l ELSE Failed
      read(r, name) ==
        CASE name = "varint32" -> GetVarint32(r) [] name = "varint64" -> GetVarint64(r)
          [] name = "slice" -> GetLengthPrefixedSlice(r)
          [] name = "level" -> level(GetVarint32(r))
      add(state, got) ==
        IF ~ state.ok \/ ~ got.ok THEN Failed ELSE Got(Append(state.value, got.value), got.rest)
      step(state, name) == add(state, read(state.rest, name))
  IN  FoldLeft(step, Got(<< >>, input), readers)

-----------------------------------------------------------------------------
(* db/version_edit.cc.  A field that may be absent is a set.               *)

ClearedEdit ==
  [comparator |-> {}, log_number |-> {}, prev_log_number |-> {}, next_file_number |-> {},
   last_sequence |-> {}, compact_pointers |-> << >>, deleted_files |-> {}, new_files |-> << >>]

Tag == [comparator |-> 1, log_number |-> 2, next_file_number |-> 3, last_sequence |-> 4,
        compact_pointers |-> 5, deleted_files |-> 6, new_files |-> 7, prev_log_number |-> 9]

NumberFields == <<"log_number", "prev_log_number", "next_file_number", "last_sequence">>

(* What follows each tag.                                                  *)
Layout == [comparator |-> <<"slice">>, log_number |-> <<"varint64">>,
           prev_log_number |-> <<"varint64">>, next_file_number |-> <<"varint64">>,
           last_sequence |-> <<"varint64">>, compact_pointers |-> <<"level", "slice">>,
           deleted_files |-> <<"level", "varint64">>,
           new_files |-> <<"level", "varint64", "varint64", "slice", "slice">>]

EncodeField(name, values) ==
  EncodeVarint(Tag[name]) \o
    FlattenSeq([i \in DOMAIN values |-> IF Layout[name][i] = "slice"
                                        THEN PutLengthPrefixedSlice(values[i])
                                        ELSE EncodeVarint(values[i])])

EncodeTo(e) ==
  LET optional(name) == SetToSeq({EncodeField(name, <<v>>) : v \in e[name]})
      each(name, list) == [i \in DOMAIN list |-> EncodeField(name, list[i])]
  IN  FlattenSeq(optional("comparator")
                   \o FlattenSeq([i \in DOMAIN NumberFields |-> optional(NumberFields[i])])
                   \o each("compact_pointers", e.compact_pointers)
                   \o each("deleted_files", SetToSeq(e.deleted_files))
                   \o each("new_files", e.new_files))

(* Mutant: the edit keeps what a field had.                                *)
WithFieldOnce(e, name, v) ==
  IF name \in {"compact_pointers", "new_files"} THEN [e EXCEPT ![name] = <<v>>]
  ELSE IF name = "deleted_files" THEN [e EXCEPT ![name] = @ \cup {v}]
  ELSE [e EXCEPT ![name] = {v[1]}]

WithField(e, name, v) ==
  IF name \in {"compact_pointers", "new_files"} THEN [e EXCEPT ![name] = Append(@, v)]
  ELSE IF name = "deleted_files" THEN [e EXCEPT ![name] = @ \cup {v}]
  ELSE [e EXCEPT ![name] = {v[1]}]

(* DecodeFrom, one tag at a time, until the input is used up or wrong.     *)
DecodeFrom(src) ==
  LET add(state, name, fields) ==
        IF fields.ok THEN Got(WithField(state.value, name, fields.value), fields.rest)
        ELSE [state EXCEPT !.ok = FALSE]
      read(state, tag) ==
        LET names == {n \in DOMAIN Tag : Tag[n] = tag.value}
            name == CHOOSE n \in names : TRUE
        IN  IF ~ tag.ok \/ names = {} THEN [state EXCEPT !.ok = FALSE]
            ELSE add(state, name, GetAll(Layout[name], tag.rest))
      step(state, i) ==
        IF ~ state.ok \/ state.rest = << >> THEN state ELSE read(state, GetVarint32(state.rest))
  IN  FoldLeft(step, Got(ClearedEdit, src), [i \in 1 .. Len(src) |-> i])

-----------------------------------------------------------------------------
(* db/write_batch.cc.  The header's two numbers are fields.                *)

kTypeDeletion == 0
kTypeValue == 1

ClearedBatch == [sequence |-> 0, count |-> 0, rep |-> << >>]

PutTo(b, key, value) ==
  [b EXCEPT !.count = @ + 1, !.rep = @ \o <<kTypeValue>> \o PutLengthPrefixedSlice(key)
                                       \o PutLengthPrefixedSlice(value)]

DeleteFrom(b, key) ==
  [b EXCEPT !.count = @ + 1, !.rep = @ \o <<kTypeDeletion>> \o PutLengthPrefixedSlice(key)]

(* Mutant: the counts are not added.                                       *)
AppendBatchNoCount(dst, src) == [dst EXCEPT !.rep = @ \o src.rep]

AppendBatch(dst, src) == [dst EXCEPT !.count = @ + src.count, !.rep = @ \o src.rep]

(* Iterate with MemTableInserter: what it adds to the memtable, up to the  *)
(* end or to an error.                                                     *)
InsertInto(b) ==
  LET add(state, tag, got) ==
        LET entry == [seq |-> b.sequence + Len(state.value), type |-> tag, fields |-> got.value]
        IN  IF tag \notin {kTypeValue, kTypeDeletion} \/ ~ got.ok
            THEN [state EXCEPT !.ok = FALSE]
            ELSE Got(Append(state.value, entry), got.rest)
      step(state, i) ==
        IF ~ state.ok \/ state.rest = << >> THEN state
        ELSE add(state, Head(state.rest),
                 GetAll(IF Head(state.rest) = kTypeValue THEN <<"slice", "slice">> ELSE <<"slice">>,
                        Tail(state.rest)))
      counted(all) == [all EXCEPT !.ok = @ /\ Len(all.value) = b.count]
  IN  counted(FoldLeft(step, Got(<< >>, b.rep), [i \in 1 .. Len(b.rep) |-> i]))

-----------------------------------------------------------------------------
(* db/filename.cc, util/logging.cc.  A name is text, decimal digits and    *)
(* text.                                                                   *)

Digits(n) ==
  LET length == CHOOSE k \in 1 .. 9 : n < 10 ^ k /\ (k = 1 \/ n >= 10 ^ (k - 1))
      width == IF length < PadWidth THEN PadWidth ELSE length
  IN  [i \in 1 .. width |-> (n \div 10 ^ (width - i)) % 10]

FileTypes == {"log", "table", "descriptor", "temp"}

FileName(type, number) ==
  [before |-> IF type = "descriptor" THEN "MANIFEST-" ELSE "",
   digits |-> Digits(number),
   after |-> CASE type = "log" -> ".log" [] type = "table" -> ".ldb"
               [] type = "temp" -> ".dbtmp" [] type = "descriptor" -> ""]

(* Mutant: the overflow check allows one more digit.                       *)
ConsumeDecimalNumberWraps(digits) ==
  LET step(state, d) ==
        IF ~ state.ok \/ state.value > (Max64 - 1) \div 10 THEN Failed
        ELSE Got((state.value * 10 + d) % Max64, << >>)
  IN  IF digits = << >> THEN Failed ELSE FoldLeft(step, Got(0, << >>), digits)

(* No digits at all, or a number that does not fit, is not a number.       *)
ConsumeDecimalNumber(digits) ==
  LET step(state, d) ==
        IF ~ state.ok \/ state.value > (Max64 - 1) \div 10
             \/ (state.value = (Max64 - 1) \div 10 /\ d > (Max64 - 1) % 10)
        THEN Failed ELSE Got(state.value * 10 + d, << >>)
  IN  IF digits = << >> THEN Failed ELSE FoldLeft(step, Got(0, << >>), digits)

Suffix == [log |-> {".log"}, table |-> {".sst", ".ldb"}, temp |-> {".dbtmp"}]

(* The type and number a name stands for, or nothing.                      *)
ParseFileName(name) ==
  LET number == ConsumeDecimalNumber(name.digits)
      types == IF name.before = "MANIFEST-"
               THEN IF name.after = "" THEN {"descriptor"} ELSE {}
               ELSE {t \in DOMAIN Suffix : name.before = "" /\ name.after \in Suffix[t]}
  IN  IF number.ok THEN {[type |-> t, number |-> number.value] : t \in types} ELSE {}

-----------------------------------------------------------------------------
(* Edits and batches are built by calls, and a directory holds any name.   *)
VARIABLES edit, batch, ops, second, name

encodingVars == <<edit, batch, ops, second, name>>

SetNumber(field, n) ==
  /\ edit' = [edit EXCEPT ![field] = {n}]
  /\ UNCHANGED <<batch, ops, second, name>>

SetComparatorName(s) ==
  /\ edit' = [edit EXCEPT !.comparator = {s}]
  /\ UNCHANGED <<batch, ops, second, name>>

SetCompactPointer(level, key) ==
  /\ edit' = [edit EXCEPT !.compact_pointers = Append(@, <<level, key>>)]
  /\ UNCHANGED <<batch, ops, second, name>>

AddFile(level, number, size, smallest, largest) ==
  /\ edit' = [edit EXCEPT !.new_files = Append(@, <<level, number, size, smallest, largest>>)]
  /\ UNCHANGED <<batch, ops, second, name>>

DeleteFile(level, number) ==
  /\ edit' = [edit EXCEPT !.deleted_files = @ \cup {<<level, number>>}]
  /\ UNCHANGED <<batch, ops, second, name>>

(* A call on the first or on the second batch.                             *)
OnBatch(b, op) ==
  IF Len(op) = 2 THEN PutTo(b, op[1], op[2]) ELSE DeleteFrom(b, op[1])

CallBatch(op) ==
  /\ Len(ops) < MaxOps
  /\ \/ second = ClearedBatch /\ batch' = OnBatch(batch, op) /\ UNCHANGED second
     \/ second' = OnBatch(second, op) /\ UNCHANGED batch
  /\ ops' = Append(ops, op)
  /\ UNCHANGED <<edit, name>>

(* The leader of a group appends another's batch to its own.               *)
AppendSecond ==
  /\ second # ClearedBatch
  /\ batch' = AppendBatch(batch, second)
  /\ second' = ClearedBatch
  /\ UNCHANGED <<edit, ops, name>>

AnyName(before, digits, after) ==
  /\ name' = [before |-> before, digits |-> digits, after |-> after]
  /\ UNCHANGED <<edit, batch, ops, second>>

EncodingsInit ==
  /\ edit = ClearedEdit /\ batch = ClearedBatch /\ second = ClearedBatch
  /\ ops = << >> /\ name = FileName("log", 0)

(* One of the three at a time.                                             *)
NoName == name = FileName("log", 0)
EditSize ==
  Cardinality({f \in DOMAIN edit : f \notin {"compact_pointers", "new_files"} /\ edit[f] # {}})
    + Len(edit.compact_pointers) + Len(edit.new_files)

EditNext ==
  /\ NoName /\ ops = << >> /\ EditSize < MaxFields
  /\ \/ \E n \in Numbers, f \in Range(NumberFields) : edit[f] = {} /\ SetNumber(f, n)
     \/ \E s \in Keys : edit.comparator = {} /\ SetComparatorName(s)
     \/ \E l \in {0, kNumLevels - 1}, k \in Keys : SetCompactPointer(l, k)
     \/ \E l \in {0, kNumLevels - 1}, n \in Numbers : DeleteFile(l, n)
     \/ \E n \in Numbers, k1, k2 \in Keys : AddFile(kNumLevels - 1, n, n, k1, k2)

BatchNext ==
  /\ NoName /\ edit = ClearedEdit
  /\ \/ \E k \in Keys : CallBatch(<<k>>) \/ \E v \in Keys : CallBatch(<<k, v>>)
     \/ AppendSecond

NameNext ==
  /\ NoName /\ ops = << >> /\ edit = ClearedEdit
  /\ \E before \in {"", "MANIFEST-"}, after \in {"", ".log", ".sst", ".ldb", ".dbtmp", ".txt"} :
       \E n \in 0 .. PadWidth + 1 : \E digits \in [1 .. n -> {0, 1, 2, 7, 8}] :
         AnyName(before, digits, after)

EncodingsNext == EditNext \/ BatchNext \/ NameNext

-----------------------------------------------------------------------------
(* Properties.                                                             *)

(* An edit written to the manifest is read back as it was.                 *)
EditReadsBack == DecodeFrom(EncodeTo(edit)) = Got(edit, << >>)

(* A part of an edit is refused, or is an edit that says less: it never    *)
(* names a file, a level or a number the edit does not.                    *)
PartSaysLess ==
  LET bytes == EncodeTo(edit) IN
  \A n \in 0 .. Len(bytes) :
    LET got == DecodeFrom(SubSeq(bytes, 1, n)) IN
    got.ok => \A f \in DOMAIN edit :
      IF f \in {"compact_pointers", "new_files"} THEN IsPrefix(got.value[f], edit[f])
      ELSE got.value[f] \subseteq edit[f]

(* A batch, with another appended, goes into the memtable as the calls     *)
(* were made, under consecutive sequence numbers; a part of it is an       *)
(* error, wherever it is cut.                                              *)
BatchReplays ==
  LET all == AppendBatch(batch, second)
      got == InsertInto(all)
  IN  /\ got.ok
      /\ [i \in DOMAIN got.value |-> got.value[i].fields] = ops
      /\ \A i \in DOMAIN ops : /\ got.value[i].seq = i - 1
                               /\ (got.value[i].type = kTypeValue) <=> (Len(ops[i]) = 2)
      /\ \A n \in 0 .. Len(all.rep) - 1 :
           LET part == InsertInto([all EXCEPT !.rep = SubSeq(@, 1, n)])
           IN  ~ part.ok /\ IsPrefix(part.value, got.value)

(* The name of a file that leveldb creates stands for that file alone, and *)
(* no other name in the directory is taken for one: DeleteObsoleteFiles    *)
(* deletes by these numbers.                                               *)
NamesAreRight ==
  LET value == FoldLeft(LAMBDA v, d : v * 10 + d, 0, name.digits)
      parsed == ParseFileName(name)
  IN  /\ \A p \in parsed : p.number = value
      /\ \A t \in FileTypes : value < Max64 => ParseFileName(FileName(t, value)) =
                                                 {[type |-> t, number |-> value]}
      /\ value < Max64 /\ name.digits # << >> /\ name.before = "" /\ name.after = ".log" =>
           parsed = {[type |-> "log", number |-> value]}

(* Edits, batches and file names are read as they were written, and a part *)
(* of one is an error or says less (VersionEdit::DecodeFrom,               *)
(* WriteBatch::Iterate, ParseFileName).                                    *)
CodingIsRight ==
  /\ EditReadsBack
  /\ PartSaysLess
  /\ BatchReplays
  /\ NamesAreRight

=============================================================================
