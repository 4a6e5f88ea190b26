------------------------------- MODULE Crc32c -------------------------------
(***************************************************************************)
(* The checksum of leveldb's logs and tables (util/crc32c.cc): four lanes  *)
(* of words are advanced by tables and combined at the end.                *)
(*                                                                         *)
(* A word is the set of its bits that are 1, bit 0 the lowest; a byte has  *)
(* bits 0 to 7.  The tables are given by what they hold: the constants of  *)
(* the source are the remainders of a byte advanced by 1, 13, 14, 15 and   *)
(* 16 bytes.                                                               *)
(***************************************************************************)
EXTENDS Naturals, Sequences, SequencesExt

CONSTANTS CrcLengths, CrcSeeds     \* bounds: lengths of the data, and its patterns

VARIABLES
  crc_data, crc_address,   \* the argument data: its bytes, and where it starts modulo 4
  crc_from,                \* the argument crc
  p, l, lanes, crc_result  \* Extend's p (from 0) and l; crc0 to crc3; what it returned

crcVars == <<crc_data, crc_address, crc_from, p, l, lanes, crc_result>>

Xor(a, b) == (a \ b) \cup (b \ a)
ShiftRight(w, n) == {i - n : i \in {j \in w : j >= n}}
ByteOf(w, i) == {j \in 0 .. 7 : j + 8 * i \in w}
kCRC32Xor == 0 .. 31

(* The polynomial 0x82f63b78.                                              *)
Polynomial == {31, 25, 23, 22, 21, 20, 18, 17, 13, 12, 11, 9, 8, 6, 5, 4, 3}
DividedBy(w) == IF 0 \in w THEN Xor(ShiftRight(w, 1), Polynomial) ELSE ShiftRight(w, 1)
ByteRemainder ==
  [b \in SUBSET (0 .. 7) |-> FoldLeft(LAMBDA v, i : DividedBy(v), b, <<1, 2, 3, 4, 5, 6, 7, 8>>)]
AdvanceByte(w) == Xor(ByteRemainder[ByteOf(w, 0)], ShiftRight(w, 8))
Advance(w, bytes) == FoldLeft(LAMBDA v, i : AdvanceByte(v), w, [i \in 1 .. bytes |-> i])
Remainders(bytes) == [b \in SUBSET (0 .. 7) |-> Advance(b, bytes)]

kByteExtensionTable == Remainders(1)
kStrideExtensionTable0 == Remainders(13)
kStrideExtensionTable1 == Remainders(14)
kStrideExtensionTable2 == Remainders(15)
kStrideExtensionTable3 == Remainders(16)

ReadUint32LE(at) == {i \in 0 .. 31 : i % 8 \in crc_data[at + (i \div 8) + 1]}

(* RoundUp<4>(p), at the start of the data.                                *)
RoundUp == (4 - crc_address) % 4

Step1(w, byte) == Xor(kByteExtensionTable[Xor(ByteOf(w, 0), byte)], ShiftRight(w, 8))

Step4(lane, at) ==
  Xor(Xor(Xor(ReadUint32LE(at), kStrideExtensionTable3[ByteOf(lane, 0)]),
          Xor(kStrideExtensionTable2[ByteOf(lane, 1)], kStrideExtensionTable1[ByteOf(lane, 2)])),
      kStrideExtensionTable0[ByteOf(lane, 3)])

Step16 == [s \in 1 .. 4 |-> Step4(lanes[s], p + 4 * (s - 1))]

Step4W(w, lane) ==
  FoldLeft(LAMBDA v, i : Xor(ShiftRight(v, 8), kByteExtensionTable[ByteOf(v, 0)]),
           Xor(lane, w), <<0, 1, 2, 3>>)

Left == Len(crc_data) - p
Aligned == RoundUp > Len(crc_data) \/ p >= RoundUp
Running == crc_result = << >>

-----------------------------------------------------------------------------
(* Extend, a loop's turn at a step.                                        *)

AlignByte ==
  /\ Running /\ ~ Aligned
  /\ l' = Step1(l, crc_data[p + 1]) /\ p' = p + 1
  /\ UNCHANGED <<crc_data, crc_address, crc_from, lanes, crc_result>>

LoadSwath ==
  /\ Running /\ Aligned /\ lanes = << >> /\ Left >= 16
  /\ lanes' = <<Xor(ReadUint32LE(p), l), ReadUint32LE(p + 4),
                ReadUint32LE(p + 8), ReadUint32LE(p + 12)>>
  /\ p' = p + 16
  /\ UNCHANGED <<crc_data, crc_address, crc_from, l, crc_result>>

AdvanceSwath ==
  /\ Running /\ Len(lanes) = 4 /\ Left >= 16
  /\ lanes' = Step16 /\ p' = p + 16
  /\ UNCHANGED <<crc_data, crc_address, crc_from, l, crc_result>>

(* Mutant: the lanes are not exchanged after a word.                       *)
RotatedNot(advanced) == <<advanced>> \o Tail(lanes)

Rotated(advanced) == Append(Tail(lanes), advanced)

AdvanceWord ==
  /\ Running /\ Len(lanes) = 4 /\ Left \in 4 .. 15
  /\ lanes' = Rotated(Step4(lanes[1], p)) /\ p' = p + 4
  /\ UNCHANGED <<crc_data, crc_address, crc_from, l, crc_result>>

Combine ==
  /\ Running /\ Len(lanes) = 4 /\ Left < 4
  /\ l' = FoldLeft(Step4W, {}, lanes) /\ lanes' = <<"combined">>
  /\ UNCHANGED <<crc_data, crc_address, crc_from, p, crc_result>>

Short == (lanes = << >> /\ Left < 16) \/ lanes = <<"combined">>

LastByte ==
  /\ Running /\ Aligned /\ Short /\ Left > 0
  /\ l' = Step1(l, crc_data[p + 1]) /\ p' = p + 1
  /\ UNCHANGED <<crc_data, crc_address, crc_from, lanes, crc_result>>

ReturnCrc ==
  /\ Running /\ Aligned /\ Short /\ Left = 0
  /\ crc_result' = <<Xor(l, kCRC32Xor)>>
  /\ UNCHANGED <<crc_data, crc_address, crc_from, p, l, lanes>>

(* Data whose bytes differ from lane to lane and from word to word.        *)
Pattern(seed, n) == [i \in 1 .. n |-> {b \in 0 .. 7 : (i * i + seed * b * i + b) % 5 < 2}]

CrcInit ==
  /\ crc_data \in {Pattern(seed, n) : seed \in CrcSeeds, n \in CrcLengths}
  /\ crc_address \in 0 .. 3 /\ crc_from \in {{}, Polynomial}
  /\ p = 0 /\ l = Xor(crc_from, kCRC32Xor) /\ lanes = << >> /\ crc_result = << >>

CrcNext ==
  AlignByte \/ LoadSwath \/ AdvanceSwath \/ AdvanceWord \/ Combine \/ LastByte \/ ReturnCrc

-----------------------------------------------------------------------------
(* The definition of the checksum: the data divided, byte after byte.      *)
Reference ==
  Xor(FoldLeft(LAMBDA w, byte : AdvanceByte(Xor(w, byte)), Xor(crc_from, kCRC32Xor), crc_data),
      kCRC32Xor)

(* Extend returns the checksum of the data after what the given crc stands *)
(* for, wherever the data lies in memory and whatever its length leaves to *)
(* the loops over bytes, swaths and words.                                 *)
CrcIsRight == ~ Running => crc_result = <<Reference>>

=============================================================================
