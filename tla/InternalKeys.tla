---------------------------- MODULE InternalKeys ----------------------------
(***************************************************************************)
(* leveldb's internal keys (db/dbformat.h, db/dbformat.cc): a user key, a  *)
(* sequence number and a type.  User keys are positive integers, which     *)
(* keep nothing of the bytes but their order.  The value of an entry is    *)
(* not kept: its sequence number tells which write it comes from.          *)
(***************************************************************************)
EXTENDS Integers

CONSTANT kMaxSequenceNumber

kTypeDeletion == 0
kTypeValue == 1

(* The type to seek with: the highest, since tags sort downwards.          *)
kValueTypeForSeek == kTypeValue

InternalKey(k, s, t) == [key |-> k, seq |-> s, type |-> t]

PackSequenceAndType(e) == e.seq * 256 + e.type

(* InternalKeyComparator: user keys upwards, tags downwards.               *)
Less(a, b) ==
  a.key < b.key \/ (a.key = b.key /\ PackSequenceAndType(a) > PackSequenceAndType(b))

LookupKey(k, s) == InternalKey(k, s, kValueTypeForSeek)

(* The first internal key of a user key.                                   *)
Earliest(k) == LookupKey(k, kMaxSequenceNumber)

(* The entry of a sorted table that Seek finds, as a set of at most one.   *)
Seek(entries, target) ==
  {e \in entries : /\ ~ Less(e, target)
                   /\ \A f \in entries : Less(f, e) => Less(f, target)}

(* The entry a lookup came to counts if it is one of the user key.         *)
SaveValue(k, found) == {e \in found : e.key = k}

(* What MemTable::Get and Table::InternalGet with SaveValue find.          *)
Find(entries, k, s) == SaveValue(k, Seek(entries, LookupKey(k, s)))

=============================================================================
