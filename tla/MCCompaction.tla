---------------------------- MODULE MCCompaction ----------------------------
(* Two keys, four levels and tables of at most two entries, starting from  *)
(* databases with data at several levels.                                  *)
EXTENDS DBCompaction

MCMaxBytes == <<3, 4, 100>>

Put(k, s) == InternalKey(k, s, kTypeValue)
Del(k, s) == InternalKey(k, s, kTypeDeletion)

(* An older value below a deletion, and a file waiting at level 0.         *)
Layered == [tables |-> <<{Put(1, 1), Put(2, 2)}, {Del(2, 3)}, {Put(1, 4)}>>,
            level |-> <<2, 1, 0>>, last_sequence |-> 4]

(* A snapshot, released since, made a compaction keep two entries of key 2 *)
(* and close its output between them.                                      *)
Split == [tables |-> <<{Put(1, 1), Del(2, 3)}, {Put(2, 2)}>>,
          level |-> <<2, 2>>, last_sequence |-> 3]

(* Two files of one level with a gap between them, above an older entry:   *)
(* at level 1, and at level 0.                                             *)
DeepGap == [tables |-> <<{Put(1, 1)}, {Put(1, 2)}, {Put(3, 3)}>>,
            level |-> <<2, 1, 1>>, last_sequence |-> 3]
TopGap == [tables |-> <<{Put(2, 1)}, {Put(1, 2)}, {Put(3, 3)}>>,
           level |-> <<2, 0, 0>>, last_sequence |-> 3]

MCGaps == {DeepGap, TopGap}

MCRecovered == {Layered, Split}

=============================================================================
