----------------------------- MODULE MCWriters ------------------------------
(* Three threads: a synced write, a batch of two, and one that asks for    *)
(* the memtable to be compacted, in a database found with level 0 full or  *)
(* empty and a compaction of a deeper level due or not.                    *)
EXTENDS DBWriters

MCBatch == [a |-> <<[count |-> 1, sync |-> TRUE]>>,
            b |-> <<[count |-> 2, sync |-> FALSE]>>,
            c |-> <<[count |-> 0, sync |-> FALSE]>>]

=============================================================================
