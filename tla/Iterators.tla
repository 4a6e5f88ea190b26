------------------------------ MODULE Iterators ------------------------------
(***************************************************************************)
(* How leveldb reads the database in order: MergingIterator merges the     *)
(* iterators of the memtable and the tables (table/merger.cc), and DBIter  *)
(* shows of the entries what a snapshot sees (db/db_iter.cc).  The         *)
(* memtable, child 1, grows while it is read: a write may come between any *)
(* two turns of DBIter's loops.                                            *)
(*                                                                         *)
(* A child's position is the entry it is at, as a set of at most one.  The *)
(* value of an entry is its sequence number.                               *)
(***************************************************************************)
EXTENDS InternalKeys, FiniteSets

CONSTANTS UserKeys, NumChildren,
          MaxSequence,             \* bound: entries written before the iterator
          MaxLateWrites            \* bound: entries written while it is in use

ASSUME IteratorsAssumption ==
  /\ UserKeys \subseteq Nat \ {0} /\ NumChildren \in Nat \ {0}
  /\ MaxSequence \in Nat \ {0} /\ MaxLateWrites \in Nat

(* A tag with a type the reader does not know.                             *)
kTypeUnknown == 2

VARIABLES
  children,      \* the entries of each child
  sequence_,     \* the snapshot
  merging,       \* the MergingIterator
  dbiter,        \* the DBIter
  turn,          \* the loop DBIter is in, or "user"
  value_type, skipping,   \* locals of the loops
  expected,      \* the entry the iterator should stand at, or nothing
  scan           \* whether the iterator has only moved on from the first entry

iteratorVars ==
  <<children, sequence_, merging, dbiter, turn, value_type, skipping, expected, scan>>

Children == 1 .. NumChildren

-----------------------------------------------------------------------------
(* A child, behind an IteratorWrapper.                                     *)

After(i, e) == {f \in children[i] : Less(e, f) /\ \A g \in children[i] : Less(e, g) => ~ Less(g, f)}
Before(i, e) == {f \in children[i] : Less(f, e) /\ \A g \in children[i] : Less(g, e) => ~ Less(f, g)}
First(i) == {f \in children[i] : \A g \in children[i] : ~ Less(g, f)}
Final(i) == {f \in children[i] : \A g \in children[i] : ~ Less(f, g)}

-----------------------------------------------------------------------------
(* table/merger.cc                                                         *)

Only(S) == CHOOSE e \in S : TRUE
MergingValid(m) == m.current # 0
MergingKey(m) == Only(m.at[m.current])

(* Of equal keys FindSmallest takes the first child and FindLargest the    *)
(* last.                                                                   *)
FindSmallest(at) ==
  LET valid == {i \in Children : at[i] # {}} IN
  IF valid = {} THEN 0
  ELSE CHOOSE i \in valid : \A j \in valid \ {i} :
         IF j < i THEN Less(Only(at[i]), Only(at[j])) ELSE ~ Less(Only(at[j]), Only(at[i]))

FindLargest(at) ==
  LET valid == {i \in Children : at[i] # {}} IN
  IF valid = {} THEN 0
  ELSE CHOOSE i \in valid : \A j \in valid \ {i} :
         IF j > i THEN Less(Only(at[j]), Only(at[i])) ELSE ~ Less(Only(at[i]), Only(at[j]))

Forward(at) == [at |-> at, current |-> FindSmallest(at), direction |-> "forward"]
Backward(at) == [at |-> at, current |-> FindLargest(at), direction |-> "reverse"]

MergingSeekToFirst == Forward([i \in Children |-> First(i)])
MergingSeekToLast == Backward([i \in Children |-> Final(i)])
MergingSeek(target) == Forward([i \in Children |-> Seek(children[i], target)])

(* Mutant: the other children stay where the other direction left them.    *)
MergingNextNoSwitch(m) ==
  Forward([m.at EXCEPT ![m.current] = After(m.current, MergingKey(m))])

(* When the direction changes, every other child is first put after, or    *)
(* before, the current key.                                                *)
MergingNext(m) ==
  LET key == MergingKey(m)
      past(i) == LET s == Seek(children[i], key) IN IF s = {key} THEN After(i, key) ELSE s
  IN  Forward([i \in Children |->
        IF i = m.current THEN After(i, key)
        ELSE IF m.direction = "forward" THEN m.at[i] ELSE past(i)])

MergingPrev(m) ==
  LET key == MergingKey(m)
      ahead(i) == LET s == Seek(children[i], key) IN
                  IF s # {} THEN Before(i, Only(s)) ELSE Final(i)
  IN  Backward([i \in Children |->
        IF i = m.current THEN Before(i, key)
        ELSE IF m.direction = "reverse" THEN m.at[i] ELSE ahead(i)])

-----------------------------------------------------------------------------
(* What the snapshot shows: of each user key its newest entry that can be  *)
(* read and is not newer than the snapshot, if that is a value.            *)

Seen == {e \in UNION {children[i] : i \in Children} :
           e.seq <= sequence_ /\ e.type # kTypeUnknown}
Visible == {e \in Seen : e.type = kTypeValue
                         /\ \A f \in Seen : f.key = e.key => f.seq <= e.seq}
Lowest(S) == {e \in S : \A f \in S : e.key <= f.key}
Highest(S) == {e \in S : \A f \in S : f.key <= e.key}

-----------------------------------------------------------------------------
(* db/db_iter.cc.  saved_key is a set of at most one user key.             *)

Key == IF dbiter.direction = "forward" THEN MergingKey(merging).key ELSE Only(dbiter.saved_key)
Value == IF dbiter.direction = "forward" THEN MergingKey(merging).seq ELSE dbiter.saved_value

(* Mutant: an entry that cannot be parsed is skipped without a word.       *)
ParseKeySilent(it, e) == it

ParseKey(it, e) == IF e.type = kTypeUnknown THEN [it EXCEPT !.ok = FALSE] ELSE it

Shown(e) == e.type # kTypeUnknown /\ e.seq <= sequence_

(* FindNextUserEntry begins when the internal iterator is valid.           *)
BeginFindNext(it, m, skip) ==
  /\ merging' = m /\ skipping' = skip
  /\ dbiter' = IF MergingValid(m) THEN it ELSE [it EXCEPT !.valid = FALSE]
  /\ turn' = IF MergingValid(m) THEN "find_next" ELSE "user"

DBSeekToFirst ==
  /\ turn = "user"
  /\ BeginFindNext([dbiter EXCEPT !.direction = "forward"], MergingSeekToFirst, FALSE)
  /\ expected' = Lowest(Visible) /\ scan' = TRUE
  /\ UNCHANGED <<children, sequence_, value_type>>

DBSeek(k) ==
  /\ turn = "user"
  /\ BeginFindNext([dbiter EXCEPT !.direction = "forward", !.saved_key = {k}],
                   MergingSeek(LookupKey(k, sequence_)), FALSE)
  /\ expected' = Lowest({e \in Visible : k <= e.key}) /\ scan' = FALSE
  /\ UNCHANGED <<children, sequence_, value_type>>

DBNext ==
  /\ turn = "user" /\ dbiter.valid
  /\ IF dbiter.direction = "reverse"
     THEN LET m == IF MergingValid(merging) THEN MergingNext(merging) ELSE MergingSeekToFirst
              it == [dbiter EXCEPT !.direction = "forward"]
          IN  BeginFindNext(IF MergingValid(m) THEN it ELSE [it EXCEPT !.saved_key = {}], m, TRUE)
     ELSE BeginFindNext([dbiter EXCEPT !.saved_key = {Key}], merging, TRUE)
  /\ expected' = Lowest({e \in Visible : Key < e.key}) /\ UNCHANGED scan
  /\ UNCHANGED <<children, sequence_, value_type>>

(* One turn of FindNextUserEntry.                                          *)
FindNextUserEntry ==
  /\ turn = "find_next"
  /\ LET e == MergingKey(merging)
         it == ParseKey(dbiter, e)
         deleted == Shown(e) /\ e.type = kTypeDeletion
         hidden == skipping /\ e.key <= Only(dbiter.saved_key)
         saved == IF deleted THEN {e.key} ELSE dbiter.saved_key
         m == MergingNext(merging)
     IN  IF Shown(e) /\ e.type = kTypeValue /\ ~ hidden
         THEN /\ dbiter' = [it EXCEPT !.valid = TRUE, !.saved_key = {}]
              /\ turn' = "user" /\ UNCHANGED <<merging, skipping>>
         ELSE /\ merging' = m /\ skipping' = (skipping \/ deleted)
              /\ dbiter' = IF MergingValid(m) THEN [it EXCEPT !.saved_key = saved]
                           ELSE [it EXCEPT !.valid = FALSE, !.saved_key = {}]
              /\ turn' = IF MergingValid(m) THEN turn ELSE "user"
  /\ UNCHANGED <<children, sequence_, value_type, expected, scan>>

(* The first loop of Prev when the iterator was moving forwards.           *)
DBPrev ==
  /\ turn = "user" /\ dbiter.valid
  /\ IF dbiter.direction = "forward"
     THEN /\ dbiter' = [dbiter EXCEPT !.saved_key = {Key}]
          /\ turn' = "to_reverse" /\ UNCHANGED value_type
     ELSE /\ turn' = "find_prev" /\ value_type' = kTypeDeletion /\ UNCHANGED dbiter
  /\ expected' = Highest({e \in Visible : e.key < Key}) /\ scan' = FALSE
  /\ UNCHANGED <<children, sequence_, merging, skipping>>

TurnBack ==
  /\ turn = "to_reverse"
  /\ LET m == MergingPrev(merging) IN
     /\ merging' = m
     /\ IF ~ MergingValid(m)
        THEN /\ dbiter' = [dbiter EXCEPT !.valid = FALSE, !.saved_key = {}]
             /\ turn' = "user" /\ UNCHANGED value_type
        ELSE IF MergingKey(m).key < Only(dbiter.saved_key)
        THEN /\ dbiter' = [dbiter EXCEPT !.direction = "reverse"]
             /\ turn' = "find_prev" /\ value_type' = kTypeDeletion
        ELSE UNCHANGED <<dbiter, turn, value_type>>
  /\ UNCHANGED <<children, sequence_, skipping, expected, scan>>

DBSeekToLast ==
  /\ turn = "user"
  /\ dbiter' = [dbiter EXCEPT !.direction = "reverse"]
  /\ merging' = MergingSeekToLast
  /\ turn' = "find_prev" /\ value_type' = kTypeDeletion
  /\ expected' = Highest(Visible) /\ scan' = FALSE
  /\ UNCHANGED <<children, sequence_, skipping>>

(* The end of FindPrevUserEntry: nothing, or the value saved last.         *)
FoundPrev(it) ==
  IF value_type = kTypeDeletion
  THEN [it EXCEPT !.valid = FALSE, !.saved_key = {}, !.direction = "forward"]
  ELSE [it EXCEPT !.valid = TRUE]

(* One turn of FindPrevUserEntry, which saves the newest value of a key it *)
(* has passed and stops at the next key.                                   *)
FindPrevUserEntry ==
  /\ turn = "find_prev"
  /\ IF ~ MergingValid(merging)
     THEN dbiter' = FoundPrev(dbiter) /\ turn' = "user" /\ UNCHANGED <<merging, value_type>>
     ELSE LET e == MergingKey(merging)
              it == ParseKey(dbiter, e)
          IN  IF Shown(e) /\ value_type # kTypeDeletion /\ e.key < Only(dbiter.saved_key)
              THEN dbiter' = FoundPrev(it) /\ turn' = "user" /\ UNCHANGED <<merging, value_type>>
              ELSE /\ merging' = MergingPrev(merging) /\ UNCHANGED turn
                   /\ value_type' = IF Shown(e) THEN e.type ELSE value_type
                   /\ dbiter' = IF ~ Shown(e) THEN it
                                ELSE IF e.type = kTypeDeletion THEN [it EXCEPT !.saved_key = {}]
                                ELSE [it EXCEPT !.saved_key = {e.key}, !.saved_value = e.seq]
  /\ UNCHANGED <<children, sequence_, skipping, expected, scan>>

-----------------------------------------------------------------------------
(* A write that is made while the iterator is in use.                      *)
LateWrite(k, type) ==
  LET newest == {e.seq : e \in UNION {children[i] : i \in Children}}
      last == CHOOSE s \in newest \cup {MaxSequence} : \A t \in newest : t <= s
  IN  /\ last < MaxSequence + MaxLateWrites
      /\ children' = [children EXCEPT ![1] = @ \cup {InternalKey(k, last + 1, type)}]
      /\ UNCHANGED <<sequence_, merging, dbiter, turn, value_type, skipping, expected, scan>>

(* NewIterator, over any entries the database may hold: of two entries of  *)
(* a key the newer one is in the child of the lower number, and only those *)
(* of tables may be damaged.                                               *)
Layouts ==
  {f \in [1 .. MaxSequence -> [key : UserKeys, child : Children,
                               type : {kTypeDeletion, kTypeValue, kTypeUnknown}]] :
     /\ \A s, t \in 1 .. MaxSequence : s < t /\ f[s].key = f[t].key => f[s].child >= f[t].child
     /\ \A s \in 1 .. MaxSequence : f[s].type = kTypeUnknown => f[s].child > 1
     /\ Cardinality({s \in 1 .. MaxSequence : f[s].type = kTypeUnknown}) <= 1}

IteratorsInit ==
  /\ \E f \in Layouts :
       children = [i \in Children |-> {InternalKey(f[s].key, s, f[s].type) :
                                         s \in {t \in 1 .. MaxSequence : f[t].child = i}}]
  /\ sequence_ \in {MaxSequence - 1, MaxSequence}
  /\ merging = [at |-> [i \in Children |-> {}], current |-> 0, direction |-> "forward"]
  /\ dbiter = [direction |-> "forward", valid |-> FALSE, ok |-> TRUE,
               saved_key |-> {}, saved_value |-> 0]
  /\ turn = "user" /\ value_type = kTypeDeletion /\ skipping = FALSE
  /\ expected = {} /\ scan = FALSE

IteratorsNext ==
  \/ DBSeekToFirst \/ DBSeekToLast \/ DBNext \/ DBPrev
  \/ \E k \in UserKeys : DBSeek(k) \/ \E t \in {kTypeDeletion, kTypeValue} : LateWrite(k, t)
  \/ FindNextUserEntry \/ TurnBack \/ FindPrevUserEntry

IteratorsSpec == IteratorsInit /\ [][IteratorsNext]_iteratorVars

-----------------------------------------------------------------------------
(* Properties.                                                             *)

(* Whatever calls were made, in both directions, and whatever was written  *)
(* meanwhile, DBIter stands where the snapshot says: at the key and with   *)
(* the value of the next visible entry, or at none (db/db_iter.cc).        *)
IteratorAtSnapshot ==
  turn = "user" =>
    IF expected = {} THEN ~ dbiter.valid
    ELSE dbiter.valid /\ Key = Only(expected).key /\ Value = Only(expected).seq

(* A scan that ends with status OK has skipped no damaged entry            *)
(* (DBIter::ParseKey).                                                     *)
ScanTellsCorruption ==
  turn = "user" /\ scan /\ ~ dbiter.valid /\ dbiter.ok =>
    \A i \in Children : \A e \in children[i] : e.type # kTypeUnknown

(* DBIter shows the snapshot it was created at, and all of it or an error. *)
IteratorsRight ==
  /\ IteratorAtSnapshot
  /\ ScanTellsCorruption

=============================================================================
