------------------------------ MODULE SkipList ------------------------------
(***************************************************************************)
(* The skip list of a memtable (db/skiplist.h, db/memtable.cc): one writer *)
(* at a time inserts, link by link, while readers that hold no lock walk   *)
(* the links.  Every read or write of a link is a step.                    *)
(*                                                                         *)
(* A node is its key, a positive integer: an internal key, of which only   *)
(* the order matters.  Levels are counted from 1.  max_height_ is stored   *)
(* and read with no ordering: a reader may find any value it ever had.     *)
(***************************************************************************)
EXTENDS Integers

CONSTANTS ListKeys, kMaxHeight, Readers

ASSUME ListAssumption == ListKeys \subseteq Nat \ {0} /\ kMaxHeight \in Nat \ {0}

head_ == 0              \* head_, before every key
Nil == -1              \* nullptr, after every key
Unset == -2            \* memory of a new node or an array nobody has set yet

Nodes == ListKeys \cup {head_}
Levels == 1 .. kMaxHeight

VARIABLES
  next,            \* next_ of every node and level
  height,          \* the height of a node, 0 before it is allocated
  max_height,      \* max_height_
  stale,           \* the values it had before
  insert,          \* Insert: its phase, key, walk and prev
  reader           \* each reader's iterator and the walk it is in

listVars == <<next, height, max_height, stale, insert, reader>>

-----------------------------------------------------------------------------
(* One turn of the loops of FindGreaterOrEqual, FindLessThan and FindLast, *)
(* which has no limit: go on in this level or switch to the next.          *)

(* Mutant: a node with the key itself is passed as well.                   *)
KeyIsAtOrAfterNode(limit, n) == n # Nil /\ (limit = Nil \/ n <= limit)

KeyIsAfterNode(limit, n) == n # Nil /\ (limit = Nil \/ n < limit)
GoesOn(w) == KeyIsAfterNode(w.limit, next[w.x][w.level])
Walk(w) ==
  IF GoesOn(w) THEN [w EXCEPT !.x = next[w.x][w.level]] ELSE [w EXCEPT !.level = @ - 1]
AtBottom(w) == ~ GoesOn(w) /\ w.level = 1

-----------------------------------------------------------------------------
(* Insert                                                                  *)

NoInsert == [phase |-> "idle", limit |-> Nil, x |-> head_, level |-> 1,
             prev |-> [l \in Levels |-> Unset]]

InsertBegin(k) ==
  /\ insert.phase = "idle" /\ height[k] = 0
  /\ insert' = [NoInsert EXCEPT !.phase = "find", !.limit = k, !.level = max_height]
  /\ UNCHANGED <<next, height, max_height, stale, reader>>

InsertFind ==
  /\ insert.phase = "find" /\ ~ AtBottom(insert)
  /\ insert' = IF GoesOn(insert) THEN Walk(insert)
               ELSE [Walk(insert) EXCEPT !.prev[insert.level] = insert.x]
  /\ UNCHANGED <<next, height, max_height, stale, reader>>

(* The walk is over; RandomHeight, max_height_ and NewNode.                *)
InsertNode(h) ==
  /\ insert.phase = "find" /\ AtBottom(insert)
  /\ LET found == [insert.prev EXCEPT ![1] = insert.x] IN
     insert' = [insert EXCEPT
       !.phase = "own",
       !.prev = [l \in Levels |-> IF max_height < l /\ l <= h THEN head_ ELSE found[l]]]
  /\ height' = [height EXCEPT ![insert.limit] = h]
  /\ IF h > max_height
     THEN max_height' = h /\ stale' = stale \cup {max_height}
     ELSE UNCHANGED <<max_height, stale>>
  /\ UNCHANGED <<next, reader>>

(* Mutant: the new node's own link is left as it was.                      *)
InsertSkipsOwn ==
  /\ insert.phase = "own"
  /\ insert' = [insert EXCEPT !.phase = "publish"]
  /\ UNCHANGED <<next, height, max_height, stale, reader>>

InsertSetOwn ==
  /\ insert.phase = "own"
  /\ next' = [next EXCEPT ![insert.limit][insert.level] =
                next[insert.prev[insert.level]][insert.level]]
  /\ insert' = [insert EXCEPT !.phase = "publish"]
  /\ UNCHANGED <<height, max_height, stale, reader>>

InsertPublish ==
  /\ insert.phase = "publish"
  /\ next' = [next EXCEPT ![insert.prev[insert.level]][insert.level] = insert.limit]
  /\ insert' = IF insert.level < height[insert.limit]
               THEN [insert EXCEPT !.phase = "own", !.level = @ + 1]
               ELSE NoInsert
  /\ UNCHANGED <<height, max_height, stale, reader>>

-----------------------------------------------------------------------------
(* The readers                                                             *)

(* The keys that have been inserted.                                       *)
Inserted == {k \in ListKeys : height[k] > 0 /\ (insert.phase # "idle" => k # insert.limit)}

NoReader == [op |-> "idle", x |-> head_, level |-> 1, limit |-> Nil, node |-> Nil,
             up |-> TRUE, since |-> {}]

(* A walk begins: since is what must be found, up which way it looks.      *)
Begin(r, op, limit, level) ==
  /\ reader[r].op = "idle"
  /\ reader' = [reader EXCEPT ![r] = [op |-> op, x |-> head_, level |-> level, limit |-> limit,
                                      node |-> Nil, up |-> op = "seek", since |-> Inserted]]
  /\ UNCHANGED <<next, height, max_height, stale, insert>>

ListSeek(r, target, level) == Begin(r, "seek", target, level)
ListSeekToLast(r, level) == Begin(r, "less", Nil, level)
ListPrev(r, level) == reader[r].node # Nil /\ Begin(r, "less", reader[r].node, level)

ReaderWalk(r) ==
  /\ reader[r].op # "idle" /\ ~ AtBottom(reader[r])
  /\ reader' = [reader EXCEPT ![r] = Walk(@)]
  /\ UNCHANGED <<next, height, max_height, stale, insert>>

(* FindGreaterOrEqual returns the node after x; the others x itself, which *)
(* the iterator takes for the end when it is the head.                     *)
ReaderFinds(r) ==
  LET w == reader[r] IN
  /\ w.op # "idle" /\ AtBottom(w)
  /\ reader' = [reader EXCEPT ![r].op = "idle",
       ![r].node = IF w.op = "seek" THEN next[w.x][1] ELSE IF w.x = head_ THEN Nil ELSE w.x]
  /\ UNCHANGED <<next, height, max_height, stale, insert>>

(* SeekToFirst and Next read one link.                                     *)
Follow(r, x) ==
  /\ reader[r].op = "idle"
  /\ reader' = [reader EXCEPT ![r] = [NoReader EXCEPT !.node = next[x][1], !.limit = x + 1,
                                                      !.since = Inserted]]
  /\ UNCHANGED <<next, height, max_height, stale, insert>>

ListSeekToFirst(r) == Follow(r, head_)
NextNode(r) == reader[r].node # Nil /\ Follow(r, reader[r].node)

-----------------------------------------------------------------------------
ListInit ==
  /\ next = [n \in Nodes |-> [l \in Levels |-> IF n = head_ THEN Nil ELSE Unset]]
  /\ height = [k \in ListKeys |-> 0]
  /\ max_height = 1 /\ stale = {}
  /\ insert = NoInsert
  /\ reader = [r \in Readers |-> NoReader]

ListNext ==
  \/ \E k \in ListKeys : InsertBegin(k)
  \/ InsertFind
  \/ \E h \in Levels : InsertNode(h)
  \/ InsertSetOwn
  \/ InsertPublish
  \/ \E r \in Readers :
       \/ \E l \in stale \cup {max_height} :
            ListSeekToLast(r, l) \/ ListPrev(r, l) \/ \E k \in ListKeys : ListSeek(r, k, l)
       \/ ReaderWalk(r) \/ ReaderFinds(r) \/ ListSeekToFirst(r) \/ NextNode(r)

ListSpec == ListInit /\ [][ListNext]_listVars

-----------------------------------------------------------------------------
(* Properties.                                                             *)

(* The keys whose link of a level is in the list.                          *)
Linked(l) == {k \in ListKeys : /\ l <= height[k]
                               /\ insert.phase # "idle" /\ k = insert.limit => l < insert.level}

(* In every level a link leads to the next of the keys linked there: the   *)
(* levels are sorted and none is ever broken, in the middle of an          *)
(* insertion or not (the barriers of Node::SetNext and Insert).            *)
LevelsSorted ==
  \A l \in Levels : \A n \in Linked(l) \cup {head_} :
    /\ next[n][l] # Nil => next[n][l] \in Linked(l) /\ n < next[n][l]
    /\ \A k \in Linked(l) : n < k => next[n][l] # Nil /\ next[n][l] <= k

(* A reader misses no key: whatever was inserted before its call began and *)
(* lies on its way is found, however far the insertion that runs           *)
(* meanwhile has got, and nothing but a node of the list is found          *)
(* (SkipList::Iterator, MemTable::Get).                                    *)
ReadersMissNothing ==
  \A r \in Readers :
    LET w == reader[r] IN
    w.op = "idle" =>
      /\ w.node # Nil => w.node \in Linked(1)
      /\ w.up => /\ w.node # Nil => w.limit = Nil \/ w.limit <= w.node
                 /\ \A k \in w.since : w.limit <= k => w.node # Nil /\ w.node <= k
      /\ ~ w.up => /\ w.node # Nil => w.limit = Nil \/ w.node < w.limit
                   /\ \A k \in w.since : w.limit = Nil \/ k < w.limit => k <= w.node

(* One thread may insert while others read without a lock ("Thread safety" *)
(* in db/skiplist.h).                                                      *)
ListIsRight ==
  /\ LevelsSorted
  /\ ReadersMissNothing

=============================================================================
