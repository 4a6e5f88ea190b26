---------------------------- MODULE SharedProofs ----------------------------
(***************************************************************************)
(* Theorems about what threads share below the database: the skip list of  *)
(* a memtable, for any keys, any greatest height and any number of readers,*)
(* the cache of open tables, for any files, readers, capacities and hash,  *)
(* and PosixEnv, for any number of processes, threads and files.           *)
(***************************************************************************)
EXTENDS SkipList, TableCache, PosixEnv, ListLemmas

-----------------------------------------------------------------------------
(* The skip list.                                                          *)

ListTypeOK ==
  /\ next \in [Nodes -> [Levels -> ListKeys \cup {Nil, Unset}]]
  /\ height \in [ListKeys -> 0 .. kMaxHeight]
  /\ max_height \in Levels /\ stale \subseteq Levels
  /\ insert \in [phase : {"idle", "find", "own", "publish"}, limit : ListKeys \cup {Nil},
                 x : Nodes, level : Levels, prev : [Levels -> Nodes \cup {Unset}]]
  /\ reader \in [Readers -> [op : {"idle", "seek", "less"}, x : Nodes, level : Levels,
                             limit : Nat \cup {Nil}, node : ListKeys \cup {Nil, Unset},
                             up : BOOLEAN, since : SUBSET ListKeys]]

(* No node is higher than the list.                                        *)
HeightsInOrder == \A k \in ListKeys : height[k] <= max_height

(* A node at which a key belongs: the last one of a level before it.       *)
Before(p, key, l) ==
  /\ p \in Linked(l) \cup {head_} /\ p < key
  /\ \A k \in Linked(l) : k < key => k <= p

(* The insertion knows where its key belongs in the levels above that of   *)
(* its walk, and later in those where it is not linked yet.                *)
InsertInPlace ==
  /\ insert.phase # "idle" => insert.limit \in ListKeys
  /\ insert.phase = "find" =>
       /\ height[insert.limit] = 0 /\ insert.level <= max_height
       /\ insert.x \in Linked(insert.level) \cup {head_} /\ insert.x < insert.limit
       /\ \A l \in Levels : insert.level < l /\ l <= max_height => Before(insert.prev[l], insert.limit, l)
  /\ insert.phase \in {"own", "publish"} =>
       /\ insert.level <= height[insert.limit]
       /\ \A l \in Levels : insert.level <= l /\ l <= height[insert.limit] =>
            Before(insert.prev[l], insert.limit, l)
  /\ insert.phase = "publish" =>
       next[insert.limit][insert.level] = next[insert.prev[insert.level]][insert.level]

(* A walking reader is at a node of its level that lies before its limit.  *)
ReadersInPlace ==
  \A r \in Readers :
    LET w == reader[r] IN
    /\ w.since \subseteq Linked(1)
    /\ w.op # "idle" =>
         /\ w.x \in Linked(w.level) \cup {head_}
         /\ w.limit = Nil \/ w.x < w.limit
         /\ w.up = (w.op = "seek")
         /\ w.up => w.limit # Nil

ListInv ==
  /\ ListTypeOK /\ HeightsInOrder /\ LevelsSorted /\ InsertInPlace
  /\ ReadersInPlace /\ ReadersMissNothing

-----------------------------------------------------------------------------
(* The walks of FindGreaterOrEqual, FindLessThan and FindLast.             *)

LEMMA LinkedAreKeys == \A l : Linked(l) \subseteq ListKeys
  BY DEF Linked

LEMMA KeysAreNumbers == /\ ListKeys \subseteq Nat \ {0} /\ ListKeys \subseteq Int
                        /\ Nil \notin ListKeys /\ Unset \notin ListKeys /\ head_ \notin ListKeys
                        /\ Nodes \subseteq Nat /\ Nodes \subseteq Int
                        /\ Levels \subseteq Nat \ {0} /\ Levels \subseteq Int
                        /\ Nil \notin Nodes /\ Unset \notin Nodes
                        /\ \A k \in ListKeys : head_ < k
  BY ListAssumption DEF Nil, Unset, head_, Nodes, Levels

LEMMA InsertTypes ==
  ASSUME ListTypeOK
  PROVE  /\ insert.phase \in {"idle", "find", "own", "publish"}
         /\ insert.limit \in ListKeys \cup {Nil}
         /\ insert.x \in Nodes /\ insert.level \in Levels
         /\ insert.prev \in [Levels -> Nodes \cup {Unset}]
  BY DEF ListTypeOK

LEMMA ReaderTypes ==
  ASSUME ListTypeOK, NEW r \in Readers
  PROVE  /\ reader[r].op \in {"idle", "seek", "less"}
         /\ reader[r].x \in Nodes /\ reader[r].level \in Levels
         /\ reader[r].limit \in Nat \cup {Nil}
         /\ reader[r].node \in ListKeys \cup {Nil, Unset}
         /\ reader[r].up \in BOOLEAN /\ reader[r].since \subseteq ListKeys
  BY DEF ListTypeOK

LEMMA HeightTypes ==
  ASSUME ListTypeOK, NEW k \in ListKeys
  PROVE  height[k] \in Int /\ 0 <= height[k] /\ height[k] <= kMaxHeight
  BY ListAssumption DEF ListTypeOK

(* Lower levels have the nodes of the higher ones.                         *)
LEMMA LowerLevels ==
  ASSUME ListTypeOK, NEW l \in Levels, NEW m \in Levels, m <= l
  PROVE  Linked(l) \subseteq Linked(m)
<1> SUFFICES ASSUME NEW k \in Linked(l) PROVE k \in Linked(m)
  OBVIOUS
<1>1. l \in Int /\ m \in Int /\ insert.level \in Int
  BY InsertTypes, KeysAreNumbers
<1>2. k \in ListKeys /\ height[k] \in Int
  BY HeightTypes DEF Linked
<1> QED
  BY <1>1, <1>2 DEF Linked

(* Where a walk goes on it comes to a node of its level.                   *)
LEMMA GoingOn ==
  ASSUME LevelsSorted, NEW l \in Levels, NEW x \in Linked(l) \cup {head_}, next[x][l] # Nil
  PROVE  next[x][l] \in Linked(l) /\ next[x][l] \in ListKeys /\ x < next[x][l]
  BY LinkedAreKeys DEF LevelsSorted

(* Where it does not, no node of the level lies further on and before the  *)
(* limit.                                                                  *)
LEMMA NotGoingOn ==
  ASSUME LevelsSorted, NEW l \in Levels, NEW x \in Linked(l) \cup {head_},
         NEW limit \in Nat \cup {Nil}, ~ KeyIsAfterNode(limit, next[x][l]),
         NEW k \in Linked(l), limit = Nil \/ k < limit
  PROVE  k <= x
<1>1. x \in Int /\ k \in Int
  BY LinkedAreKeys, KeysAreNumbers DEF Nodes, head_
<1>2. SUFFICES ASSUME x < k PROVE FALSE
  BY <1>1
<1>3. next[x][l] # Nil /\ next[x][l] <= k
  BY <1>2 DEF LevelsSorted
<1>4. next[x][l] \in Int
  BY <1>3, GoingOn, KeysAreNumbers
<1> QED
  BY <1>1, <1>3, <1>4 DEF KeyIsAfterNode, Nil

-----------------------------------------------------------------------------
(* What holds at the beginning, and what a step of the readers alone       *)
(* leaves as it is.                                                        *)

LEMMA ListInvInit == ListInit => ListInv
<1> SUFFICES ASSUME ListInit PROVE ListInv
  OBVIOUS
<1>1. 1 \in Levels
  BY ListAssumption DEF Levels
<1>2. /\ max_height = 1 /\ stale = {} /\ \A k \in ListKeys : height[k] = 0
      /\ insert.phase = "idle"
      /\ \A r \in Readers : reader[r] = NoReader
  BY DEF ListInit, NoInsert
<1>3. \A l \in Levels : Linked(l) = {} /\ next[head_][l] = Nil
  <2>1. ASSUME NEW l \in Levels, NEW k \in Linked(l) PROVE FALSE
    <3>1. l <= 0
      BY <1>2 DEF Linked
    <3> QED
      BY <3>1 DEF Levels
  <2> QED
    BY <2>1, LinkedAreKeys DEF ListInit, Nodes
<1>4. ListTypeOK
  <2>1. insert \in [phase : {"idle", "find", "own", "publish"}, limit : ListKeys \cup {Nil},
                    x : Nodes, level : Levels, prev : [Levels -> Nodes \cup {Unset}]]
    BY <1>1 DEF ListInit, NoInsert, Nodes
  <2>2. reader \in [Readers ->
          [op : {"idle", "seek", "less"}, x : Nodes, level : Levels, limit : Nat \cup {Nil},
           node : ListKeys \cup {Nil, Unset}, up : BOOLEAN, since : SUBSET ListKeys]]
    BY <1>1 DEF ListInit, NoReader, Nodes
  <2>3. next \in [Nodes -> [Levels -> ListKeys \cup {Nil, Unset}]]
    BY DEF ListInit
  <2>4. height \in [ListKeys -> 0 .. kMaxHeight]
    BY ListAssumption DEF ListInit
  <2> QED
    BY <1>1, <1>2, <2>1, <2>2, <2>3, <2>4 DEF ListTypeOK
<1>5. HeightsInOrder
  <2> SUFFICES ASSUME NEW k \in ListKeys PROVE height[k] <= max_height
    BY DEF HeightsInOrder
  <2>1. height[k] = 0 /\ max_height = 1
    BY <1>2
  <2> QED
    BY <2>1
<1>6. LevelsSorted
  BY <1>3 DEF LevelsSorted
<1>7. InsertInPlace
  BY <1>2 DEF InsertInPlace
<1>8. ReadersInPlace
  BY <1>2 DEF ReadersInPlace, NoReader
<1>9. ReadersMissNothing
  BY <1>2 DEF ReadersMissNothing, NoReader
<1> QED
  BY <1>4, <1>5, <1>6, <1>7, <1>8, <1>9 DEF ListInv

(* A change of one reader.                                                 *)
LEMMA ReaderStep ==
  ASSUME ListInv, NEW r \in Readers, NEW w,
         UNCHANGED <<next, height, max_height, stale, insert>>,
         reader' = [reader EXCEPT ![r] = w],
         w \in [op : {"idle", "seek", "less"}, x : Nodes, level : Levels, limit : Nat \cup {Nil},
                node : ListKeys \cup {Nil, Unset}, up : BOOLEAN, since : SUBSET ListKeys],
         w.since \subseteq Linked(1),
         w.op # "idle" => /\ w.x \in Linked(w.level) \cup {head_}
                          /\ w.limit = Nil \/ w.x < w.limit
                          /\ w.up = (w.op = "seek")
                          /\ w.up => w.limit # Nil,
         w.op = "idle" =>
           /\ w.node # Nil => w.node \in Linked(1)
           /\ w.up => /\ w.node # Nil => w.limit = Nil \/ w.limit <= w.node
                      /\ \A k \in w.since : w.limit <= k => w.node # Nil /\ w.node <= k
           /\ ~ w.up => /\ w.node # Nil => w.limit = Nil \/ w.node < w.limit
                        /\ \A k \in w.since : w.limit = Nil \/ k < w.limit => k <= w.node
  PROVE  ListInv'
<1>1. ListTypeOK'
  BY DEF ListInv, ListTypeOK
<1>2. \A l : Linked(l)' = Linked(l)
  BY DEF Linked
<1>3. HeightsInOrder'
  BY DEF ListInv, HeightsInOrder
<1>4. LevelsSorted'
  BY <1>2 DEF ListInv, LevelsSorted
<1>5. InsertInPlace'
  BY <1>2 DEF ListInv, InsertInPlace, Before
<1>6. reader'[r] = w /\ \A s \in Readers \ {r} : reader'[s] = reader[s]
  BY DEF ListInv, ListTypeOK
<1>7. ReadersInPlace'
  BY <1>2, <1>6 DEF ListInv, ReadersInPlace
<1>8. ReadersMissNothing'
  BY <1>2, <1>6 DEF ListInv, ReadersMissNothing
<1> QED
  BY <1>1, <1>3, <1>4, <1>5, <1>7, <1>8 DEF ListInv

(* The keys that have been inserted are in the lowest level.               *)
LEMMA InsertedAreLinked == ListTypeOK => Inserted \subseteq Linked(1)
<1> SUFFICES ASSUME ListTypeOK, NEW k \in Inserted PROVE k \in Linked(1)
  OBVIOUS
<1>1. k \in ListKeys /\ height[k] > 0 /\ (insert.phase # "idle" => k # insert.limit)
  BY DEF Inserted
<1>2. 1 <= height[k]
  BY <1>1, HeightTypes
<1> QED
  BY <1>1, <1>2 DEF Linked

LEMMA BeginKeepsInv ==
  ASSUME ListInv, NEW r \in Readers, NEW op \in {"seek", "less"}, NEW limit \in Nat \cup {Nil},
         NEW l \in stale \cup {max_height}, op = "seek" => limit # Nil,
         limit = Nil \/ head_ < limit, Begin(r, op, limit, l)
  PROVE  ListInv'
<1> DEFINE w == [op |-> op, x |-> head_, level |-> l, limit |-> limit,
                 node |-> Nil, up |-> op = "seek", since |-> Inserted]
<1>1. l \in Levels
  BY DEF ListInv, ListTypeOK
<1>2. Inserted \subseteq Linked(1) /\ Inserted \subseteq ListKeys
  BY InsertedAreLinked DEF ListInv, Inserted
<1>3. w \in [op : {"idle", "seek", "less"}, x : Nodes, level : Levels, limit : Nat \cup {Nil},
             node : ListKeys \cup {Nil, Unset}, up : BOOLEAN, since : SUBSET ListKeys]
  BY <1>1, <1>2 DEF Nodes
<1>4. reader' = [reader EXCEPT ![r] = w] /\ UNCHANGED <<next, height, max_height, stale, insert>>
  BY DEF Begin
<1>5. w.op # "idle" /\ w.since \subseteq Linked(1) /\ w.x = head_ /\ w.limit = limit
      /\ w.up = (w.op = "seek") /\ (w.up => w.limit # Nil)
  BY <1>2
<1> HIDE DEF w
<1> QED
  BY <1>3, <1>4, <1>5, ReaderStep

LEMMA ReaderWalkKeepsInv ==
  ASSUME ListInv, NEW r \in Readers, ReaderWalk(r)
  PROVE  ListInv'
<1> DEFINE w == reader[r]
           v == Walk(w)
           y == next[w.x][w.level]
<1>1. /\ w \in [op : {"idle", "seek", "less"}, x : Nodes, level : Levels, limit : Nat \cup {Nil},
                node : ListKeys \cup {Nil, Unset}, up : BOOLEAN, since : SUBSET ListKeys]
      /\ w.op # "idle" /\ ~ AtBottom(w)
      /\ reader' = [reader EXCEPT ![r] = v] /\ UNCHANGED <<next, height, max_height, stale, insert>>
  BY DEF ReaderWalk, ListInv, ListTypeOK
<1>2. /\ w.since \subseteq Linked(1) /\ w.x \in Linked(w.level) \cup {head_}
      /\ w.limit = Nil \/ w.x < w.limit
      /\ w.up = (w.op = "seek") /\ (w.up => w.limit # Nil)
  BY <1>1 DEF ListInv, ReadersInPlace
<1> HIDE DEF w
<1>3. CASE GoesOn(w)
  <2>1. v = [w EXCEPT !.x = y]
    BY <1>3 DEF Walk
  <2>2. y # Nil /\ (w.limit = Nil \/ y < w.limit)
    BY <1>3 DEF GoesOn, KeyIsAfterNode
  <2>3. y \in Linked(w.level) /\ y \in Nodes
    BY <1>1, <1>2, <2>2, GoingOn DEF ListInv, Nodes
  <2> HIDE DEF y
  <2>4. /\ v \in [op : {"idle", "seek", "less"}, x : Nodes, level : Levels, limit : Nat \cup {Nil},
                  node : ListKeys \cup {Nil, Unset}, up : BOOLEAN, since : SUBSET ListKeys]
        /\ v.op = w.op /\ v.since = w.since /\ v.x = y /\ v.level = w.level /\ v.limit = w.limit
        /\ v.up = w.up
    BY <1>1, <2>1, <2>3
  <2> HIDE DEF v
  <2> QED
    BY <1>1, <1>2, <2>2, <2>3, <2>4, ReaderStep
<1>4. CASE ~ GoesOn(w)
  <2>1. v = [w EXCEPT !.level = w.level - 1]
    BY <1>1, <1>4 DEF Walk
  <2>2. w.level - 1 \in Levels /\ w.level - 1 <= w.level
    BY <1>1, <1>4, ListAssumption DEF AtBottom, Levels
  <2>3. w.x \in Linked(w.level - 1) \cup {head_}
    BY <1>1, <1>2, <2>2, LowerLevels DEF ListInv
  <2>4. /\ v \in [op : {"idle", "seek", "less"}, x : Nodes, level : Levels, limit : Nat \cup {Nil},
                  node : ListKeys \cup {Nil, Unset}, up : BOOLEAN, since : SUBSET ListKeys]
        /\ v.op = w.op /\ v.since = w.since /\ v.x = w.x /\ v.level = w.level - 1
        /\ v.limit = w.limit /\ v.up = w.up
    BY <1>1, <2>1, <2>2
  <2> HIDE DEF v
  <2> QED
    BY <1>1, <1>2, <2>3, <2>4, ReaderStep
<1> QED
  BY <1>3, <1>4

(* What FindGreaterOrEqual or FindLessThan returns.                        *)
LEMMA ReaderFindsKeepsInv ==
  ASSUME ListInv, NEW r \in Readers, ReaderFinds(r)
  PROVE  ListInv'
<1> DEFINE w == reader[r]
           y == next[w.x][1]
           found == IF w.op = "seek" THEN y ELSE IF w.x = head_ THEN Nil ELSE w.x
           v == [w EXCEPT !.op = "idle", !.node = found]
<1>1. /\ w \in [op : {"idle", "seek", "less"}, x : Nodes, level : Levels, limit : Nat \cup {Nil},
                node : ListKeys \cup {Nil, Unset}, up : BOOLEAN, since : SUBSET ListKeys]
      /\ w.op # "idle" /\ AtBottom(w)
      /\ reader' = [reader EXCEPT ![r] = v] /\ UNCHANGED <<next, height, max_height, stale, insert>>
  BY DEF ReaderFinds, ListInv, ListTypeOK
<1>2. /\ w.since \subseteq Linked(1) /\ w.x \in Linked(w.level) \cup {head_}
      /\ w.limit = Nil \/ w.x < w.limit
      /\ w.up = (w.op = "seek") /\ (w.up => w.limit # Nil)
  BY <1>1 DEF ListInv, ReadersInPlace
<1> HIDE DEF w
<1>3. w.level = 1 /\ 1 \in Levels /\ ~ KeyIsAfterNode(w.limit, y) /\ w.x \in Linked(1) \cup {head_}
  BY <1>1, <1>2 DEF AtBottom, GoesOn
<1>4. /\ y # Nil => y \in Linked(1) /\ y \in ListKeys
      /\ \A k \in Linked(1) : w.x < k => y # Nil /\ y <= k
  BY <1>3, GoingOn DEF ListInv, LevelsSorted
<1>5. \A k \in Linked(1) : (w.limit = Nil \/ k < w.limit) => k <= w.x
  BY <1>1, <1>3, NotGoingOn DEF ListInv
<1> HIDE DEF y
<1>6. \A k \in Linked(1) : k \in ListKeys /\ k \in Int /\ head_ < k
  BY LinkedAreKeys, KeysAreNumbers
<1>7. found \in ListKeys \cup {Nil}
  BY <1>1, <1>4 DEF Nodes
<1>8. /\ v \in [op : {"idle", "seek", "less"}, x : Nodes, level : Levels, limit : Nat \cup {Nil},
                node : ListKeys \cup {Nil, Unset}, up : BOOLEAN, since : SUBSET ListKeys]
      /\ v.op = "idle" /\ v.since = w.since /\ v.limit = w.limit /\ v.up = w.up /\ v.node = found
  BY <1>1, <1>7
<1>9. w.x \in Int /\ (w.limit # Nil => w.limit \in Int) /\ (y # Nil => y \in Int)
  BY <1>1, <1>4, KeysAreNumbers
<1>10. CASE w.op = "seek"
  <2>1. v.node = y /\ v.up /\ v.limit \in Int /\ v.limit # Nil
    BY <1>2, <1>8, <1>9, <1>10
  <2>2. y # Nil => y \in Linked(1) /\ v.limit <= y
    BY <1>3, <1>4, <1>8, <1>9, <2>1 DEF KeyIsAfterNode
  <2>3. ASSUME NEW k \in v.since, v.limit <= k PROVE y # Nil /\ y <= k
    <3>1. k \in Linked(1) /\ w.x < k
      BY <1>2, <1>6, <1>8, <1>9, <2>1, <2>3
    <3> QED
      BY <1>4, <3>1
  <2> HIDE DEF v, found
  <2> QED
    BY <1>1, <1>2, <1>8, <2>1, <2>2, <2>3, ReaderStep
<1>11. CASE w.op = "less"
  <2>1. ~ v.up /\ v.node = IF w.x = head_ THEN Nil ELSE w.x
    BY <1>2, <1>8, <1>11
  <2>2. v.node # Nil => v.node \in Linked(1) /\ (v.limit = Nil \/ v.node < v.limit)
    BY <1>2, <1>3, <1>8, <2>1
  <2>3. ASSUME NEW k \in v.since, v.limit = Nil \/ k < v.limit PROVE k <= v.node
    <3>1. k \in Linked(1) /\ k <= w.x
      BY <1>2, <1>5, <1>8, <2>3
    <3>2. w.x # head_
      BY <1>6, <1>9, <3>1 DEF head_
    <3> QED
      BY <2>1, <3>1, <3>2
  <2> HIDE DEF v, found
  <2> QED
    BY <1>1, <1>2, <1>8, <2>1, <2>2, <2>3, ReaderStep
<1> QED
  BY <1>1, <1>10, <1>11

(* SeekToFirst and Next.                                                   *)
LEMMA FollowKeepsInv ==
  ASSUME ListInv, NEW r \in Readers, NEW x \in Linked(1) \cup {head_}, Follow(r, x)
  PROVE  ListInv'
<1> DEFINE y == next[x][1]
           w == [NoReader EXCEPT !.node = y, !.limit = x + 1, !.since = Inserted]
<1>1. 1 \in Levels
  BY ListAssumption DEF Levels
<1>2. /\ y # Nil => y \in Linked(1) /\ y \in ListKeys /\ x < y
      /\ \A k \in Linked(1) : x < k => y # Nil /\ y <= k
  BY <1>1, GoingOn DEF ListInv, LevelsSorted
<1>3. x \in Nodes /\ x \in Int /\ (y # Nil => y \in Int)
  BY <1>2, LinkedAreKeys, KeysAreNumbers DEF Nodes, head_
<1>4. Inserted \subseteq Linked(1) /\ Inserted \subseteq ListKeys
  BY InsertedAreLinked DEF ListInv, Inserted
<1>5. reader' = [reader EXCEPT ![r] = w] /\ UNCHANGED <<next, height, max_height, stale, insert>>
  BY DEF Follow
<1> HIDE DEF y
<1>6. /\ w \in [op : {"idle", "seek", "less"}, x : Nodes, level : Levels, limit : Nat \cup {Nil},
                node : ListKeys \cup {Nil, Unset}, up : BOOLEAN, since : SUBSET ListKeys]
      /\ w.op = "idle" /\ w.up /\ w.node = y /\ w.limit = x + 1 /\ w.since = Inserted
  <2>1. x + 1 \in Nat /\ head_ \in Nodes /\ y \in ListKeys \cup {Nil}
    BY <1>2, <1>3, KeysAreNumbers DEF Nodes
  <2>2. /\ NoReader \in [op : {"idle", "seek", "less"}, x : Nodes, level : Levels,
                         limit : Nat \cup {Nil}, node : ListKeys \cup {Nil, Unset},
                         up : BOOLEAN, since : SUBSET ListKeys]
        /\ NoReader.op = "idle" /\ NoReader.up
    BY <1>1, <2>1 DEF NoReader
  <2> QED
    BY <1>4, <2>1, <2>2
<1>7. y # Nil => y \in Linked(1) /\ w.limit <= y
  BY <1>2, <1>3, <1>6
<1>8. ASSUME NEW k \in w.since, w.limit <= k PROVE y # Nil /\ y <= k
  <2>1. k \in Linked(1) /\ k \in Int
    BY <1>4, <1>6, KeysAreNumbers
  <2>2. x < k
    BY <1>3, <1>6, <1>8, <2>1
  <2> QED
    BY <1>2, <2>1, <2>2
<1> HIDE DEF w
<1> QED
  BY <1>4, <1>5, <1>6, <1>7, <1>8, ReaderStep

-----------------------------------------------------------------------------
(* The steps of Insert.                                                    *)

(* Readers that do not move are not disturbed when nodes are linked.       *)
LEMMA ReadersUndisturbed ==
  ASSUME ListInv, reader' = reader, \A l \in Levels : Linked(l) \subseteq Linked(l)'
  PROVE  ReadersInPlace' /\ ReadersMissNothing'
<1>1. 1 \in Levels /\ \A r \in Readers : reader[r].level \in Levels
  BY ListAssumption, ReaderTypes DEF ListInv, Levels
<1>2. ReadersInPlace'
  BY <1>1 DEF ListInv, ReadersInPlace
<1>3. ReadersMissNothing'
  BY <1>1 DEF ListInv, ReadersMissNothing
<1> QED
  BY <1>2, <1>3

LEMMA InsertBeginKeepsInv ==
  ASSUME ListInv, NEW k \in ListKeys, InsertBegin(k)
  PROVE  ListInv'
<1>1. /\ insert.phase = "idle" /\ height[k] = 0
      /\ insert' = [NoInsert EXCEPT !.phase = "find", !.limit = k, !.level = max_height]
      /\ UNCHANGED <<next, height, max_height, stale, reader>>
  BY DEF InsertBegin
<1>2. max_height \in Levels /\ max_height \in Int /\ head_ \in Nodes
  BY KeysAreNumbers DEF ListInv, ListTypeOK, Nodes
<1>3. NoInsert \in [phase : {"idle", "find", "own", "publish"}, limit : ListKeys \cup {Nil},
                    x : Nodes, level : Levels, prev : [Levels -> Nodes \cup {Unset}]]
      /\ NoInsert.x = head_
  BY <1>2, ListAssumption DEF NoInsert, Levels
<1>4. /\ insert' \in [phase : {"idle", "find", "own", "publish"}, limit : ListKeys \cup {Nil},
                      x : Nodes, level : Levels, prev : [Levels -> Nodes \cup {Unset}]]
      /\ insert'.phase = "find" /\ insert'.limit = k /\ insert'.level = max_height
      /\ insert'.x = head_
  BY <1>1, <1>2, <1>3
<1>5. ListTypeOK'
  BY <1>1, <1>4 DEF ListInv, ListTypeOK
<1>6. ASSUME NEW l \in Levels PROVE Linked(l)' = Linked(l)
  <2>1. ~ (l <= height[k])
    BY <1>1, KeysAreNumbers DEF Levels
  <2> QED
    BY <1>1, <1>4, <2>1 DEF Linked
<1>7. HeightsInOrder'
  BY <1>1 DEF ListInv, HeightsInOrder
<1>8. LevelsSorted'
  BY <1>1, <1>6 DEF ListInv, LevelsSorted
<1>9. InsertInPlace'
  <2>1. height'[k] = 0 /\ max_height <= max_height' /\ head_ < k
    BY <1>1, <1>2, KeysAreNumbers
  <2>2. \A l \in Levels : ~ (max_height < l /\ l <= max_height)
    BY <1>2, KeysAreNumbers
  <2> QED
    BY <1>1, <1>4, <2>1, <2>2 DEF InsertInPlace
<1> QED
  BY <1>1, <1>5, <1>6, <1>7, <1>8, <1>9, ReadersUndisturbed DEF ListInv

LEMMA InsertFindKeepsInv ==
  ASSUME ListInv, InsertFind
  PROVE  ListInv'
<1> DEFINE key == insert.limit
           l == insert.level
           y == next[insert.x][l]
           Inserts == [phase : {"idle", "find", "own", "publish"}, limit : ListKeys \cup {Nil},
                       x : Nodes, level : Levels, prev : [Levels -> Nodes \cup {Unset}]]
<1>1. /\ insert.phase = "find" /\ ~ AtBottom(insert)
      /\ insert' = IF GoesOn(insert) THEN Walk(insert)
                   ELSE [Walk(insert) EXCEPT !.prev[l] = insert.x]
      /\ UNCHANGED <<next, height, max_height, stale, reader>>
  BY DEF InsertFind
<1>2. insert \in Inserts /\ l \in Levels /\ insert.x \in Nodes /\ insert.prev \in [Levels -> Nodes \cup {Unset}]
  BY DEF ListInv, ListTypeOK
<1>3. /\ key \in ListKeys /\ key \in Int /\ key # Nil /\ key \in Nat \cup {Nil}
      /\ height[key] = 0 /\ l <= max_height
      /\ insert.x \in Linked(l) \cup {head_} /\ insert.x < key
      /\ \A m \in Levels : l < m /\ m <= max_height => Before(insert.prev[m], key, m)
  BY <1>1, KeysAreNumbers DEF ListInv, InsertInPlace
<1>4. /\ l \in Int /\ max_height \in Int /\ \A m \in Levels : m \in Int /\ 1 <= m
  BY <1>2, KeysAreNumbers DEF ListInv, ListTypeOK, Levels
<1>5. ASSUME insert'.phase = "find", insert'.limit = key, NEW m \in Levels
      PROVE  Linked(m)' = Linked(m)
  <2>1. ~ (m <= height[key])
    BY <1>3, <1>4
  <2> QED
    BY <1>1, <1>5, <2>1 DEF Linked
<1>6. SUFFICES /\ insert' \in Inserts /\ insert'.phase = "find" /\ insert'.limit = key
               /\ insert'.level <= max_height
               /\ insert'.x \in Linked(insert'.level) \cup {head_} /\ insert'.x < key
               /\ \A m \in Levels : insert'.level < m /\ m <= max_height => Before(insert'.prev[m], key, m)
  <2>1. ListTypeOK'
    BY <1>1, <1>6 DEF ListInv, ListTypeOK
  <2>2. insert'.level \in Levels
    BY <1>6
  <2>3. HeightsInOrder'
    BY <1>1 DEF ListInv, HeightsInOrder
  <2>4. LevelsSorted'
    BY <1>1, <1>5, <1>6 DEF ListInv, LevelsSorted
  <2>5. InsertInPlace'
    BY <1>1, <1>3, <1>5, <1>6, <2>2 DEF InsertInPlace, Before
  <2> QED
    BY <1>1, <1>5, <1>6, <2>1, <2>3, <2>4, <2>5, ReadersUndisturbed DEF ListInv
<1> HIDE DEF Inserts
<1>7. CASE GoesOn(insert)
  <2>1. insert' = [insert EXCEPT !.x = y]
    BY <1>1, <1>7 DEF Walk
  <2>2. y # Nil /\ y < key
    BY <1>3, <1>7 DEF GoesOn, KeyIsAfterNode
  <2>3. y \in Linked(l) /\ y \in Nodes
    BY <1>2, <1>3, <2>2, GoingOn DEF ListInv, Nodes
  <2> HIDE DEF y
  <2>4. /\ insert' \in Inserts /\ insert'.phase = insert.phase /\ insert'.limit = insert.limit
        /\ insert'.x = y /\ insert'.level = insert.level /\ insert'.prev = insert.prev
    BY <1>2, <2>1, <2>3 DEF Inserts
  <2> QED
    BY <1>1, <1>3, <2>2, <2>3, <2>4
<1>8. CASE ~ GoesOn(insert)
  <2>1. Walk(insert) = [insert EXCEPT !.level = insert.level - 1]
    BY <1>2, <1>8 DEF Walk
  <2>2. l - 1 \in Levels /\ l - 1 <= l /\ l - 1 <= max_height
    BY <1>1, <1>2, <1>3, <1>4, <1>8, ListAssumption DEF AtBottom, Levels
  <2>3. insert.x \in Linked(l - 1) \cup {head_}
    BY <1>2, <1>3, <2>2, LowerLevels DEF ListInv
  <2>4. Before(insert.x, key, l)
    <3>1. ~ KeyIsAfterNode(key, next[insert.x][l])
      BY <1>8 DEF GoesOn
    <3>2. \A k \in Linked(l) : k < key => k <= insert.x
      BY <1>2, <1>3, <3>1, NotGoingOn DEF ListInv
    <3> QED
      BY <1>3, <3>2 DEF Before
  <2>5. /\ Walk(insert) \in Inserts /\ Walk(insert).phase = "find" /\ Walk(insert).limit = key
        /\ Walk(insert).x = insert.x /\ Walk(insert).level = l - 1 /\ Walk(insert).prev = insert.prev
    BY <1>1, <1>2, <2>1, <2>2 DEF Inserts
  <2>6. insert' = [Walk(insert) EXCEPT !.prev = [insert.prev EXCEPT ![l] = insert.x]]
    BY <1>1, <1>8, <2>5
  <2>7. [insert.prev EXCEPT ![l] = insert.x] \in [Levels -> Nodes \cup {Unset}]
    BY <1>2
  <2>8. /\ insert' \in Inserts /\ insert'.phase = "find" /\ insert'.limit = key
        /\ insert'.x = insert.x /\ insert'.level = l - 1
        /\ insert'.prev = [insert.prev EXCEPT ![l] = insert.x]
    BY <2>5, <2>6, <2>7 DEF Inserts
  <2>9. ASSUME NEW m \in Levels, l - 1 < m, m <= max_height PROVE Before(insert'.prev[m], key, m)
    <3>1. CASE m = l
      BY <1>2, <2>4, <2>8, <3>1
    <3>2. CASE m # l
      <4>1. l < m
        BY <1>4, <2>9, <3>2
      <4> QED
        BY <1>2, <1>3, <2>8, <2>9, <3>2, <4>1
    <3> QED
      BY <3>1, <3>2
  <2> QED
    BY <1>3, <2>2, <2>3, <2>8, <2>9
<1> QED
  BY <1>7, <1>8

LEMMA InsertNodeKeepsInv ==
  ASSUME ListInv, NEW h \in Levels, InsertNode(h)
  PROVE  ListInv'
<1> DEFINE key == insert.limit
           found == [insert.prev EXCEPT ![1] = insert.x]
           prev == [l \in Levels |-> IF max_height < l /\ l <= h THEN head_ ELSE found[l]]
           Inserts == [phase : {"idle", "find", "own", "publish"}, limit : ListKeys \cup {Nil},
                       x : Nodes, level : Levels, prev : [Levels -> Nodes \cup {Unset}]]
<1>1. /\ insert.phase = "find" /\ insert.level = 1 /\ ~ GoesOn(insert)
      /\ insert' = [insert EXCEPT !.phase = "own", !.prev = prev]
      /\ height' = [height EXCEPT ![key] = h]
      /\ \/ h > max_height /\ max_height' = h /\ stale' = stale \cup {max_height}
         \/ ~ (h > max_height) /\ UNCHANGED <<max_height, stale>>
      /\ UNCHANGED <<next, reader>>
  BY DEF InsertNode, AtBottom
<1>2. /\ insert \in Inserts /\ insert.x \in Nodes /\ insert.prev \in [Levels -> Nodes \cup {Unset}]
      /\ height \in [ListKeys -> 0 .. kMaxHeight] /\ max_height \in Levels /\ stale \subseteq Levels
  BY DEF ListInv, ListTypeOK
<1>3. /\ key \in ListKeys /\ key \in Int /\ key \in Nat \cup {Nil} /\ key # Nil
      /\ height[key] = 0 /\ insert.x \in Linked(1) \cup {head_} /\ insert.x < key
      /\ \A m \in Levels : 1 < m /\ m <= max_height => Before(insert.prev[m], key, m)
  BY <1>1, KeysAreNumbers DEF ListInv, InsertInPlace
<1>4. /\ h \in Int /\ max_height \in Int /\ h \in 0 .. kMaxHeight
      /\ \A m \in Levels : m \in Int /\ 1 <= m
      /\ \A k \in ListKeys : height[k] \in Int /\ height[k] <= max_height
  BY <1>2, KeysAreNumbers, ListAssumption, HeightTypes DEF ListInv, HeightsInOrder, Levels
<1>5. 1 \in Levels /\ head_ \in Nodes
  BY ListAssumption DEF Levels, Nodes
<1>6. found \in [Levels -> Nodes \cup {Unset}] /\ prev \in [Levels -> Nodes \cup {Unset}]
  BY <1>2, <1>5
<1>7. /\ insert' \in Inserts /\ insert'.phase = "own" /\ insert'.limit = key /\ insert'.level = 1
      /\ insert'.prev = prev
  BY <1>1, <1>2, <1>6
<1>8. height'[key] = h /\ \A k \in ListKeys \ {key} : height'[k] = height[k]
  BY <1>1, <1>2, <1>3
<1>9. ListTypeOK'
  <2>1. height' \in [ListKeys -> 0 .. kMaxHeight]
    BY <1>1, <1>2, <1>4
  <2>2. max_height' \in Levels /\ stale' \subseteq Levels
    BY <1>1, <1>2
  <2> QED
    BY <1>1, <1>7, <2>1, <2>2 DEF ListInv, ListTypeOK
<1>10. ASSUME NEW l \in Levels PROVE Linked(l)' = Linked(l)
  <2>1. ~ (l <= height[key]) /\ ~ (l < insert'.level)
    BY <1>3, <1>4, <1>7
  <2>2. \A k \in ListKeys : k \in Linked(l)' <=> k \in Linked(l)
    <3> TAKE k \in ListKeys
    <3>1. CASE k = key
      BY <1>7, <2>1, <3>1 DEF Linked
    <3>2. CASE k # key
      BY <1>7, <1>8, <3>2 DEF Linked
    <3> QED
      BY <3>1, <3>2
  <2> QED
    BY <2>2 DEF Linked
<1>11. HeightsInOrder'
  <2> SUFFICES ASSUME NEW k \in ListKeys PROVE height'[k] <= max_height'
    BY DEF HeightsInOrder
  <2>1. max_height' \in Int /\ max_height <= max_height' /\ h <= max_height'
    BY <1>1, <1>4
  <2> QED
    BY <1>4, <1>8, <2>1
<1>12. LevelsSorted'
  BY <1>1, <1>10 DEF ListInv, LevelsSorted
<1>13. InsertInPlace'
  <2>1. ASSUME NEW l \in Levels, 1 <= l, l <= h PROVE Before(prev[l], key, l)
    <3>1. CASE max_height < l
      <4>1. Linked(l) = {}
        BY <1>4, <3>1 DEF Linked
      <4>2. prev[l] = head_
        BY <2>1, <3>1
      <4> QED
        BY <1>3, <4>1, <4>2, KeysAreNumbers DEF Before
    <3>2. CASE ~ (max_height < l)
      <4>1. prev[l] = found[l]
        BY <3>2
      <4>2. CASE l = 1
        <5>1. found[1] = insert.x
          BY <1>2, <1>5
        <5>2. ~ KeyIsAfterNode(key, next[insert.x][1])
          BY <1>1 DEF GoesOn
        <5>3. \A k \in Linked(1) : k < key => k <= insert.x
          BY <1>3, <1>5, <5>2, NotGoingOn DEF ListInv
        <5> QED
          BY <1>3, <4>1, <4>2, <5>1, <5>3 DEF Before
      <4>3. CASE l # 1
        <5>1. found[l] = insert.prev[l]
          BY <1>2, <4>3
        <5>2. 1 < l /\ l <= max_height
          BY <1>4, <3>2, <4>3
        <5> QED
          BY <1>3, <4>1, <5>1, <5>2
      <4> QED
        BY <4>2, <4>3
    <3> QED
      BY <3>1, <3>2
  <2>2. 1 <= h
    BY <1>4
  <2> HIDE DEF prev, found
  <2> QED
    BY <1>3, <1>7, <1>8, <1>10, <2>1, <2>2 DEF InsertInPlace, Before
<1> QED
  BY <1>1, <1>9, <1>10, <1>11, <1>12, <1>13, ReadersUndisturbed DEF ListInv

(* The new node gets its own link, which nobody reads yet.                 *)
LEMMA InsertSetOwnKeepsInv ==
  ASSUME ListInv, InsertSetOwn
  PROVE  ListInv'
<1> DEFINE key == insert.limit
           l == insert.level
           p == insert.prev[l]
<1>1. /\ insert.phase = "own"
      /\ next' = [next EXCEPT ![key][l] = next[p][l]]
      /\ insert' = [insert EXCEPT !.phase = "publish"]
      /\ UNCHANGED <<height, max_height, stale, reader>>
  BY DEF InsertSetOwn
<1>2. /\ insert \in [phase : {"idle", "find", "own", "publish"}, limit : ListKeys \cup {Nil},
                     x : Nodes, level : Levels, prev : [Levels -> Nodes \cup {Unset}]]
      /\ l \in Levels /\ next \in [Nodes -> [Levels -> ListKeys \cup {Nil, Unset}]]
  BY DEF ListInv, ListTypeOK
<1>3. /\ key \in ListKeys /\ key \in Nodes /\ l <= height[key]
      /\ \A m \in Levels : l <= m /\ m <= height[key] => Before(insert.prev[m], key, m)
  BY <1>1 DEF ListInv, InsertInPlace, Nodes
<1>4. Before(p, key, l) /\ l \in Int
  <2>1. l \in Int
    BY <1>2, KeysAreNumbers
  <2>2. l <= l
    BY <2>1
  <2> QED
    BY <1>2, <1>3, <2>1, <2>2
<1>5. p \in Nodes /\ p # key
  <2>1. p \in Nodes /\ p < key
    BY <1>4, LinkedAreKeys DEF Before, Nodes
  <2>2. p \in Int /\ key \in Int
    BY <1>3, <2>1, KeysAreNumbers
  <2> QED
    BY <2>1, <2>2
<1>6. /\ insert' \in [phase : {"idle", "find", "own", "publish"}, limit : ListKeys \cup {Nil},
                      x : Nodes, level : Levels, prev : [Levels -> Nodes \cup {Unset}]]
      /\ insert'.phase = "publish" /\ insert'.limit = key /\ insert'.level = l
      /\ insert'.prev = insert.prev
  BY <1>1, <1>2
<1>7. ListTypeOK'
  <2>1. next' \in [Nodes -> [Levels -> ListKeys \cup {Nil, Unset}]]
    BY <1>1, <1>2, <1>3, <1>5
  <2> QED
    BY <1>1, <1>6, <2>1 DEF ListInv, ListTypeOK
<1>8. ASSUME NEW m \in Levels PROVE Linked(m)' = Linked(m)
  BY <1>1, <1>6 DEF Linked
<1>9. next'[key][l] = next[p][l] /\ next'[p][l] = next[p][l]
  BY <1>1, <1>2, <1>3, <1>5
<1>10. ASSUME NEW m \in Levels, NEW n \in Linked(m) \cup {head_} PROVE next'[n][m] = next[n][m]
  <2>1. n \in Nodes
    BY LinkedAreKeys DEF Nodes
  <2>2. ~ (n = key /\ m = l)
    <3> SUFFICES ASSUME n = key, m = l PROVE FALSE
      OBVIOUS
    <3>1. key \in Linked(l)
      BY <1>3, KeysAreNumbers
    <3>2. l < l
      BY <1>1, <3>1 DEF Linked
    <3> QED
      BY <1>4, <3>2
  <2> QED
    BY <1>1, <1>2, <1>3, <2>1, <2>2
<1>11. LevelsSorted'
  BY <1>8, <1>10 DEF ListInv, LevelsSorted
<1>12. HeightsInOrder'
  BY <1>1 DEF ListInv, HeightsInOrder
<1>13. InsertInPlace'
  BY <1>1, <1>3, <1>6, <1>8, <1>9 DEF InsertInPlace, Before
<1> QED
  BY <1>1, <1>7, <1>8, <1>11, <1>12, <1>13, ReadersUndisturbed DEF ListInv

(* The new node is linked in a level: the node before it leads to it and   *)
(* it leads to the node after.                                             *)
LEMMA InsertPublishKeepsInv ==
  ASSUME ListInv, InsertPublish
  PROVE  ListInv'
<1> DEFINE key == insert.limit
           l == insert.level
           p == insert.prev[l]
           Inserts == [phase : {"idle", "find", "own", "publish"}, limit : ListKeys \cup {Nil},
                       x : Nodes, level : Levels, prev : [Levels -> Nodes \cup {Unset}]]
<1>1. /\ insert.phase = "publish"
      /\ next' = [next EXCEPT ![p][l] = key]
      /\ insert' = IF l < height[key] THEN [insert EXCEPT !.phase = "own", !.level = l + 1] ELSE NoInsert
      /\ UNCHANGED <<height, max_height, stale, reader>>
  BY DEF InsertPublish
<1>2. /\ insert \in Inserts /\ l \in Levels /\ l \in Int
      /\ next \in [Nodes -> [Levels -> ListKeys \cup {Nil, Unset}]]
  BY KeysAreNumbers DEF ListInv, ListTypeOK
<1>3. /\ key \in ListKeys /\ key \in Nodes /\ key \in Int /\ l <= height[key]
      /\ height[key] \in Int /\ height[key] <= kMaxHeight
      /\ \A m \in Levels : l <= m /\ m <= height[key] => Before(insert.prev[m], key, m)
      /\ next[key][l] = next[p][l]
  BY <1>1, HeightTypes, KeysAreNumbers DEF ListInv, InsertInPlace, Nodes
<1>4. p \in Linked(l) \cup {head_} /\ p < key /\ \A k \in Linked(l) : k < key => k <= p
  <2>1. l <= l
    BY <1>2
  <2> QED
    BY <1>2, <1>3, <2>1 DEF Before
<1>5. p \in Nodes /\ p \in Int /\ p # key
  BY <1>3, <1>4, LinkedAreKeys, KeysAreNumbers DEF Nodes
<1>6. NoInsert \in Inserts /\ NoInsert.phase = "idle"
  BY ListAssumption DEF NoInsert, Nodes, Levels
<1>7. insert' \in Inserts
      /\ \/ insert'.phase = "idle" /\ ~ (l < height[key])
         \/ /\ insert'.phase = "own" /\ insert'.limit = key /\ insert'.level = l + 1
            /\ insert'.prev = insert.prev /\ l < height[key]
  <2>1. CASE l < height[key]
    <3>1. l + 1 \in Levels
      BY <1>2, <1>3, <2>1, ListAssumption DEF Levels
    <3> QED
      BY <1>1, <1>2, <2>1, <3>1
  <2>2. CASE ~ (l < height[key])
    BY <1>1, <1>6, <2>2
  <2> QED
    BY <2>1, <2>2
<1> HIDE DEF Inserts
<1>8. ListTypeOK'
  <2>1. next' \in [Nodes -> [Levels -> ListKeys \cup {Nil, Unset}]]
    BY <1>1, <1>2, <1>3, <1>5
  <2> QED
    BY <1>1, <1>7, <2>1 DEF ListInv, ListTypeOK, Inserts
<1>9. ASSUME NEW m \in Levels
      PROVE  Linked(m)' = IF m = l THEN Linked(m) \cup {key} ELSE Linked(m)
  <2>1. m \in Int
    BY KeysAreNumbers
  <2>2. \A k \in ListKeys \ {key} : k \in Linked(m)' <=> k \in Linked(m)
    BY <1>1, <1>7 DEF Linked
  <2>3. key \in Linked(m) <=> m <= height[key] /\ m < l
    BY <1>1, <1>3 DEF Linked
  <2>4. key \in Linked(m)' <=> m <= height[key] /\ m <= l
    <3>1. CASE insert'.phase = "idle"
      <4>1. key \in Linked(m)' <=> m <= height[key]
        BY <1>1, <1>3, <3>1 DEF Linked
      <4> QED
        BY <1>2, <1>3, <1>7, <2>1, <3>1, <4>1
    <3>2. CASE insert'.phase # "idle"
      <4>1. key \in Linked(m)' <=> m <= height[key] /\ m < l + 1
        BY <1>1, <1>3, <1>7, <3>2 DEF Linked
      <4> QED
        BY <1>2, <2>1, <4>1
    <3> QED
      BY <3>1, <3>2
  <2>5. (m <= height[key] /\ m <= l) <=> (m <= height[key] /\ m < l) \/ m = l
    BY <1>2, <1>3, <2>1
  <2>6. Linked(m) \subseteq ListKeys /\ Linked(m)' \subseteq ListKeys
    BY DEF Linked
  <2> QED
    BY <1>3, <2>2, <2>3, <2>4, <2>5, <2>6
<1>10. key \notin Linked(l)
  BY <1>1, <1>2 DEF Linked
<1>11. /\ next'[p][l] = key
       /\ \A n \in Nodes, m \in Levels : ~ (n = p /\ m = l) => next'[n][m] = next[n][m]
  BY <1>1, <1>2, <1>5
<1>12. ASSUME NEW m \in Levels, NEW n \in Linked(m) \cup {head_}
       PROVE  /\ n \in Nodes /\ n \in Int
              /\ next[n][m] # Nil => next[n][m] \in Linked(m) /\ next[n][m] \in Int /\ n < next[n][m]
              /\ \A k \in Linked(m) : /\ k \in Int
                                      /\ n < k => next[n][m] # Nil /\ next[n][m] <= k
  BY LinkedAreKeys, KeysAreNumbers DEF ListInv, LevelsSorted, Nodes
<1>13. LevelsSorted'
  <2> SUFFICES ASSUME NEW m \in Levels, NEW n \in Linked(m)' \cup {head_}
               PROVE  /\ next'[n][m] # Nil => next'[n][m] \in Linked(m)' /\ n < next'[n][m]
                      /\ \A k \in Linked(m)' : n < k => next'[n][m] # Nil /\ next'[n][m] <= k
    BY DEF LevelsSorted
  <2>1. CASE m # l
    <3>1. n \in Linked(m) \cup {head_} /\ Linked(m)' = Linked(m)
      BY <1>9, <2>1
    <3>2. next'[n][m] = next[n][m]
      BY <1>11, <1>12, <2>1, <3>1
    <3> QED
      BY <1>12, <3>1, <3>2
  <2>2. CASE m = l /\ n = p
    <3>1. next'[n][m] = key /\ key # Nil /\ key \in Linked(m)' /\ n < key
      BY <1>3, <1>4, <1>9, <1>11, <2>2, KeysAreNumbers
    <3>2. ASSUME NEW k \in Linked(m)', n < k PROVE key <= k
      <4>1. CASE k = key
        BY <1>3, <4>1
      <4>2. CASE k # key
        <5>1. k \in Linked(l) /\ k \in Int
          BY <1>9, <1>12, <2>2, <4>2
        <5> QED
          BY <1>3, <1>4, <1>5, <2>2, <3>2, <5>1
      <4> QED
        BY <4>1, <4>2
    <3> QED
      BY <3>1, <3>2
  <2>3. CASE m = l /\ n = key
    <3>1. next'[n][m] = next[p][l]
      BY <1>2, <1>3, <1>5, <1>11, <2>3
    <3>2. ASSUME next[p][l] # Nil PROVE next[p][l] \in Linked(m)' /\ key < next[p][l]
      <4>1. next[p][l] \in Linked(l) /\ next[p][l] \in Int /\ p < next[p][l]
        BY <1>2, <1>4, <1>12, <3>2
      <4>2. next[p][l] # key
        BY <1>10, <4>1
      <4>3. ~ (next[p][l] < key)
        BY <1>4, <1>5, <4>1
      <4> QED
        BY <1>3, <1>9, <2>3, <4>1, <4>2, <4>3
    <3>3. ASSUME NEW k \in Linked(m)', key < k PROVE next[p][l] # Nil /\ next[p][l] <= k
      <4>1. k \in Linked(l)
        BY <1>3, <1>9, <2>3, <3>3
      <4>2. k \in Int
        BY <4>1, LinkedAreKeys, KeysAreNumbers
      <4>3. p < k
        BY <1>3, <1>4, <1>5, <3>3, <4>2
      <4> QED
        BY <1>2, <1>4, <1>12, <4>1, <4>3
    <3> QED
      BY <2>3, <3>1, <3>2, <3>3
  <2>4. CASE m = l /\ n # p /\ n # key
    <3>1. n \in Linked(l) \cup {head_} /\ n \in Nodes /\ n \in Int
      BY <1>9, <1>12, <2>4
    <3>2. next'[n][m] = next[n][l]
      BY <1>2, <1>11, <2>4, <3>1
    <3>3. next[n][l] # Nil => next[n][l] \in Linked(m)' /\ n < next[n][l]
      BY <1>2, <1>9, <1>12, <2>4, <3>1
    <3>4. ASSUME NEW k \in Linked(m)', n < k PROVE next[n][l] # Nil /\ next[n][l] <= k
      <4>1. CASE k # key
        BY <1>2, <1>9, <1>12, <2>4, <3>1, <3>4, <4>1
      <4>2. CASE k = key
        <5>1. n <= p
          <6>1. CASE n = head_
            BY <1>5, <6>1, KeysAreNumbers DEF Nodes, head_
          <6>2. CASE n \in Linked(l)
            BY <1>4, <3>4, <4>2, <6>2
          <6> QED
            BY <3>1, <6>1, <6>2
        <5>2. n < p
          BY <1>5, <2>4, <3>1, <5>1
        <5>3. p \in Linked(l)
          BY <1>4, <3>1, <5>2, KeysAreNumbers DEF head_
        <5>4. next[n][l] # Nil /\ next[n][l] \in Int /\ next[n][l] <= p
          BY <1>2, <1>12, <3>1, <5>2, <5>3
        <5> QED
          BY <1>3, <1>4, <1>5, <4>2, <5>4
      <4> QED
        BY <4>1, <4>2
    <3> QED
      BY <3>2, <3>3, <3>4
  <2> QED
    BY <2>1, <2>2, <2>3, <2>4
<1>14. HeightsInOrder'
  BY <1>1 DEF ListInv, HeightsInOrder
<1>15. InsertInPlace'
  <2>1. CASE insert'.phase = "idle"
    BY <2>1 DEF InsertInPlace
  <2>2. CASE insert'.phase # "idle"
    <3>1. /\ insert'.phase = "own" /\ insert'.limit = key /\ insert'.level = l + 1
          /\ insert'.prev = insert.prev /\ l < height[key]
      BY <1>7, <2>2
    <3>2. l + 1 <= height[key]
      BY <1>2, <1>3, <3>1
    <3>3. ASSUME NEW m \in Levels, l + 1 <= m, m <= height[key]
          PROVE  Before(insert.prev[m], key, m) /\ Linked(m)' = Linked(m)
      <4>1. m # l /\ l <= m
        BY <1>2, <3>3, KeysAreNumbers
      <4> QED
        BY <1>3, <1>9, <3>3, <4>1
    <3> QED
      BY <1>1, <1>3, <3>1, <3>2, <3>3 DEF InsertInPlace, Before
  <2> QED
    BY <2>1, <2>2
<1>16. \A m \in Levels : Linked(m) \subseteq Linked(m)'
  BY <1>9
<1> QED
  BY <1>1, <1>8, <1>13, <1>14, <1>15, <1>16, ReadersUndisturbed DEF ListInv


(* What a reader does, one step at a time.                                 *)
LEMMA ReaderKeepsInv ==
  ASSUME ListInv, NEW r \in Readers,
         \/ \E l \in stale \cup {max_height} :
              ListSeekToLast(r, l) \/ ListPrev(r, l) \/ \E k \in ListKeys : ListSeek(r, k, l)
         \/ ReaderWalk(r) \/ ReaderFinds(r) \/ ListSeekToFirst(r) \/ NextNode(r)
  PROVE  ListInv'
<1>1. ASSUME reader[r].op = "idle", reader[r].node # Nil PROVE reader[r].node \in Linked(1)
  BY <1>1 DEF ListInv, ReadersMissNothing
<1>2. ASSUME NEW l \in stale \cup {max_height}, ListSeekToLast(r, l) PROVE ListInv'
  BY <1>2, BeginKeepsInv DEF ListSeekToLast
<1>3. ASSUME NEW l \in stale \cup {max_height}, ListPrev(r, l) PROVE ListInv'
  <2>1. Begin(r, "less", reader[r].node, l) /\ reader[r].node # Nil
    BY <1>3 DEF ListPrev
  <2>2. reader[r].node \in ListKeys
    BY <1>1, <2>1, LinkedAreKeys DEF Begin
  <2>3. reader[r].node \in Nat \cup {Nil} /\ head_ < reader[r].node
    BY <2>2, KeysAreNumbers
  <2> QED
    BY <2>1, <2>3, BeginKeepsInv
<1>4. ASSUME NEW l \in stale \cup {max_height}, NEW k \in ListKeys, ListSeek(r, k, l) PROVE ListInv'
  <2>1. k \in Nat \cup {Nil} /\ k # Nil /\ head_ < k
    BY KeysAreNumbers
  <2> QED
    BY <1>4, <2>1, BeginKeepsInv DEF ListSeek
<1>5. CASE ReaderWalk(r)
  BY <1>5, ReaderWalkKeepsInv
<1>6. CASE ReaderFinds(r)
  BY <1>6, ReaderFindsKeepsInv
<1>7. CASE ListSeekToFirst(r)
  BY <1>7, FollowKeepsInv DEF ListSeekToFirst
<1>8. CASE NextNode(r)
  <2>1. Follow(r, reader[r].node) /\ reader[r].node # Nil
    BY <1>8 DEF NextNode
  <2>2. reader[r].node \in Linked(1)
    BY <1>1, <2>1 DEF Follow
  <2> QED
    BY <2>1, <2>2, FollowKeepsInv
<1> QED
  BY <1>2, <1>3, <1>4, <1>5, <1>6, <1>7, <1>8

LEMMA ListStepKeepsInv == ListInv /\ [ListNext]_listVars => ListInv'
<1> SUFFICES ASSUME ListInv, [ListNext]_listVars PROVE ListInv'
  OBVIOUS
<1>1. ASSUME NEW k \in ListKeys, InsertBegin(k) PROVE ListInv'
  BY <1>1, InsertBeginKeepsInv
<1>2. CASE InsertFind
  BY <1>2, InsertFindKeepsInv
<1>3. ASSUME NEW h \in Levels, InsertNode(h) PROVE ListInv'
  BY <1>3, InsertNodeKeepsInv
<1>4. CASE InsertSetOwn
  BY <1>4, InsertSetOwnKeepsInv
<1>5. CASE InsertPublish
  BY <1>5, InsertPublishKeepsInv
<1>6. ASSUME NEW r \in Readers,
             \/ \E l \in stale \cup {max_height} :
                  ListSeekToLast(r, l) \/ ListPrev(r, l) \/ \E k \in ListKeys : ListSeek(r, k, l)
             \/ ReaderWalk(r) \/ ReaderFinds(r) \/ ListSeekToFirst(r) \/ NextNode(r)
      PROVE  ListInv'
  BY <1>6, ReaderKeepsInv
<1>7. CASE UNCHANGED listVars
  <2>1. UNCHANGED <<next, height, max_height, stale, insert, reader>>
    BY <1>7 DEF listVars
  <2>2. \A l : Linked(l)' = Linked(l)
    BY <2>1 DEF Linked
  <2>3. ListTypeOK' /\ HeightsInOrder'
    BY <2>1 DEF ListInv, ListTypeOK, HeightsInOrder
  <2>4. LevelsSorted' /\ InsertInPlace'
    BY <2>1, <2>2 DEF ListInv, LevelsSorted, InsertInPlace, Before
  <2>5. ReadersInPlace' /\ ReadersMissNothing'
    BY <2>1, <2>2 DEF ListInv, ReadersInPlace, ReadersMissNothing
  <2> QED
    BY <2>3, <2>4, <2>5 DEF ListInv
<1> QED
  BY <1>1, <1>2, <1>3, <1>4, <1>5, <1>6, <1>7 DEF ListNext

-----------------------------------------------------------------------------
(* Whatever the keys, the heights of the nodes and the number of readers,  *)
(* and however their steps interleave with those of one Insert, the links  *)
(* of each level lead through its keys in order and a call of a reader     *)
(* finds what was inserted before it began (SkipList::Insert and           *)
(* SkipList::Iterator: "one thread may insert while others read").         *)
THEOREM ListSafe == ListSpec => []ListIsRight
<1>1. ListInit => ListInv
  BY ListInvInit
<1>2. ListInv /\ [ListNext]_listVars => ListInv'
  BY ListStepKeepsInv
<1>3. ListInv => ListIsRight
  BY DEF ListInv, ListIsRight
<1> QED
  BY <1>1, <1>2, <1>3, PTL DEF ListSpec

-----------------------------------------------------------------------------
(* The lock of a database.                                                 *)

(* From a successful LockTable::Insert to the Remove that undoes it.       *)
Engaged == {"inserted", "holding", "failed", "closed", "unlocked"}

LocksTypeOK == locker \in [Lockers -> Engaged \cup {"idle", "opened", "refused", "removed"}]

(* The table has the file while a thread of the process is engaged, and    *)
(* lets no second one in.                                                  *)
InTable == \A c \in Lockers : locker[c] \in Engaged => c[1] \in locked_files

OneEngaged ==
  \A c, d \in Lockers : /\ locker[c] \in Engaged /\ locker[d] \in Engaged
                        /\ c[1] = d[1]
                        => c = d

(* Who holds the lock and has not been bereft of it has the kernel's.      *)
KernelKnows == \A c \in Holding \ bereft : kernel_lock = c[1]

LocksInv == LocksTypeOK /\ InTable /\ OneEngaged /\ KernelKnows

-----------------------------------------------------------------------------
LEMMA LocksInvInit == LocksInit => LocksInv
  BY DEF LocksInit, LocksInv, LocksTypeOK, InTable, OneEngaged, KernelKnows, Engaged, Holding

(* A step of one thread that neither enters nor leaves the table: what it  *)
(* is engaged in it was engaged in before.                                 *)
LEMMA StaysEngaged ==
  ASSUME LocksInv, NEW c \in Lockers,
         NEW to \in Engaged \cup {"idle", "opened", "refused", "removed"},
         Go(c, to), to \in Engaged => locker[c] \in Engaged,
         UNCHANGED locked_files
  PROVE  LocksTypeOK' /\ InTable' /\ OneEngaged'
  BY DEF LocksInv, LocksTypeOK, InTable, OneEngaged, Go

(* A process that closes a descriptor takes the lock from its own threads. *)
LEMMA CloseTellsAll ==
  ASSUME LocksInv, NEW c \in Lockers,
         NEW to \in {"idle", "closed"}, Go(c, to), Close(c[1])
  PROVE  KernelKnows'
<1> SUFFICES ASSUME NEW d \in Holding', d \notin bereft' PROVE kernel_lock' = d[1]
  BY DEF KernelKnows
<1>1. d \in Lockers /\ d # c /\ locker[d] = "holding"
  BY DEF Holding, Go, LocksInv, LocksTypeOK
<1>2. d \in Holding /\ d \notin bereft /\ d[1] # c[1]
  BY <1>1 DEF Holding, Close
<1>3. kernel_lock = d[1]
  BY <1>2 DEF LocksInv, KernelKnows
<1> QED
  BY <1>2, <1>3 DEF Close

LEMMA LockKernelKeepsInv ==
  ASSUME LocksInv, NEW c \in Lockers, LockKernel(c)
  PROVE  LocksInv'
<1>1. locker[c] = "inserted" /\ UNCHANGED <<locked_files, bereft>>
  BY DEF LockKernel
<1>2. CASE kernel_lock \in {c[1], NoProcess}
  <2>1. kernel_lock' = c[1] /\ Go(c, "holding")
    BY <1>2 DEF LockKernel
  <2>2. LocksTypeOK' /\ InTable' /\ OneEngaged'
    BY <1>1, <2>1, StaysEngaged DEF Engaged
  <2>3. KernelKnows'
    <3> SUFFICES ASSUME NEW d \in Holding', d \notin bereft' PROVE kernel_lock' = d[1]
      BY DEF KernelKnows
    <3>1. CASE d = c
      BY <2>1, <3>1
    <3>2. CASE d # c
      <4>1. d \in Holding \ bereft /\ d[1] \in Processes
        BY <1>1, <2>1, <3>2 DEF Holding, Go, LocksInv, LocksTypeOK, Lockers
      <4>2. kernel_lock = d[1]
        BY <4>1 DEF LocksInv, KernelKnows
      <4> QED
        BY <1>2, <2>1, <4>1, <4>2, LocksAssumption
    <3> QED
      BY <3>1, <3>2
  <2> QED
    BY <2>2, <2>3 DEF LocksInv
<1>3. CASE kernel_lock \notin {c[1], NoProcess}
  <2>1. Go(c, "failed") /\ UNCHANGED kernel_lock
    BY <1>3 DEF LockKernel
  <2>2. LocksTypeOK' /\ InTable' /\ OneEngaged'
    BY <1>1, <2>1, StaysEngaged DEF Engaged
  <2>3. KernelKnows'
    BY <1>1, <2>1 DEF LocksInv, KernelKnows, Holding, Go, LocksTypeOK
  <2> QED
    BY <2>2, <2>3 DEF LocksInv
<1> QED
  BY <1>2, <1>3

LEMMA UnlockKernelKeepsInv ==
  ASSUME LocksInv, NEW c \in Lockers, UnlockKernel(c)
  PROVE  LocksInv'
<1>1. /\ locker[c] = "holding" /\ Go(c, "unlocked")
      /\ kernel_lock' = IF kernel_lock = c[1] THEN NoProcess ELSE kernel_lock
      /\ bereft' = bereft \ {c}
      /\ UNCHANGED locked_files
  BY DEF UnlockKernel
<1>2. LocksTypeOK' /\ InTable' /\ OneEngaged'
  BY <1>1, StaysEngaged DEF Engaged
<1>3. KernelKnows'
  <2> SUFFICES ASSUME NEW d \in Holding', d \notin bereft' PROVE kernel_lock' = d[1]
    BY DEF KernelKnows
  <2>1. d \in Lockers /\ d # c /\ locker[d] = "holding"
    BY <1>1 DEF Holding, Go, LocksInv, LocksTypeOK
  <2>2. kernel_lock = d[1]
    BY <1>1, <2>1 DEF LocksInv, KernelKnows, Holding
  <2>3. c[1] # d[1]
    BY <1>1, <2>1 DEF LocksInv, OneEngaged, Engaged
  <2> QED
    BY <1>1, <2>2, <2>3
<1> QED
  BY <1>2, <1>3 DEF LocksInv

LEMMA LockTableInsertKeepsInv ==
  ASSUME LocksInv, NEW c \in Lockers, LockTableInsert(c)
  PROVE  LocksInv'
<1>1. /\ locker[c] = "opened"
      /\ Go(c, IF c[1] \in locked_files THEN "refused" ELSE "inserted")
      /\ locked_files' = locked_files \cup {c[1]}
      /\ UNCHANGED <<kernel_lock, bereft>>
  BY DEF LockTableInsert
<1>2. /\ \A d \in Lockers : d # c => locker'[d] = locker[d]
      /\ locker'[c] = IF c[1] \in locked_files THEN "refused" ELSE "inserted"
  BY <1>1 DEF Go, LocksInv, LocksTypeOK
<1>3. LocksTypeOK'
  BY <1>1 DEF Go, LocksInv, LocksTypeOK, Engaged
<1>4. InTable'
  BY <1>1, <1>2 DEF LocksInv, InTable
<1>5. OneEngaged'
  <2> SUFFICES ASSUME NEW d \in Lockers, NEW e \in Lockers, locker'[d] \in Engaged,
                      locker'[e] \in Engaged, d[1] = e[1]
               PROVE  d = e
    BY DEF OneEngaged
  <2>1. CASE d # c /\ e # c
    BY <1>2, <2>1 DEF LocksInv, OneEngaged
  <2>2. ASSUME d = c \/ e = c, d # e PROVE FALSE
    <3>1. c[1] \notin locked_files
      BY <1>2, <2>2 DEF Engaged
    <3>2. c[1] \in locked_files
      BY <1>2, <2>2 DEF LocksInv, InTable
    <3> QED
      BY <3>1, <3>2
  <2> QED
    BY <2>1, <2>2
<1>6. KernelKnows'
  BY <1>1, <1>2 DEF LocksInv, KernelKnows, Holding
<1> QED
  BY <1>3, <1>4, <1>5, <1>6 DEF LocksInv

LEMMA LockTableRemoveKeepsInv ==
  ASSUME LocksInv, NEW c \in Lockers, LockTableRemove(c)
  PROVE  LocksInv'
<1> DEFINE to == IF locker[c] = "closed" THEN "idle" ELSE "removed"
<1>1. /\ locker[c] \in {"closed", "unlocked"} /\ Go(c, to)
      /\ locked_files' = locked_files \ {c[1]}
      /\ UNCHANGED <<kernel_lock, bereft>>
  BY DEF LockTableRemove
<1>2. \A d \in Lockers : d # c => locker'[d] = locker[d]
  BY <1>1 DEF Go, LocksInv, LocksTypeOK
<1>3. locker'[c] \in {"idle", "removed"} /\ LocksTypeOK'
  BY <1>1 DEF Go, LocksInv, LocksTypeOK
<1>4. OneEngaged'
  BY <1>2, <1>3 DEF LocksInv, OneEngaged, Engaged
<1>5. InTable'
  <2> SUFFICES ASSUME NEW d \in Lockers, locker'[d] \in Engaged PROVE d[1] \in locked_files'
    BY DEF InTable
  <2>1. d # c /\ locker[d] \in Engaged
    BY <1>2, <1>3 DEF Engaged
  <2>2. d[1] # c[1]
    BY <1>1, <2>1 DEF LocksInv, OneEngaged, Engaged
  <2>3. d[1] \in locked_files
    BY <2>1 DEF LocksInv, InTable
  <2> QED
    BY <1>1, <2>2, <2>3
<1>6. KernelKnows'
  BY <1>1, <1>2, <1>3 DEF LocksInv, KernelKnows, Holding
<1> QED
  BY <1>3, <1>4, <1>5, <1>6 DEF LocksInv

LEMMA LocksStepKeepsInv == LocksInv /\ [LocksNext]_lockVars => LocksInv'
<1> SUFFICES ASSUME LocksInv, [LocksNext]_lockVars PROVE LocksInv'
  OBVIOUS
<1>1. ASSUME NEW c \in Lockers, OpenLockFile(c) PROVE LocksInv'
  <2>1. Go(c, "opened") /\ UNCHANGED <<locked_files, kernel_lock, bereft>>
    BY <1>1 DEF OpenLockFile
  <2>2. LocksTypeOK' /\ InTable' /\ OneEngaged'
    BY <2>1, StaysEngaged DEF Engaged
  <2>3. KernelKnows'
    BY <2>1 DEF LocksInv, KernelKnows, Holding, Go, LocksTypeOK
  <2> QED
    BY <2>2, <2>3 DEF LocksInv
<1>2. ASSUME NEW c \in Lockers, LockTableInsert(c) PROVE LocksInv'
  BY <1>2, LockTableInsertKeepsInv
<1>3. ASSUME NEW c \in Lockers, LockKernel(c) PROVE LocksInv'
  BY <1>3, LockKernelKeepsInv
<1>4. ASSUME NEW c \in Lockers, CloseRefused(c) \/ CloseUnlocked(c) PROVE LocksInv'
  <2>1. Go(c, "idle") /\ Close(c[1]) /\ UNCHANGED locked_files
    BY <1>4 DEF CloseRefused, CloseUnlocked
  <2> QED
    BY <2>1, StaysEngaged, CloseTellsAll DEF LocksInv, Engaged
<1>5. ASSUME NEW c \in Lockers, CloseFailed(c) PROVE LocksInv'
  <2>1. locker[c] = "failed" /\ Go(c, "closed") /\ Close(c[1]) /\ UNCHANGED locked_files
    BY <1>5 DEF CloseFailed
  <2> QED
    BY <2>1, StaysEngaged, CloseTellsAll DEF LocksInv, Engaged
<1>6. ASSUME NEW c \in Lockers, LockTableRemove(c) PROVE LocksInv'
  BY <1>6, LockTableRemoveKeepsInv
<1>7. ASSUME NEW c \in Lockers, UnlockKernel(c) PROVE LocksInv'
  BY <1>7, UnlockKernelKeepsInv
<1>8. CASE UNCHANGED lockVars
  BY <1>8 DEF lockVars, LocksInv, LocksTypeOK, InTable, OneEngaged, KernelKnows, Holding
<1> QED
  BY <1>1, <1>2, <1>3, <1>4, <1>5, <1>6, <1>7, <1>8 DEF LocksNext

-----------------------------------------------------------------------------
(* However the threads' calls of LockFile and UnlockFile interleave, the   *)
(* lock table lets at most one thread of a process hold the lock.          *)
THEOREM OneThreadHoldsAlways == LocksSpec => []OneThreadHolds
<1>1. LocksInit => LocksInv
  BY LocksInvInit
<1>2. LocksInv /\ [LocksNext]_lockVars => LocksInv'
  BY LocksStepKeepsInv
<1>3. LocksInv => OneThreadHolds
  BY DEF LocksInv, OneEngaged, OneThreadHolds, Holding, Engaged
<1> QED
  BY <1>1, <1>2, <1>3, PTL DEF LocksSpec

LEMMA InvExcludes == LocksInv => LockIsExclusive
<1> SUFFICES ASSUME LocksInv, NEW c \in Holding, NEW d \in Holding,
                    c \notin bereft, d \notin bereft
             PROVE  c = d
  BY DEF LockIsExclusive
<1>1. c[1] = d[1]
  BY DEF LocksInv, KernelKnows
<1> QED
  BY <1>1 DEF LocksInv, OneEngaged, Holding, Engaged

(* Two who hold the lock of one database at a time do so only because a    *)
(* descriptor of the LOCK file was closed in the process of one of them.   *)
THEOREM LockIsExclusiveAlways == LocksSpec => []LockIsExclusive
  BY LocksInvInit, LocksStepKeepsInv, InvExcludes, PTL DEF LocksSpec


-----------------------------------------------------------------------------
(* The background thread.                                                  *)

Items == Callers \X Nat

(* Items run one at a time, and there is a thread from the first Schedule  *)
(* on.                                                                     *)
ThreadInv ==
  /\ background_work_queue \in Seq(Items) /\ executing \in Seq(Items)
  /\ scheduled \in Seq(Items) /\ ran \in Seq(Items)
  /\ started_background_thread \in BOOLEAN
  /\ thread \in {"none", "waiting", "awake", "running"}
  /\ started_background_thread <=> thread # "none"
  /\ thread # "running" => executing = << >>
  /\ NoWorkForgotten

(* An item goes to the end of what is waiting, so of all that came.        *)
LEMMA AppendToLast ==
  ASSUME NEW r \in Seq(Items), NEW e \in Seq(Items), NEW q \in Seq(Items), NEW x \in Items
  PROVE  Append(r \o e \o q, x) = r \o e \o Append(q, x)
<1> DEFINE s == r \o e
<1>1. s \in Seq(Items)
  BY ConcatProperties
<1> HIDE DEF s
<1>2. Append(s \o q, x) = s \o Append(q, x)
  <2>1. s \o q \in Seq(Items) /\ <<x>> \in Seq(Items)
    BY <1>1, ConcatProperties
  <2>2. Append(s \o q, x) = (s \o q) \o <<x>>
    BY <2>1
  <2>3. Append(q, x) = q \o <<x>>
    OBVIOUS
  <2> QED
    BY <1>1, <2>1, <2>2, <2>3, ConcatAssociative
<1> QED
  BY <1>2 DEF s

(* What is executed is what waited first.                                  *)
LEMMA FirstIsNext ==
  ASSUME NEW r \in Seq(Items), NEW e \in Seq(Items), NEW q \in Seq(Items)
  PROVE  r \o << >> \o (e \o q) = r \o e \o q
<1>1. r \o << >> = r
  BY ConcatEmptySeq
<1>2. (r \o e) \o q = r \o (e \o q)
  BY ConcatAssociative
<1> QED
  BY <1>1, <1>2

(* Every step of Schedule and BackgroundThreadMain keeps the items in      *)
(* order and the thread awake while there are some.                        *)
LEMMA ThreadKeepsInv ==
  ASSUME ThreadInv, ThreadNext
  PROVE  ThreadInv'
<1>1. ASSUME NEW caller \in Callers, Schedule(caller)
      PROVE  ThreadInv'
  <2> DEFINE item == <<caller, Len(scheduled) + 1>>
  <2>1. item \in Items
    BY DEF Items, ThreadInv
  <2> HIDE DEF item
  <2>2. /\ scheduled' = Append(scheduled, item)
        /\ background_work_queue' = Append(background_work_queue, item)
        /\ executing' = executing /\ ran' = ran /\ started_background_thread' = TRUE
        /\ thread' = IF ~ started_background_thread \/ (Wakes /\ thread = "waiting") THEN "awake"
                     ELSE thread
    BY <1>1 DEF Schedule, item
  <2>3. scheduled' = ran' \o executing' \o background_work_queue'
    <3>1. /\ ran \in Seq(Items) /\ executing \in Seq(Items) /\ background_work_queue \in Seq(Items)
          /\ scheduled = ran \o executing \o background_work_queue
      BY DEF ThreadInv, NoWorkForgotten
    <3>2. Append(ran \o executing \o background_work_queue, item)
            = ran \o executing \o Append(background_work_queue, item)
      BY <2>1, <3>1, AppendToLast
    <3> QED
      BY <2>2, <3>1, <3>2
  <2>4. scheduled' \in Seq(Items) /\ background_work_queue' \in Seq(Items)
    BY <2>1, <2>2 DEF ThreadInv
  <2>5. thread' \in {"awake", "running"} /\ (thread' # "running" => executing' = << >>)
    BY <2>2 DEF ThreadInv, NoWorkForgotten, Wakes
  <2> QED
    BY <2>2, <2>3, <2>4, <2>5 DEF ThreadInv, NoWorkForgotten
<1>2. CASE BackgroundThreadMain
  <2>1. CASE background_work_queue = << >>
    BY <1>2, <2>1 DEF BackgroundThreadMain, ThreadInv, NoWorkForgotten
  <2>2. CASE background_work_queue # << >>
    <3>1. /\ thread = "awake" /\ thread' = "running"
          /\ executing' = <<Head(background_work_queue)>>
          /\ background_work_queue' = Tail(background_work_queue)
          /\ ran' = ran /\ scheduled' = scheduled
          /\ started_background_thread' = started_background_thread
      BY <1>2, <2>2 DEF BackgroundThreadMain
    <3>2. /\ executing' \in Seq(Items) /\ background_work_queue' \in Seq(Items)
          /\ background_work_queue = executing' \o background_work_queue'
      BY <2>2, <3>1 DEF ThreadInv
    <3>3. executing = << >> /\ ran \in Seq(Items)
      BY <3>1 DEF ThreadInv
    <3>4. ran \o << >> \o (executing' \o background_work_queue')
            = ran \o executing' \o background_work_queue'
      BY <3>2, <3>3, FirstIsNext
    <3>5. ran \o executing \o background_work_queue = ran \o executing' \o background_work_queue'
      BY <3>2, <3>3, <3>4
    <3> QED
      BY <3>1, <3>2, <3>5 DEF ThreadInv, NoWorkForgotten
  <2> QED
    BY <2>1, <2>2
<1>3. CASE BackgroundWorkDone
  <2>1. /\ thread = "running" /\ thread' = "awake"
        /\ ran' = ran \o executing /\ executing' = << >>
        /\ background_work_queue' = background_work_queue /\ scheduled' = scheduled
        /\ started_background_thread' = started_background_thread
    BY <1>3 DEF BackgroundWorkDone
  <2>2. ran' \in Seq(Items) /\ ran' \o executing' = ran'
    BY <2>1, ConcatProperties, ConcatEmptySeq DEF ThreadInv
  <2> QED
    BY <2>1, <2>2 DEF ThreadInv, NoWorkForgotten
<1> QED
  BY <1>1, <1>2, <1>3 DEF ThreadNext

-----------------------------------------------------------------------------
(* The limits.                                                             *)

OpenerStates ==
  {"none", "mapping", "no_mmap", "mapped", "want_fd", "permanent_fd", "no_fd", "opened_per_read"}

LimitsInv ==
  /\ opener \in [Openers -> OpenerStates]
  /\ mmap_allowed \in Int /\ fd_allowed \in Int
  /\ LimitsHold

OpenersIn(o, S) == {t \in Openers : o[t] \in S}
CountIn(o, S) == Cardinality(OpenersIn(o, S))
OneIn(x, S) == IF x \in S THEN 1 ELSE 0

(* One thread's step changes the number of those in some states by one.    *)
LEMMA OneOpenerMoves ==
  ASSUME NEW o \in [Openers -> OpenerStates], NEW t \in Openers,
         NEW v \in OpenerStates, NEW S \in SUBSET OpenerStates
  PROVE  /\ CountIn(o, S) \in Nat
         /\ CountIn([o EXCEPT ![t] = v], S) = CountIn(o, S) - OneIn(o[t], S) + OneIn(v, S)
<1> DEFINE A == OpenersIn(o, S)
           R == A \ {t}
           B == OpenersIn([o EXCEPT ![t] = v], S)
<1>1. IsFiniteSet(A)
  BY EnvironmentAssumption, FS_Subset DEF OpenersIn
<1>2. t \in A <=> o[t] \in S
  BY DEF OpenersIn
<1>3. t \notin R
  OBVIOUS
<1>4. B = IF v \in S THEN R \cup {t} ELSE R
  BY DEF OpenersIn
<1> HIDE DEF A, B
<1>5. /\ Cardinality(A) \in Nat /\ IsFiniteSet(R)
      /\ Cardinality(R) = IF t \in A THEN Cardinality(A) - 1 ELSE Cardinality(A)
  BY <1>1, FS_RemoveElement, FS_CardinalityType
<1> HIDE DEF R
<1>6. Cardinality(R) \in Nat /\ Cardinality(R \cup {t}) = Cardinality(R) + 1
  BY <1>3, <1>5, FS_AddElement, FS_CardinalityType
<1>7. Cardinality(B) = Cardinality(A) - (IF o[t] \in S THEN 1 ELSE 0)
                                      + (IF v \in S THEN 1 ELSE 0)
  <2>1. CASE v \in S
    BY <2>1, <1>2, <1>4, <1>5, <1>6
  <2>2. CASE v \notin S
    BY <2>2, <1>2, <1>4, <1>5, <1>6
  <2> QED
    BY <2>1, <2>2
<1> QED
  BY <1>5, <1>7 DEF A, B, CountIn, OneIn

(* What is counted, by name.                                               *)
LEMMA LimitsCount ==
  LimitsHold <=>
    /\ CountIn(opener, {"mapping", "mapped"}) <= MaxMmaps
    /\ CountIn(opener, {"permanent_fd"}) <= MaxOpenFiles
    /\ mmap_allowed = MaxMmaps - CountIn(opener, {"mapping", "mapped", "no_mmap"})
    /\ fd_allowed = MaxOpenFiles - CountIn(opener, {"permanent_fd", "no_fd"})
BY DEF LimitsHold, OpenersIn, CountIn

(* Acquire gives back what it took beyond the limit, and every file what   *)
(* it was given.                                                           *)
LEMMA LimitsKeepInv ==
  ASSUME LimitsInv, LimitsNext
  PROVE  LimitsInv'
<1> DEFINE maps == CountIn(opener, {"mapping", "mapped"})
           fds == CountIn(opener, {"permanent_fd"})
           mapsTaken == CountIn(opener, {"mapping", "mapped", "no_mmap"})
           fdsTaken == CountIn(opener, {"permanent_fd", "no_fd"})
<1>1. /\ maps <= MaxMmaps /\ fds <= MaxOpenFiles
      /\ mmap_allowed = MaxMmaps - mapsTaken /\ fd_allowed = MaxOpenFiles - fdsTaken
  BY LimitsCount DEF LimitsInv
<1>2. maps <= mapsTaken /\ fds <= fdsTaken
  <2>1. /\ IsFiniteSet(OpenersIn(opener, {"mapping", "mapped", "no_mmap"}))
        /\ IsFiniteSet(OpenersIn(opener, {"permanent_fd", "no_fd"}))
    BY EnvironmentAssumption, FS_Subset DEF OpenersIn
  <2>2. /\ OpenersIn(opener, {"mapping", "mapped"}) \subseteq OpenersIn(opener, {"mapping", "mapped", "no_mmap"})
        /\ OpenersIn(opener, {"permanent_fd"}) \subseteq OpenersIn(opener, {"permanent_fd", "no_fd"})
    BY DEF OpenersIn
  <2> QED
    BY <2>1, <2>2, FS_Subset DEF CountIn
<1>3. MaxMmaps \in Nat /\ MaxOpenFiles \in Nat
  BY EnvironmentAssumption
<1>4. PICK t \in Openers :
        \/ NewRandomAccessFile(t) \/ MmapFails(t) \/ MmapSucceeds(t) \/ GiveBackMmap(t)
        \/ AcquireFd(t) \/ GiveBackFd(t) \/ DestroyRandomAccessFile(t)
  BY DEF LimitsNext
<1>5. PICK v \in OpenerStates :
        /\ opener' = [opener EXCEPT ![t] = v]
        /\ \/ /\ opener[t] = "none" /\ v = "mapping" /\ mmap_allowed > 0
              /\ mmap_allowed' = mmap_allowed - 1 /\ fd_allowed' = fd_allowed
           \/ /\ opener[t] = "none" /\ v = "no_mmap"
              /\ mmap_allowed' = mmap_allowed - 1 /\ fd_allowed' = fd_allowed
           \/ /\ opener[t] = "mapping" /\ v = "none"
              /\ mmap_allowed' = mmap_allowed + 1 /\ fd_allowed' = fd_allowed
           \/ /\ opener[t] = "mapping" /\ v = "mapped"
              /\ mmap_allowed' = mmap_allowed /\ fd_allowed' = fd_allowed
           \/ /\ opener[t] = "no_mmap" /\ v = "want_fd"
              /\ mmap_allowed' = mmap_allowed + 1 /\ fd_allowed' = fd_allowed
           \/ /\ opener[t] = "want_fd" /\ v = "permanent_fd" /\ fd_allowed > 0
              /\ mmap_allowed' = mmap_allowed /\ fd_allowed' = fd_allowed - 1
           \/ /\ opener[t] = "want_fd" /\ v = "no_fd"
              /\ mmap_allowed' = mmap_allowed /\ fd_allowed' = fd_allowed - 1
           \/ /\ opener[t] = "no_fd" /\ v = "opened_per_read"
              /\ mmap_allowed' = mmap_allowed /\ fd_allowed' = fd_allowed + 1
           \/ /\ opener[t] = "mapped" /\ v = "none"
              /\ mmap_allowed' = mmap_allowed + 1 /\ fd_allowed' = fd_allowed
           \/ /\ opener[t] = "permanent_fd" /\ v = "none"
              /\ mmap_allowed' = mmap_allowed /\ fd_allowed' = fd_allowed + 1
           \/ /\ opener[t] = "opened_per_read" /\ v = "none"
              /\ mmap_allowed' = mmap_allowed /\ fd_allowed' = fd_allowed
  <2>1. CASE NewRandomAccessFile(t)
    BY <2>1 DEF NewRandomAccessFile, OpenerStates, LimitsInv
  <2>2. CASE MmapFails(t) \/ MmapSucceeds(t) \/ GiveBackMmap(t)
    BY <2>2 DEF MmapFails, MmapSucceeds, GiveBackMmap, OpenerStates, LimitsInv
  <2>3. CASE AcquireFd(t)
    BY <2>3 DEF AcquireFd, OpenerStates, LimitsInv
  <2>4. CASE GiveBackFd(t)
    BY <2>4 DEF GiveBackFd, OpenerStates, LimitsInv
  <2>5. CASE DestroyRandomAccessFile(t)
    BY <2>5 DEF DestroyRandomAccessFile, OpenerStates, LimitsInv
  <2> QED
    BY <1>4, <2>1, <2>2, <2>3, <2>4, <2>5
<1>6. /\ maps' = maps - OneIn(opener[t], {"mapping", "mapped"}) + OneIn(v, {"mapping", "mapped"})
      /\ fds' = fds - OneIn(opener[t], {"permanent_fd"}) + OneIn(v, {"permanent_fd"})
      /\ mapsTaken' = mapsTaken - OneIn(opener[t], {"mapping", "mapped", "no_mmap"})
                                + OneIn(v, {"mapping", "mapped", "no_mmap"})
      /\ fdsTaken' = fdsTaken - OneIn(opener[t], {"permanent_fd", "no_fd"})
                              + OneIn(v, {"permanent_fd", "no_fd"})
      /\ maps \in Nat /\ fds \in Nat /\ mapsTaken \in Nat /\ fdsTaken \in Nat
  <2>1. opener \in [Openers -> OpenerStates] /\ opener' = [opener EXCEPT ![t] = v]
    BY <1>5 DEF LimitsInv
  <2>2. PICK o \in [Openers -> OpenerStates] : o = opener
    BY <2>1
  <2>3. \A S \in SUBSET OpenerStates :
          /\ CountIn(o, S) \in Nat
          /\ CountIn([o EXCEPT ![t] = v], S) = CountIn(o, S) - OneIn(o[t], S) + OneIn(v, S)
    BY OneOpenerMoves
  <2>4. /\ {"mapping", "mapped"} \in SUBSET OpenerStates
        /\ {"permanent_fd"} \in SUBSET OpenerStates
        /\ {"mapping", "mapped", "no_mmap"} \in SUBSET OpenerStates
        /\ {"permanent_fd", "no_fd"} \in SUBSET OpenerStates
    BY DEF OpenerStates
  <2> QED
    BY <2>1, <2>2, <2>3, <2>4
<1> HIDE DEF maps, fds, mapsTaken, fdsTaken
<1>7. /\ maps' <= MaxMmaps /\ fds' <= MaxOpenFiles
      /\ mmap_allowed' = MaxMmaps - mapsTaken' /\ fd_allowed' = MaxOpenFiles - fdsTaken'
      /\ mmap_allowed' \in Int /\ fd_allowed' \in Int
  BY <1>1, <1>2, <1>3, <1>5, <1>6 DEF OneIn
<1>8. LimitsHold'
  BY <1>7 DEF LimitsHold, CountIn, OpenersIn, maps, fds, mapsTaken, fdsTaken
<1> QED
  BY <1>5, <1>7, <1>8 DEF LimitsInv
-----------------------------------------------------------------------------
(* The buffer of a file.                                                   *)

(* Bytes in the order in which they were appended, of the first a.         *)
Ascending(s, a) ==
  /\ \A i \in 1 .. Len(s) : s[i] <= a
  /\ \A i, j \in 1 .. Len(s) : i < j => s[i] < s[j]

(* All of the first a bytes.                                               *)
Whole(s, a) == Len(s) = a /\ \A i \in 1 .. Len(s) : s[i] = i

WritableInv ==
  /\ buf \in Seq(Nat) /\ on_file \in Seq(Nat)
  /\ appended \in Nat /\ durable \in Nat /\ synced_to \in Nat /\ io_failed \in BOOLEAN
  /\ Len(buf) <= kWritableFileBufferSize
  /\ Ascending(on_file \o buf, appended)
  /\ ~ io_failed => Whole(on_file \o buf, appended) /\ synced_to <= durable

Begins(p, s) == Len(p) <= Len(s) /\ \A i \in 1 .. Len(p) : p[i] = s[i]

LEMMA ElementsOfConcat ==
  ASSUME NEW s \in Seq(Nat), NEW t \in Seq(Nat)
  PROVE  /\ s \o t \in Seq(Nat) /\ Len(s \o t) = Len(s) + Len(t)
         /\ \A i \in 1 .. Len(s) : (s \o t)[i] = s[i]
         /\ \A i \in 1 .. Len(t) : (s \o t)[Len(s) + i] = t[i]
         /\ \A i \in 1 .. Len(s) + Len(t) : i > Len(s) => (s \o t)[i] = t[i - Len(s)]
<1>1. /\ s \o t \in Seq(Nat) /\ Len(s \o t) = Len(s) + Len(t)
      /\ \A i \in 1 .. Len(s) + Len(t) :
           (s \o t)[i] = IF i <= Len(s) THEN s[i] ELSE t[i - Len(s)]
  BY ConcatProperties
<1>2. Len(s) \in Nat /\ Len(t) \in Nat
  OBVIOUS
<1> QED
  BY <1>1, <1>2

LEMMA FirstElements ==
  ASSUME NEW s \in Seq(Nat), NEW m \in 0 .. Len(s)
  PROVE  /\ SubSeq(s, 1, m) \in Seq(Nat) /\ Len(SubSeq(s, 1, m)) = m
         /\ \A i \in 1 .. m : SubSeq(s, 1, m)[i] = s[i]
  OBVIOUS

(* What is written begins what was to be written, and is a file in order.  *)
LEMMA BeginningInOrder ==
  ASSUME NEW s \in Seq(Nat), NEW p \in Seq(Nat), NEW a \in Nat, Begins(p, s), Ascending(s, a)
  PROVE  Ascending(p, a)
<1>1. Len(p) \in Nat /\ Len(s) \in Nat /\ \A i \in 1 .. Len(p) : i \in 1 .. Len(s) /\ p[i] = s[i]
  <2>1. Len(p) <= Len(s) /\ \A i \in 1 .. Len(p) : p[i] = s[i]
    BY Zenon DEF Begins
  <2>2. Len(p) \in Nat /\ Len(s) \in Nat
    OBVIOUS
  <2> QED
    BY <2>1, <2>2
<1> QED
  BY <1>1 DEF Ascending

LEMMA ConcatBegins ==
  ASSUME NEW s \in Seq(Nat), NEW t \in Seq(Nat), NEW p \in Seq(Nat), Begins(p, t)
  PROVE  Begins(s \o p, s \o t)
<1>1. /\ Len(p) <= Len(t) /\ \A i \in 1 .. Len(p) : p[i] = t[i]
      /\ Len(p) \in Nat /\ Len(t) \in Nat /\ Len(s) \in Nat
  <2>1. Len(p) <= Len(t) /\ \A i \in 1 .. Len(p) : p[i] = t[i]
    BY Zenon DEF Begins
  <2>2. Len(p) \in Nat /\ Len(t) \in Nat /\ Len(s) \in Nat
    OBVIOUS
  <2> QED
    BY <2>1, <2>2
<1>2. Len(s \o p) = Len(s) + Len(p) /\ Len(s \o t) = Len(s) + Len(t)
  BY ElementsOfConcat
<1>3. ASSUME NEW i \in 1 .. Len(s \o p)
      PROVE  (s \o p)[i] = (s \o t)[i]
  <2>1. CASE i <= Len(s)
    BY <2>1, <1>1, <1>2, ElementsOfConcat
  <2>2. CASE i > Len(s)
    <3>1. i \in 1 .. Len(s) + Len(p) /\ i \in 1 .. Len(s) + Len(t) /\ i - Len(s) \in 1 .. Len(p)
      BY <2>2, <1>1, <1>2
    <3>2. (s \o p)[i] = p[i - Len(s)] /\ (s \o t)[i] = t[i - Len(s)]
      BY <2>2, <3>1, ElementsOfConcat
    <3> QED
      BY <3>1, <3>2 DEF Begins
  <2> QED
    BY <2>1, <2>2, <1>1, <1>2
<1> QED
  BY <1>1, <1>2, <1>3 DEF Begins

(* The bytes of one Append continue those before.                          *)
LEMMA AppendedInOrder ==
  ASSUME NEW s \in Seq(Nat), NEW a \in Nat, NEW n \in Nat, NEW d, d = [i \in 1 .. n |-> a + i],
         Ascending(s, a)
  PROVE  /\ d \in Seq(Nat) /\ Len(d) = n
         /\ Ascending(s \o d, a + n)
         /\ Whole(s, a) => Whole(s \o d, a + n)
<1>1. d \in Seq(Nat) /\ Len(d) = n /\ \A i \in 1 .. n : d[i] = a + i
  OBVIOUS
<1>2. Len(s) \in Nat /\ Len(s \o d) = Len(s) + n /\ \A i \in 1 .. Len(s) : s[i] \in Nat
  BY <1>1, ElementsOfConcat
<1>3. /\ \A i \in 1 .. Len(s) : (s \o d)[i] = s[i]
      /\ \A i \in 1 .. Len(s) + n : i > Len(s) => (s \o d)[i] = a + (i - Len(s))
  <2>1. /\ \A i \in 1 .. Len(s) : (s \o d)[i] = s[i]
        /\ \A i \in 1 .. Len(s) + n : i > Len(s) => (s \o d)[i] = d[i - Len(s)]
    BY <1>1, ElementsOfConcat
  <2>2. \A i \in 1 .. Len(s) + n : i > Len(s) => i - Len(s) \in 1 .. n
    BY <1>2
  <2> QED
    BY <1>1, <2>1, <2>2
<1> DEFINE e == s \o d
<1> HIDE DEF e
<1>4. /\ Len(e) = Len(s) + n
      /\ \A i \in 1 .. Len(s) : e[i] = s[i]
      /\ \A i \in 1 .. Len(s) + n : i > Len(s) => e[i] = a + (i - Len(s))
  BY <1>2, <1>3 DEF e
<1>5. Ascending(e, a + n)
  <2>1. ASSUME NEW i \in 1 .. Len(e)
        PROVE  e[i] <= a + n
    <3>1. CASE i <= Len(s)
      BY <3>1, <1>2, <1>4, SMTT(30) DEF Ascending
    <3>2. CASE i > Len(s)
      BY <3>2, <1>2, <1>4
    <3> QED
      BY <3>1, <3>2, <1>2, <1>4
  <2>2. ASSUME NEW i \in 1 .. Len(e), NEW j \in 1 .. Len(e), i < j
        PROVE  e[i] < e[j]
    <3>1. CASE j <= Len(s)
      <4>1. i \in 1 .. Len(s) /\ j \in 1 .. Len(s)
        BY <2>2, <3>1, <1>2, <1>4
      <4>2. e[i] = s[i] /\ e[j] = s[j] /\ s[i] < s[j]
        BY <4>1, <2>2, <1>4 DEF Ascending
      <4> QED
        BY <4>2
    <3>2. CASE i <= Len(s) /\ j > Len(s)
      <4>1. e[i] = s[i] /\ s[i] <= a /\ s[i] \in Nat
        BY <3>2, <1>2, <1>4 DEF Ascending
      <4>2. e[j] = a + (j - Len(s))
        BY <3>2, <1>2, <1>4
      <4> QED
        BY <3>2, <4>1, <4>2, <1>2
    <3>3. CASE i > Len(s)
      <4>1. /\ i \in 1 .. Len(s) + n /\ j \in 1 .. Len(s) + n /\ i > Len(s) /\ j > Len(s)
            /\ i \in Nat /\ j \in Nat
        BY <2>2, <3>3, <1>2, <1>4
      <4>2. e[i] = a + (i - Len(s)) /\ e[j] = a + (j - Len(s))
        BY <4>1, <1>4
      <4> QED
        BY <4>1, <4>2, <2>2, <1>2
    <3> QED
      BY <3>1, <3>2, <3>3, <1>2, <1>4
  <2> QED
    BY <2>1, <2>2 DEF Ascending
<1>6. ASSUME Whole(s, a)
      PROVE  Whole(e, a + n)
  BY <1>6, <1>2, <1>4 DEF Whole
<1> QED
  BY <1>1, <1>5, <1>6 DEF e

(* Whatever an operation makes of the bytes that were to be on file and in *)
(* the buffer, a beginning of them is left: the order stays, and without an*)
(* error all of them are there.                                            *)
LEMMA FileOutcome ==
  ASSUME WritableInv, NEW n \in Nat, appended' = appended + n,
         NEW d, d = [i \in 1 .. n |-> appended + i],
         NEW f \in Seq(Nat), NEW b \in Seq(Nat), on_file' = f, buf' = b,
         Begins(f \o b, on_file \o buf \o d)
  PROVE  /\ appended' \in Nat /\ buf' \in Seq(Nat) /\ on_file' \in Seq(Nat)
         /\ Ascending(on_file' \o buf', appended')
         /\ ~ io_failed /\ f \o b = on_file \o buf \o d => Whole(on_file' \o buf', appended')
<1>1. PICK c \in Seq(Nat), a \in Nat : c = on_file \o buf /\ a = appended
  BY ElementsOfConcat DEF WritableInv
<1>2. /\ d = [i \in 1 .. n |-> a + i] /\ Ascending(c, a)
      /\ ~ io_failed => Whole(c, a)
  BY <1>1 DEF WritableInv
<1>3. /\ d \in Seq(Nat) /\ Ascending(c \o d, a + n) /\ (Whole(c, a) => Whole(c \o d, a + n))
  BY <1>2, AppendedInOrder
<1>4. c \o d \in Seq(Nat) /\ f \o b \in Seq(Nat) /\ a + n \in Nat
  BY <1>3, ElementsOfConcat
<1>5. Ascending(f \o b, a + n)
  BY <1>1, <1>3, <1>4, BeginningInOrder
<1> QED
  BY <1>1, <1>2, <1>3, <1>4, <1>5

(* The outcomes of WriteUnbuffered.                                        *)
LEMMA Outcomes ==
  ASSUME NEW s \in Seq(Nat), WritableInv, NEW w \in WriteOutcomes(s)
  PROVE  /\ w.file \in Seq(Nat) /\ w.ok \in BOOLEAN
         /\ w.ok => w.file = on_file \o s
         /\ ~ w.ok => Begins(w.file, on_file \o s)
<1>1. CASE w = [file |-> on_file \o s, ok |-> TRUE]
  BY <1>1, ElementsOfConcat DEF WritableInv
<1>2. CASE \E n \in 0 .. Len(s) - 1 : w = [file |-> on_file \o SubSeq(s, 1, n), ok |-> FALSE]
  <2>1. PICK n \in 0 .. Len(s) - 1 : w = [file |-> on_file \o SubSeq(s, 1, n), ok |-> FALSE]
    BY <1>2
  <2>2. n \in 0 .. Len(s)
    OBVIOUS
  <2>3. PICK p \in Seq(Nat) : p = SubSeq(s, 1, n) /\ Begins(p, s)
    <3>1. /\ SubSeq(s, 1, n) \in Seq(Nat) /\ Len(SubSeq(s, 1, n)) = n
          /\ \A i \in 1 .. n : SubSeq(s, 1, n)[i] = s[i]
      BY <2>2, FirstElements
    <3>2. Begins(SubSeq(s, 1, n), s)
      <4>1. PICK p \in Seq(Nat) : p = SubSeq(s, 1, n)
        BY <3>1
      <4>2. Len(p) <= Len(s) /\ \A i \in 1 .. Len(p) : p[i] = s[i]
        BY <4>1, <3>1, <2>2
      <4> QED
        BY <4>1, <4>2 DEF Begins
    <3> QED
      BY <3>1, <3>2
  <2>4. PICK o \in Seq(Nat) : o = on_file
    BY DEF WritableInv
  <2>5. Begins(o \o p, o \o s) /\ o \o p \in Seq(Nat)
    BY <2>3, ConcatBegins, ElementsOfConcat
  <2> QED
    BY <2>1, <2>3, <2>4, <2>5
<1> QED
  BY <1>1, <1>2 DEF WriteOutcomes

LEMMA BeginsItself ==
  \A s \in Seq(Nat) : Begins(s, s) /\ s \o << >> = s /\ << >> \o s = s
  BY ConcatEmptySeq DEF Begins

LEMMA NatSeqEqual ==
  ASSUME NEW s \in Seq(Nat), NEW t \in Seq(Nat), Len(s) = Len(t),
         \A i \in 1 .. Len(s) : s[i] = t[i]
  PROVE  s = t
  BY SeqEqual

LEMMA NatConcat ==
  ASSUME NEW s \in Seq(Nat), NEW t \in Seq(Nat), NEW u \in Seq(Nat)
  PROVE  s \o t \in Seq(Nat) /\ (s \o t) \o u = s \o (t \o u)
  BY ConcatProperties, ConcatAssociative

LEMMA BeginsOrder ==
  ASSUME NEW p \in Seq(Nat), NEW q \in Seq(Nat), NEW s \in Seq(Nat), Begins(p, q), Begins(q, s)
  PROVE  Begins(p, s)
<1>1. /\ Len(p) <= Len(q) /\ \A i \in 1 .. Len(p) : p[i] = q[i]
      /\ Len(q) <= Len(s) /\ \A i \in 1 .. Len(q) : q[i] = s[i]
  BY Zenon DEF Begins
<1>2. Len(p) \in Nat /\ Len(q) \in Nat /\ Len(s) \in Nat
  OBVIOUS
<1>3. \A i \in 1 .. Len(p) : i \in 1 .. Len(q)
  BY <1>1, <1>2
<1> QED
  BY <1>1, <1>2, <1>3 DEF Begins

LEMMA SplitInTwo ==
  ASSUME NEW s \in Seq(Nat), NEW m \in 0 .. Len(s)
  PROVE  /\ SubSeq(s, 1, m) \in Seq(Nat) /\ SubSeq(s, m + 1, Len(s)) \in Seq(Nat)
         /\ Len(SubSeq(s, 1, m)) = m /\ s = SubSeq(s, 1, m) \o SubSeq(s, m + 1, Len(s))
<1>1. PICK p \in Seq(Nat) : p = SubSeq(s, 1, m) /\ Len(p) = m /\ \A i \in 1 .. m : p[i] = s[i]
  BY FirstElements
<1>2. PICK r \in Seq(Nat) : /\ r = SubSeq(s, m + 1, Len(s)) /\ Len(r) = Len(s) - m
                             /\ \A i \in 1 .. Len(s) - m : r[i] = s[m + i]
  <2>1. Len(s) \in Nat /\ m \in Nat /\ m <= Len(s)
    OBVIOUS
  <2>2. /\ SubSeq(s, m + 1, Len(s)) \in Seq(Nat) /\ Len(SubSeq(s, m + 1, Len(s))) = Len(s) - m
        /\ \A i \in 1 .. Len(s) - m : SubSeq(s, m + 1, Len(s))[i] = s[m + i]
    <3>1. \A i \in m + 1 .. Len(s) : s[i] \in Nat
      BY <2>1
    <3>2. /\ SubSeq(s, m + 1, Len(s)) \in Seq(Nat)
          /\ Len(SubSeq(s, m + 1, Len(s))) = IF m + 1 <= Len(s) THEN Len(s) - (m + 1) + 1 ELSE 0
          /\ \A i \in 1 .. Len(s) - (m + 1) + 1 : SubSeq(s, m + 1, Len(s))[i] = s[m + 1 + i - 1]
      BY <2>1, <3>1, SubSeqProperties
    <3>3. (IF m + 1 <= Len(s) THEN Len(s) - (m + 1) + 1 ELSE 0) = Len(s) - m
      BY <2>1
    <3>4. Len(s) - (m + 1) + 1 = Len(s) - m /\ \A i \in Int : m + 1 + i - 1 = m + i
      BY <2>1
    <3> DEFINE t == SubSeq(s, m + 1, Len(s))
    <3>5. t \in Seq(Nat) /\ Len(t) = Len(s) - m
      BY <3>2, <3>3
    <3>6. ASSUME NEW i \in 1 .. Len(s) - m
          PROVE  t[i] = s[m + i]
      <4>1. i \in Int /\ i \in 1 .. Len(s) - (m + 1) + 1
        BY <3>4
      <4>2. t[i] = s[m + 1 + i - 1]
        BY <4>1, <3>2
      <4> QED
        BY <4>1, <4>2, <3>4
    <3> QED
      BY <3>5, <3>6
  <2> QED
    BY <2>2
<1>3. Len(s) \in Nat /\ m \in Nat /\ m <= Len(s)
  OBVIOUS
<1>4. PICK e \in Seq(Nat) :
        /\ e = p \o r /\ Len(e) = Len(s)
        /\ \A i \in 1 .. m : e[i] = p[i]
        /\ \A i \in 1 .. Len(s) : i > m => e[i] = r[i - m]
  <2>1. /\ p \o r \in Seq(Nat) /\ Len(p \o r) = Len(p) + Len(r)
        /\ \A i \in 1 .. Len(p) : (p \o r)[i] = p[i]
        /\ \A i \in 1 .. Len(p) + Len(r) : i > Len(p) => (p \o r)[i] = r[i - Len(p)]
    BY ElementsOfConcat
  <2>2. Len(p) = m /\ Len(r) = Len(s) - m
    BY <1>1, <1>2
  <2>3. m + (Len(s) - m) = Len(s)
    BY <1>3
  <2> QED
    BY <2>1, <2>2, <2>3
<1>5. ASSUME NEW i \in 1 .. Len(e)
      PROVE  e[i] = s[i]
  <2>1. CASE i <= m
    BY <2>1, <1>1, <1>3, <1>4
  <2>2. CASE i > m
    <3>1. i - m \in 1 .. Len(s) - m /\ m + (i - m) = i /\ i \in 1 .. Len(s)
      BY <2>2, <1>3, <1>4
    <3> QED
      BY <2>2, <3>1, <1>2, <1>4
  <2>3. i <= m \/ i > m
    BY <1>3
  <2> QED
    BY <2>1, <2>2, <2>3, Zenon
<1>6. e = s
  BY <1>4, <1>5, NatSeqEqual
<1> QED
  BY <1>1, <1>2, <1>4, <1>6

(* A step that changes the file and the buffer, and says so in io_failed.  *)
LEMMA WritableStep ==
  ASSUME WritableInv, NEW n \in Nat, appended' = appended + n,
         NEW d, d = [i \in 1 .. n |-> appended + i],
         NEW f \in Seq(Nat), NEW b \in Seq(Nat), on_file' = f, buf' = b,
         Begins(f \o b, on_file \o buf \o d), Len(b) <= kWritableFileBufferSize,
         io_failed' \in BOOLEAN, durable' \in Nat, synced_to' \in Nat,
         ~ io_failed' => ~ io_failed /\ f \o b = on_file \o buf \o d,
         ~ io_failed' => synced_to' <= durable'
  PROVE  WritableInv'
<1>1. /\ appended' \in Nat /\ buf' \in Seq(Nat) /\ on_file' \in Seq(Nat)
      /\ Ascending(on_file' \o buf', appended')
      /\ ~ io_failed' => Whole(on_file' \o buf', appended')
  BY FileOutcome
<1> QED
  BY <1>1 DEF WritableInv

(* Each operation writes the buffer before what comes after it.            *)
LEMMA AppendKeepsInv ==
  ASSUME WritableInv, NEW n \in AppendSizes, WritableAppend(n)
  PROVE  WritableInv'
<1> DEFINE data == Bytes(n)
           fits == LeastOf(n, kWritableFileBufferSize - Len(buf))
           full == buf \o SubSeq(data, 1, fits)
           rest == SubSeq(data, fits + 1, n)
<1>1. n \in Nat /\ kWritableFileBufferSize \in Nat /\ Len(buf) \in Nat
      /\ buf \in Seq(Nat) /\ on_file \in Seq(Nat) /\ appended \in Nat
      /\ Len(buf) <= kWritableFileBufferSize /\ io_failed \in BOOLEAN
  BY EnvironmentAssumption DEF WritableInv
<1>2. fits \in 0 .. n /\ fits <= kWritableFileBufferSize - Len(buf)
  BY <1>1 DEF LeastOf
<1>3. data = [i \in 1 .. n |-> appended + i] /\ data \in Seq(Nat) /\ Len(data) = n
  BY <1>1 DEF Bytes
<1>4. /\ appended' = appended + n
      /\ IF rest = << >>
         THEN buf' = full /\ UNCHANGED <<on_file, io_failed>>
         ELSE \E w \in WriteOutcomes(full) :
                IF ~ w.ok
                THEN on_file' = w.file /\ buf' = << >> /\ io_failed' = TRUE
                ELSE IF Len(rest) < kWritableFileBufferSize
                THEN on_file' = w.file /\ buf' = rest /\ UNCHANGED io_failed
                ELSE \E m \in 0 .. Len(rest) :
                       /\ on_file' = w.file \o SubSeq(rest, 1, m) /\ buf' = << >>
                       /\ io_failed' = (io_failed \/ m < Len(rest))
      /\ durable' = durable /\ synced_to' = synced_to
  BY DEF WritableAppend, AfterFlush
<1> HIDE DEF data, fits
<1>5. PICK first \in Seq(Nat), last \in Seq(Nat) :
        /\ first = SubSeq(data, 1, fits) /\ last = rest
        /\ Len(first) = fits /\ data = first \o last
  <2>1. PICK e \in Seq(Nat), m \in 0 .. n : e = data /\ m = fits /\ Len(e) = n
    BY <1>2, <1>3
  <2>2. /\ SubSeq(e, 1, m) \in Seq(Nat) /\ SubSeq(e, m + 1, Len(e)) \in Seq(Nat)
        /\ Len(SubSeq(e, 1, m)) = m /\ e = SubSeq(e, 1, m) \o SubSeq(e, m + 1, Len(e))
    <3>1. m \in 0 .. Len(e)
      BY <2>1
    <3> QED
      BY <3>1, SplitInTwo
  <2> QED
    BY <2>1, <2>2
<1>6. PICK o \in Seq(Nat), b \in Seq(Nat) : o = on_file /\ b = buf
  BY <1>1
<1> DEFINE f1 == b \o first
           all == o \o b \o data
<1>7. f1 = full /\ f1 \in Seq(Nat) /\ Len(f1) <= kWritableFileBufferSize
  BY <1>1, <1>2, <1>5, <1>6, ElementsOfConcat
<1>8. /\ all = o \o f1 \o last /\ all = o \o (f1 \o last)
      /\ all \in Seq(Nat) /\ o \o f1 \in Seq(Nat)
  <2>1. o \o b \in Seq(Nat) /\ o \o f1 \in Seq(Nat)
    BY <1>7, ConcatProperties
  <2>2. (o \o b) \o (first \o last) = ((o \o b) \o first) \o last
    <3>1. PICK ob \in Seq(Nat) : ob = o \o b
      BY <2>1
    <3>2. (ob \o first) \o last = ob \o (first \o last)
      BY NatConcat
    <3> QED
      BY <3>1, <3>2
  <2>3. (o \o b) \o first = o \o (b \o first)
    BY NatConcat, ZenonT(40)
  <2>4. (o \o f1) \o last = o \o (f1 \o last)
    BY <1>7, NatConcat, ZenonT(40)
  <2>5. (o \o f1) \o last \in Seq(Nat)
    BY <2>1, ConcatProperties
  <2> QED
    BY <1>5, <2>1, <2>2, <2>3, <2>4, <2>5
<1>9. on_file \o buf \o data = all /\ last = rest /\ full = f1
  BY <1>5, <1>6, <1>7
<1>10. << >> \in Seq(Nat) /\ Len(<< >>) <= kWritableFileBufferSize
  BY <1>1
<1>11. durable' \in Nat /\ synced_to' \in Nat /\ (~ io_failed => synced_to' <= durable')
  BY <1>4 DEF WritableInv
<1> HIDE DEF full, rest, f1, all
<1>12. CASE last = << >>
  <2>1. on_file' = o /\ buf' = f1 /\ io_failed' = io_failed
    BY <1>12, <1>4, <1>6, <1>9
  <2>2. o \o f1 = all
    BY <1>12, <1>8, BeginsItself
  <2>3. Begins(o \o f1, all)
    BY <2>2, <1>8, BeginsItself
  <2>4. io_failed' \in BOOLEAN /\ (~ io_failed' => ~ io_failed)
    BY <2>1, <1>1
  <2> QED
    BY <2>1, <2>2, <2>3, <2>4, <1>1, <1>3, <1>4, <1>7, <1>9, <1>11, WritableStep
<1>13. CASE last # << >>
  <2>1. PICK w \in WriteOutcomes(f1) :
          IF ~ w.ok
          THEN on_file' = w.file /\ buf' = << >> /\ io_failed' = TRUE
          ELSE IF Len(last) < kWritableFileBufferSize
          THEN on_file' = w.file /\ buf' = last /\ UNCHANGED io_failed
          ELSE \E m \in 0 .. Len(last) :
                 /\ on_file' = w.file \o SubSeq(last, 1, m) /\ buf' = << >>
                 /\ io_failed' = (io_failed \/ m < Len(last))
    BY <1>13, <1>4, <1>9
  <2>2. /\ w.file \in Seq(Nat) /\ w.ok \in BOOLEAN
        /\ w.ok => w.file = o \o f1
        /\ ~ w.ok => Begins(w.file, o \o f1)
    BY <1>6, <1>7, Outcomes
  <2>3. PICK wf \in Seq(Nat) : wf = w.file
    BY <2>2
  <2>4. CASE ~ w.ok
    <3>1. on_file' = wf /\ buf' = << >> /\ io_failed' = TRUE
      BY <2>1, <2>3, <2>4
    <3>2. Begins(o \o f1, all)
      <4>1. Begins(<< >>, last) /\ << >> \in Seq(Nat)
        BY DEF Begins
      <4>2. Begins((o \o f1) \o << >>, (o \o f1) \o last)
        BY <4>1, <1>8, ConcatBegins
      <4> QED
        BY <4>2, <1>8, BeginsItself
    <3>3. Begins(wf, all)
      <4>1. Begins(wf, o \o f1)
        BY <2>2, <2>3, <2>4
      <4> QED
        BY <4>1, <3>2, <1>8, BeginsOrder
    <3>4. Begins(wf \o << >>, all)
      BY <3>3, BeginsItself
    <3> QED
      BY <3>1, <3>4, <1>1, <1>3, <1>4, <1>9, <1>10, <1>11, WritableStep
  <2>5. CASE w.ok /\ Len(last) < kWritableFileBufferSize
    <3>1. on_file' = wf /\ buf' = last /\ io_failed' = io_failed /\ wf = o \o f1
      BY <2>1, <2>2, <2>3, <2>5
    <3>2. wf \o last = all
      BY <3>1, <1>8
    <3>3. Len(last) <= kWritableFileBufferSize
      BY <2>5, <1>1
    <3>4. Begins(wf \o last, all)
      BY <3>2, <1>8, BeginsItself
    <3>5. io_failed' \in BOOLEAN /\ (~ io_failed' => ~ io_failed)
      BY <3>1, <1>1
    <3> QED
      BY <3>1, <3>2, <3>3, <3>4, <3>5, <1>1, <1>3, <1>4, <1>9, <1>11, WritableStep
  <2>6. CASE w.ok /\ ~ Len(last) < kWritableFileBufferSize
    <3>1. PICK m \in 0 .. Len(last) :
            /\ on_file' = w.file \o SubSeq(last, 1, m) /\ buf' = << >>
            /\ io_failed' = (io_failed \/ m < Len(last))
      BY <2>1, <2>6
    <3>2. PICK p \in Seq(Nat) : p = SubSeq(last, 1, m) /\ Begins(p, last) /\ (m = Len(last) => p = last)
      <4>1. /\ SubSeq(last, 1, m) \in Seq(Nat) /\ Len(SubSeq(last, 1, m)) = m
            /\ \A i \in 1 .. m : SubSeq(last, 1, m)[i] = last[i]
        BY FirstElements
      <4>2. PICK p \in Seq(Nat) : p = SubSeq(last, 1, m)
        BY <4>1
      <4>3. Begins(p, last)
        BY <4>1, <4>2 DEF Begins
      <4>4. m = Len(last) => p = last
        BY <4>1, <4>2
      <4> QED
        BY <4>2, <4>3, <4>4
    <3>3. wf = o \o f1 /\ wf \o p \in Seq(Nat) /\ (wf \o p) \o << >> = wf \o p
      BY <2>2, <2>3, <2>6, BeginsItself, ConcatProperties
    <3>4. Begins((wf \o p) \o << >>, all)
      BY <3>2, <3>3, <1>8, ConcatBegins
    <3>5. m = Len(last) => (wf \o p) \o << >> = all
      BY <3>2, <3>3, <1>8
    <3>6. /\ on_file' = wf \o p /\ buf' = << >> /\ io_failed' \in BOOLEAN
          /\ ~ io_failed' => ~ io_failed /\ m = Len(last)
      <4>1. on_file' = wf \o p /\ buf' = << >>
        BY <3>1, <3>2, <2>3
      <4>2. m \in Nat /\ Len(last) \in Nat /\ m <= Len(last)
        OBVIOUS
      <4>3. m = Len(last) \/ m < Len(last)
        BY <4>2
      <4>4. io_failed' \in BOOLEAN /\ (~ io_failed' => ~ io_failed /\ m = Len(last))
        BY <3>1, <4>3, <1>1, Zenon
      <4> QED
        BY <4>1, <4>4
    <3> QED
      BY <3>3, <3>4, <3>5, <3>6, <1>1, <1>3, <1>4, <1>9, <1>10, <1>11, WritableStep
  <2> QED
    BY <2>2, <2>4, <2>5, <2>6
<1> QED
  BY <1>12, <1>13

(* Flush and Sync append nothing.                                          *)
LEMMA FlushOutcome ==
  ASSUME WritableInv, NEW w \in WriteOutcomes(buf), appended' = appended,
         on_file' = w.file, buf' = << >>,
         io_failed' \in BOOLEAN, durable' \in Nat, synced_to' \in Nat,
         ~ io_failed' => ~ io_failed /\ w.ok,
         ~ io_failed' => synced_to' <= durable'
  PROVE  WritableInv'
<1>1. PICK o \in Seq(Nat), b \in Seq(Nat), a \in Nat : o = on_file /\ b = buf /\ a = appended
  BY DEF WritableInv
<1>2. /\ w.file \in Seq(Nat) /\ w.ok \in BOOLEAN
      /\ w.ok => w.file = o \o b
      /\ ~ w.ok => Begins(w.file, o \o b)
  BY <1>1, Outcomes
<1>3. PICK f \in Seq(Nat) : f = w.file
  BY <1>2
<1> DEFINE d == [i \in 1 .. 0 |-> appended + i]
<1>4. d = << >> /\ << >> \in Seq(Nat)
  OBVIOUS
<1>5. o \o b \in Seq(Nat) /\ o \o b \o d = o \o b /\ f \o << >> = f
  <2>1. o \o b \in Seq(Nat)
    BY NatConcat
  <2>2. o \o b \o << >> = o \o b /\ f \o << >> = f
    BY <2>1, BeginsItself
  <2> QED
    BY <1>4, <2>1, <2>2
<1>6. Begins(f \o << >>, o \o b \o d)
  BY <1>2, <1>3, <1>5, BeginsItself
<1>7. ~ io_failed' => ~ io_failed /\ f \o << >> = o \o b \o d
  BY <1>2, <1>3, <1>5
<1>8. Len(<< >>) <= kWritableFileBufferSize /\ 0 \in Nat /\ appended' = appended + 0
  BY <1>1, EnvironmentAssumption
<1> HIDE DEF d
<1> QED
  BY <1>1, <1>3, <1>4, <1>6, <1>7, <1>8, WritableStep DEF d

LEMMA WritableKeepsInv ==
  ASSUME WritableInv, WritableNext
  PROVE  WritableInv'
<1>1. ASSUME NEW n \in AppendSizes, WritableAppend(n)
      PROVE  WritableInv'
  BY <1>1, AppendKeepsInv
<1>2. CASE WritableFlush
  <2>1. PICK w \in WriteOutcomes(buf) :
          /\ on_file' = w.file /\ buf' = << >> /\ io_failed' = (io_failed \/ ~ w.ok)
          /\ durable' = durable /\ appended' = appended /\ synced_to' = synced_to
    BY <1>2 DEF WritableFlush, AfterFlush
  <2>2. w.ok \in BOOLEAN
    BY Outcomes DEF WritableInv
  <2>3. /\ io_failed' \in BOOLEAN /\ (~ io_failed' => ~ io_failed /\ w.ok)
        /\ durable' \in Nat /\ synced_to' \in Nat /\ (~ io_failed' => synced_to' <= durable')
    BY <2>1, <2>2 DEF WritableInv
  <2> QED
    BY <2>1, <2>3, FlushOutcome
<1>3. CASE WritableSync
  <2>1. CASE \E w \in WriteOutcomes(buf) :
               /\ on_file' = w.file /\ buf' = << >>
               /\ \/ w.ok /\ durable' = Len(w.file) /\ synced_to' = appended /\ UNCHANGED io_failed
                  \/ io_failed' = TRUE /\ UNCHANGED <<durable, synced_to>>
               /\ appended' = appended
    <3>1. PICK w \in WriteOutcomes(buf) :
               /\ on_file' = w.file /\ buf' = << >>
               /\ \/ w.ok /\ durable' = Len(w.file) /\ synced_to' = appended /\ UNCHANGED io_failed
                  \/ io_failed' = TRUE /\ UNCHANGED <<durable, synced_to>>
               /\ appended' = appended
      BY <2>1
    <3>2. w.file \in Seq(Nat) /\ Len(w.file) \in Nat /\ (w.ok => w.file = on_file \o buf)
      BY Outcomes, SMTT(30) DEF WritableInv
    <3>3. CASE w.ok /\ durable' = Len(w.file) /\ synced_to' = appended /\ UNCHANGED io_failed
      <4>1. ~ io_failed' => synced_to' <= durable'
        BY <3>2, <3>3 DEF WritableInv, Whole
      <4>2. /\ io_failed' \in BOOLEAN /\ durable' \in Nat /\ synced_to' \in Nat
            /\ (~ io_failed' => ~ io_failed /\ w.ok)
        BY <3>2, <3>3 DEF WritableInv
      <4> QED
        BY <3>1, <4>1, <4>2, FlushOutcome
    <3>4. CASE io_failed' = TRUE /\ UNCHANGED <<durable, synced_to>>
      <4>1. io_failed' \in BOOLEAN /\ io_failed' /\ durable' \in Nat /\ synced_to' \in Nat
        BY <3>4 DEF WritableInv
      <4> QED
        BY <3>1, <4>1, FlushOutcome
    <3> QED
      BY <3>1, <3>3, <3>4
  <2>2. CASE io_failed' = TRUE /\ UNCHANGED <<buf, on_file, durable, appended, synced_to>>
    BY <2>2 DEF WritableInv
  <2> QED
    BY <1>3, <2>1, <2>2 DEF WritableSync, AfterFlush
<1> QED
  BY <1>1, <1>2, <1>3 DEF WritableNext

LEMMA FileInOrderFromInv == WritableInv => FileIsInOrder
<1> SUFFICES ASSUME WritableInv PROVE FileIsInOrder
  OBVIOUS
<1>1. PICK o \in Seq(Nat), b \in Seq(Nat), a \in Nat : o = on_file /\ b = buf /\ a = appended
  BY DEF WritableInv
<1>2. o \o b \in Seq(Nat)
  BY NatConcat
<1>3. Begins(o, o \o b)
  <2>1. Len(o) <= Len(o \o b) /\ \A i \in 1 .. Len(o) : o[i] = (o \o b)[i]
    BY ElementsOfConcat
  <2> QED
    BY <2>1 DEF Begins
<1>4. Ascending(o, a)
  BY <1>1, <1>2, <1>3, BeginningInOrder DEF WritableInv
<1>5. \A i, j \in DOMAIN on_file : i < j => on_file[i] < on_file[j]
  BY <1>1, <1>4 DEF Ascending
<1>6. ASSUME ~ io_failed
      PROVE  on_file \o buf = [i \in 1 .. appended |-> i] /\ synced_to <= durable
  <2>1. Whole(o \o b, a) /\ synced_to <= durable
    BY <1>1, <1>6 DEF WritableInv
  <2>2. PICK c \in Seq(Nat) : c = o \o b
    BY <1>2
  <2>3. c = [i \in 1 .. a |-> i]
    <3> DEFINE e == [i \in 1 .. a |-> i]
    <3>1. e \in Seq(Nat)
      OBVIOUS
    <3>2. Len(e) = a /\ \A i \in 1 .. a : e[i] = i
      BY <3>1
    <3> HIDE DEF e
    <3>3. Len(c) = a /\ \A i \in 1 .. a : c[i] = i
      BY <2>1, <2>2 DEF Whole
    <3>4. Len(c) = Len(e) /\ \A i \in 1 .. Len(c) : c[i] = e[i]
      BY <3>2, <3>3
    <3>5. c = e
      BY <3>4, <3>1, NatSeqEqual
    <3> QED
      BY <3>5 DEF e
  <2> QED
    BY <1>1, <2>1, <2>2, <2>3
<1> QED
  BY <1>5, <1>6 DEF FileIsInOrder

-----------------------------------------------------------------------------
EnvironmentInv == ThreadInv /\ LimitsInv /\ WritableInv

LEMMA EnvironmentInvInit == PosixFilesInit /\ ThreadInit => EnvironmentInv
<1> SUFFICES ASSUME PosixFilesInit, ThreadInit PROVE EnvironmentInv
  OBVIOUS
<1>1. ThreadInv
  <2>1. << >> \in Seq(Items) /\ << >> \o << >> \o << >> = << >>
    OBVIOUS
  <2> QED
    BY <2>1 DEF ThreadInit, ThreadInv, NoWorkForgotten
<1>2. LimitsInv
  <2>1. OpenersIn(opener, {"mapping", "mapped"}) = {} /\ OpenersIn(opener, {"permanent_fd"}) = {}
    BY DEF PosixFilesInit, OpenersIn
  <2>2. /\ OpenersIn(opener, {"mapping", "mapped", "no_mmap"}) = {}
        /\ OpenersIn(opener, {"permanent_fd", "no_fd"}) = {}
    BY DEF PosixFilesInit, OpenersIn
  <2>3. LimitsHold
    <3>1. /\ CountIn(opener, {"mapping", "mapped"}) = 0 /\ CountIn(opener, {"permanent_fd"}) = 0
          /\ CountIn(opener, {"mapping", "mapped", "no_mmap"}) = 0
          /\ CountIn(opener, {"permanent_fd", "no_fd"}) = 0
      BY <2>1, <2>2, FS_EmptySet DEF CountIn
    <3>2. mmap_allowed = MaxMmaps - 0 /\ fd_allowed = MaxOpenFiles - 0 /\ 0 <= MaxMmaps /\ 0 <= MaxOpenFiles
      BY EnvironmentAssumption DEF PosixFilesInit
    <3> QED
      BY <3>1, <3>2, LimitsCount
  <2> QED
    BY <2>3, EnvironmentAssumption DEF LimitsInv, PosixFilesInit, OpenerStates
<1>3. WritableInv
  <2>1. << >> \o << >> = << >> /\ << >> \in Seq(Nat) /\ Len(<< >>) = 0
    OBVIOUS
  <2>2. Ascending(<< >>, 0) /\ Whole(<< >>, 0)
    BY DEF Ascending, Whole
  <2>3. on_file = << >> /\ buf = << >> /\ on_file \o buf = << >>
    BY <2>1 DEF PosixFilesInit
  <2>4. appended = 0 /\ durable = 0 /\ synced_to = 0 /\ io_failed = FALSE
    BY DEF PosixFilesInit
  <2>5. Len(buf) <= kWritableFileBufferSize
    BY <2>1, <2>3, EnvironmentAssumption
  <2>6. Ascending(on_file \o buf, appended) /\ Whole(on_file \o buf, appended)
    BY <2>2, <2>3, <2>4
  <2>7. synced_to <= durable
    BY <2>4
  <2> QED
    BY <2>1, <2>3, <2>4, <2>5, <2>6, <2>7 DEF WritableInv
<1> QED
  BY <1>1, <1>2, <1>3 DEF EnvironmentInv

(* The background thread, the limits, the buffers and the locks of PosixEnv*)
(* stay right together: they share nothing, and each keeps its own         *)
(* invariant.                                                              *)
THEOREM EnvironmentIsRight == EnvironmentSpec => []EnvironmentRight
<1>1. EnvironmentInit => EnvironmentInv /\ LocksInv
  BY EnvironmentInvInit, LocksInvInit DEF EnvironmentInit
<1>2. EnvironmentInv /\ LocksInv /\ [EnvironmentNext]_environmentVars => EnvironmentInv' /\ LocksInv'
  <2> SUFFICES ASSUME EnvironmentInv, LocksInv, [EnvironmentNext]_environmentVars
               PROVE  EnvironmentInv' /\ LocksInv'
    OBVIOUS
  <2>1. UNCHANGED threadVars => ThreadInv'
    BY DEF EnvironmentInv, ThreadInv, NoWorkForgotten, threadVars
  <2>2. UNCHANGED limitVars => LimitsInv'
    BY DEF EnvironmentInv, LimitsInv, LimitsHold, limitVars
  <2>3. UNCHANGED fileVars => WritableInv'
    BY DEF EnvironmentInv, WritableInv, fileVars
  <2>4. UNCHANGED lockVars => LocksInv'
    BY LocksStepKeepsInv
  <2>5. CASE WritableNext /\ UNCHANGED <<threadVars, lockVars>>
    <3>1. UNCHANGED limitVars
      BY <2>5 DEF WritableNext, WritableAppend, WritableFlush, WritableSync
    <3> QED
      BY <2>1, <2>2, <2>4, <2>5, <3>1, WritableKeepsInv DEF EnvironmentInv
  <2>6. CASE LimitsNext /\ UNCHANGED <<threadVars, lockVars>>
    <3>1. UNCHANGED fileVars
      BY <2>6 DEF LimitsNext, NewRandomAccessFile, MmapFails, MmapSucceeds, GiveBackMmap,
                  AcquireFd, GiveBackFd, DestroyRandomAccessFile
    <3> QED
      BY <2>1, <2>3, <2>4, <2>6, <3>1, LimitsKeepInv DEF EnvironmentInv
  <2>7. CASE ThreadNext /\ UNCHANGED <<posixFileVars, lockVars>>
    BY <2>2, <2>3, <2>4, <2>7, ThreadKeepsInv DEF EnvironmentInv, posixFileVars
  <2>8. CASE LocksNext /\ UNCHANGED <<posixFileVars, threadVars>>
    BY <2>1, <2>2, <2>3, <2>8, LocksStepKeepsInv DEF EnvironmentInv, posixFileVars
  <2>9. CASE UNCHANGED environmentVars
    BY <2>1, <2>2, <2>3, <2>4, <2>9 DEF EnvironmentInv, environmentVars, posixFileVars
  <2> QED
    BY <2>5, <2>6, <2>7, <2>8, <2>9 DEF EnvironmentNext
<1>3. EnvironmentInv /\ LocksInv => EnvironmentRight
  BY InvExcludes, FileInOrderFromInv DEF EnvironmentInv, ThreadInv, LimitsInv, EnvironmentRight
<1> QED
  BY <1>1, <1>2, <1>3, PTL DEF EnvironmentSpec

-----------------------------------------------------------------------------
(* The cache of open tables.                                               *)

(* The functions from some handles.                                        *)
HandleMaps(S) == UNION {[D -> S] : D \in SUBSET Nat}
CacheEntries(F) == [key : F, in_cache : BOOLEAN, refs : Nat \ {0}]
ShardType(F) ==
  [capacity : Nat, usage : Int, lru : Seq(Nat), in_use : SUBSET Nat,
   entries : HandleMaps(CacheEntries(F)),
   table : [length : Nat \ {0}, elems : Int, list : HandleMaps(SUBSET Nat)]]

IsShard(c) ==
  c = [capacity |-> c.capacity, usage |-> c.usage, lru |-> c.lru, in_use |-> c.in_use,
       entries |-> c.entries, table |-> c.table]

(* The hash table has the handles of T, each in the chain of its hash, and *)
(* no two of a key.                                                        *)
TableHas(c, T) ==
  /\ DOMAIN c.table.list = 0 .. c.table.length - 1
  /\ \A b \in DOMAIN c.table.list :
       c.table.list[b] = {h \in T : Hash[c.entries[h].key] % c.table.length = b}
  /\ c.table.elems = Cardinality(T)
  /\ T \subseteq DOMAIN c.entries /\ IsFiniteSet(T)
  /\ \A g, h \in T : c.entries[g].key = c.entries[h].key => g = h

(* The entries of a shard of which clients hold each handle so many times, *)
(* all of files of F.                                                      *)
EntriesRight(c, held, F) ==
  /\ c \in ShardType(F) /\ F \subseteq TableFiles /\ held \in [Nat -> Nat]
  /\ IsFiniteSet(DOMAIN c.entries)
  /\ \A h \in DOMAIN c.entries :
       c.entries[h].refs = held[h] + (IF c.entries[h].in_cache THEN 1 ELSE 0)
  /\ \A h \in Nat \ DOMAIN c.entries : held[h] = 0
  /\ ListsRight(c)
ShardInv(c, held, F) == EntriesRight(c, held, F) /\ TableHas(c, Cached(c))

LEMMA ShardTypes ==
  ASSUME NEW F, F \subseteq TableFiles, NEW c \in ShardType(F)
  PROVE  /\ c.capacity \in Nat /\ c.usage \in Int /\ c.lru \in Seq(Nat) /\ c.in_use \subseteq Nat
         /\ DOMAIN c.entries \subseteq Nat /\ c.entries \in [DOMAIN c.entries -> CacheEntries(F)]
         /\ \A h \in DOMAIN c.entries :
              /\ c.entries[h].key \in F /\ c.entries[h].key \in TableFiles
              /\ c.entries[h].in_cache \in BOOLEAN /\ c.entries[h].refs \in Nat \ {0}
              /\ c.entries[h] \in CacheEntries(F)
         /\ c.table.length \in Nat \ {0} /\ c.table.elems \in Int
         /\ DOMAIN c.table.list \subseteq Nat /\ c.table.list \in [DOMAIN c.table.list -> SUBSET Nat]
         /\ c.table \in [length : Nat \ {0}, elems : Int, list : HandleMaps(SUBSET Nat)]
         /\ IsShard(c)
<1>1. /\ c.capacity \in Nat /\ c.usage \in Int /\ c.lru \in Seq(Nat) /\ c.in_use \subseteq Nat
      /\ c.entries \in HandleMaps(CacheEntries(F))
      /\ c.table \in [length : Nat \ {0}, elems : Int, list : HandleMaps(SUBSET Nat)]
      /\ IsShard(c)
  BY DEF ShardType, IsShard
<1>2. DOMAIN c.entries \subseteq Nat /\ c.entries \in [DOMAIN c.entries -> CacheEntries(F)]
  BY <1>1 DEF HandleMaps
<1>3. c.table.list \in HandleMaps(SUBSET Nat) /\ c.table.length \in Nat \ {0} /\ c.table.elems \in Int
  BY <1>1
<1>4. DOMAIN c.table.list \subseteq Nat /\ c.table.list \in [DOMAIN c.table.list -> SUBSET Nat]
  BY <1>3 DEF HandleMaps
<1>5. \A h \in DOMAIN c.entries : c.entries[h] \in CacheEntries(F)
  BY <1>2
<1>6. \A h \in DOMAIN c.entries :
              /\ c.entries[h].key \in F /\ c.entries[h].key \in TableFiles
              /\ c.entries[h].in_cache \in BOOLEAN /\ c.entries[h].refs \in Nat \ {0}
              /\ c.entries[h] \in CacheEntries(F)
  BY <1>5 DEF CacheEntries
<1> QED
  BY <1>1, <1>2, <1>3, <1>4, <1>6

(* What only the entries or only the table of a shard changes.             *)
LEMMA EntriesTyped ==
  ASSUME NEW F, F \subseteq TableFiles, NEW c \in ShardType(F), NEW D \in SUBSET Nat,
         NEW e, e \in [D -> CacheEntries(F)],
         NEW usage \in Int, NEW lru \in Seq(Nat), NEW in_use \in SUBSET Nat
  PROVE  [c EXCEPT !.entries = e, !.usage = usage, !.lru = lru, !.in_use = in_use] \in ShardType(F)
<1>1. e \in HandleMaps(CacheEntries(F))
  BY DEF HandleMaps
<1> QED
  BY <1>1 DEF ShardType

(* Two states of a shard with the same entries.                            *)
OnlyTableDiffers(c, d) ==
  /\ d.capacity = c.capacity /\ d.usage = c.usage /\ d.lru = c.lru
  /\ d.in_use = c.in_use /\ d.entries = c.entries

LEMMA TableTyped ==
  ASSUME NEW F, F \subseteq TableFiles, NEW c \in ShardType(F), NEW length \in Nat \ {0},
         NEW elems \in Int, NEW list \in [0 .. length - 1 -> SUBSET Nat],
         NEW d, d = [c EXCEPT !.table = [length |-> length, elems |-> elems, list |-> list]]
  PROVE  /\ d \in ShardType(F) /\ OnlyTableDiffers(c, d)
         /\ d.table.length = length /\ d.table.elems = elems /\ d.table.list = list
<1>1. list \in HandleMaps(SUBSET Nat)
  BY DEF HandleMaps
<1> QED
  BY <1>1 DEF ShardType, OnlyTableDiffers

-----------------------------------------------------------------------------
(* HandleTable.                                                            *)

LEMMA TableFacts ==
  ASSUME NEW F, F \subseteq TableFiles, NEW c \in ShardType(F), NEW T, TableHas(c, T),
         NEW k \in TableFiles
  PROVE  /\ Bucket(c, k) \in 0 .. c.table.length - 1
         /\ TableLookup(c, k) = {h \in T : c.entries[h].key = k}
         /\ \A g, h \in TableLookup(c, k) : g = h
<1>1. \A h \in T : c.entries[h].key \in TableFiles
  BY ShardTypes DEF TableHas
<1>2. Hash[k] \in Nat /\ c.table.length \in Nat \ {0}
  BY ShardTypes, TableCacheAssumption
<1>3. Bucket(c, k) \in 0 .. c.table.length - 1
  BY <1>2 DEF Bucket
<1>4. Chain(c, k) = {h \in T : Hash[c.entries[h].key] % c.table.length = Bucket(c, k)}
  BY <1>3 DEF Chain, TableHas
<1>5. TableLookup(c, k) = {h \in T : c.entries[h].key = k}
  BY <1>4 DEF TableLookup, Bucket
<1> QED
  BY <1>3, <1>5 DEF TableHas

(* A change of the table.                                                  *)
LEMMA TableChanges ==
  ASSUME NEW F, F \subseteq TableFiles, NEW c \in ShardType(F), NEW T \in SUBSET DOMAIN c.entries,
         IsFiniteSet(T), \A g, h \in T : c.entries[g].key = c.entries[h].key => g = h,
         NEW length \in Nat \ {0}, NEW list, DOMAIN list = 0 .. length - 1, list = [b \in DOMAIN list |-> list[b]],
         \A b \in 0 .. length - 1 : list[b] = {h \in T : Hash[c.entries[h].key] % length = b},
         NEW d, d = [c EXCEPT !.table = [length |-> length, elems |-> Cardinality(T), list |-> list]]
  PROVE  d \in ShardType(F) /\ OnlyTableDiffers(c, d) /\ TableHas(d, T)
<1>1. T \subseteq Nat
  BY ShardTypes
<1>2. list \in [0 .. length - 1 -> SUBSET Nat]
  BY <1>1
<1>3. Cardinality(T) \in Int
  BY FS_CardinalityType
<1>4. /\ d \in ShardType(F) /\ OnlyTableDiffers(c, d)
      /\ d.table.length = length /\ d.table.elems = Cardinality(T) /\ d.table.list = list
  BY <1>2, <1>3, TableTyped
<1>6. d.entries = c.entries
  BY <1>4 DEF OnlyTableDiffers
<1>10. TableHas(d, T)
  <2>1. DOMAIN d.table.list = 0 .. d.table.length - 1
    BY <1>4
  <2>2. \A b \in DOMAIN d.table.list :
          d.table.list[b] = {h \in T : Hash[d.entries[h].key] % d.table.length = b}
    BY <1>4, <1>6
  <2>3. T \subseteq DOMAIN d.entries /\ \A g, h \in T : d.entries[g].key = d.entries[h].key => g = h
    BY <1>6
  <2> QED
    BY <1>4, <2>1, <2>2, <2>3 DEF TableHas
<1> QED
  BY <1>4, <1>10

LEMMA TableRemoveFacts ==
  ASSUME NEW F, F \subseteq TableFiles, NEW c \in ShardType(F), NEW T, TableHas(c, T),
         NEW k \in TableFiles
  PROVE  LET d == TableRemove(c, k) IN
         d \in ShardType(F) /\ OnlyTableDiffers(c, d) /\ TableHas(d, T \ TableLookup(c, k))
<1> DEFINE found == TableLookup(c, k)
           B == Bucket(c, k)
           U == T \ found
           list == [c.table.list EXCEPT ![B] = @ \ found]
           d == TableRemove(c, k)
<1>1. /\ B \in 0 .. c.table.length - 1
      /\ found = {h \in T : c.entries[h].key = k}
      /\ \A g, h \in found : g = h
  BY TableFacts
<1>2. CASE found = {}
  BY <1>2 DEF TableRemove, OnlyTableDiffers
<1>3. CASE found # {}
  <2>1. /\ c.table.length \in Nat \ {0}
        /\ c.table \in [length : Nat \ {0}, elems : Int, list : HandleMaps(SUBSET Nat)]
        /\ c.table.list \in [DOMAIN c.table.list -> SUBSET Nat]
    BY ShardTypes
  <2>2. /\ DOMAIN c.table.list = 0 .. c.table.length - 1
        /\ \A b \in DOMAIN c.table.list :
             c.table.list[b] = {h \in T : Hash[c.entries[h].key] % c.table.length = b}
        /\ T \subseteq DOMAIN c.entries /\ IsFiniteSet(T)
        /\ \A g, h \in T : c.entries[g].key = c.entries[h].key => g = h
        /\ c.table.elems = Cardinality(T)
    BY DEF TableHas
  <2>3. PICK g \in T : found = {g}
    BY <1>1, <1>3
  <2>4. Cardinality(U) = c.table.elems - 1 /\ IsFiniteSet(U)
    BY <2>2, <2>3, FS_RemoveElement
  <2>5. list = [b \in 0 .. c.table.length - 1 |-> {h \in U : Hash[c.entries[h].key] % c.table.length = b}]
    <3>1. ASSUME NEW b \in 0 .. c.table.length - 1
          PROVE  list[b] = {h \in U : Hash[c.entries[h].key] % c.table.length = b}
      <4>1. \A h \in found : Hash[c.entries[h].key] % c.table.length = B
        BY <1>1 DEF Bucket
      <4>2. CASE b = B
        BY <1>1, <2>1, <2>2, <4>2
      <4>3. CASE b # B
        BY <2>1, <2>2, <4>1, <4>3
      <4> QED
        BY <4>2, <4>3
    <3> QED
      BY <2>1, <2>2, <3>1
  <2> HIDE DEF list, found, B, U
  <2>6. d = [c EXCEPT !.table = [length |-> c.table.length, elems |-> Cardinality(U), list |-> list]]
    <3>1. d = [c EXCEPT !.table = [length |-> c.table.length, elems |-> c.table.elems - 1, list |-> list]]
      BY <1>3 DEF TableRemove, found, B, list
    <3> QED
      BY <2>4, <3>1
  <2>7. U \in SUBSET DOMAIN c.entries /\ \A x, y \in U : c.entries[x].key = c.entries[y].key => x = y
    BY <2>2 DEF U
  <2> HIDE DEF d
  <2>8. d \in ShardType(F) /\ OnlyTableDiffers(c, d) /\ TableHas(d, U)
    BY <2>1, <2>4, <2>5, <2>6, <2>7, TableChanges, ZenonT(40)
  <2> QED
    BY <2>8 DEF d, U, found
<1> QED
  BY <1>2, <1>3

LEMMA ResizeFacts ==
  ASSUME NEW F, F \subseteq TableFiles, NEW c \in ShardType(F), NEW T, TableHas(c, T)
  PROVE  LET d == Resize(c) IN
         d \in ShardType(F) /\ OnlyTableDiffers(c, d) /\ TableHas(d, T)
<1> DEFINE length == IF c.table.elems <= kMinBuckets THEN kMinBuckets ELSE 2 * c.table.length
           all == UNION {c.table.list[b] : b \in DOMAIN c.table.list}
           list == [b \in 0 .. length - 1 |-> {h \in all : Hash[c.entries[h].key] % length = b}]
           d == Resize(c)
<1>1. /\ c.table.length \in Nat \ {0}
      /\ c.table \in [length : Nat \ {0}, elems : Int, list : HandleMaps(SUBSET Nat)]
      /\ \A h \in DOMAIN c.entries : c.entries[h].key \in TableFiles
  BY ShardTypes
<1>2. /\ DOMAIN c.table.list = 0 .. c.table.length - 1
      /\ \A b \in DOMAIN c.table.list :
           c.table.list[b] = {h \in T : Hash[c.entries[h].key] % c.table.length = b}
      /\ T \subseteq DOMAIN c.entries /\ IsFiniteSet(T)
      /\ \A g, h \in T : c.entries[g].key = c.entries[h].key => g = h
      /\ c.table.elems = Cardinality(T)
  BY DEF TableHas
<1>3. length \in Nat \ {0}
  BY <1>1, TableCacheAssumption
<1>4. all = T
  <2>1. ASSUME NEW h \in T
        PROVE  h \in all
    <3>1. Hash[c.entries[h].key] % c.table.length \in 0 .. c.table.length - 1
      BY <1>1, <1>2, TableCacheAssumption
    <3> QED
      BY <1>2, <3>1
  <2> QED
    BY <1>2, <2>1
<1>5. d = [c EXCEPT !.table = [length |-> length, elems |-> Cardinality(T), list |-> list]]
  <2>1. d = [c EXCEPT !.table = [length |-> length, elems |-> c.table.elems, list |-> list]]
    BY DEF Resize, ShardType
  <2> HIDE DEF length, list
  <2> QED
    BY <1>2, <2>1
<1>6. list = [b \in 0 .. length - 1 |-> {h \in T : Hash[c.entries[h].key] % length = b}]
  BY <1>4
<1> HIDE DEF d, list, length
<1>7. d \in ShardType(F) /\ OnlyTableDiffers(c, d) /\ TableHas(d, T)
  BY <1>2, <1>3, <1>5, <1>6, TableChanges
<1> QED
  BY <1>7 DEF d

LEMMA TableInsertFacts ==
  ASSUME NEW F, F \subseteq TableFiles, NEW c \in ShardType(F), NEW T, TableHas(c, T),
         NEW x \in DOMAIN c.entries, x \notin T
  PROVE  LET d == TableInsert(c, x)
             k == c.entries[x].key
         IN  /\ d \in ShardType(F) /\ OnlyTableDiffers(c, d)
             /\ TableHas(d, (T \ TableLookup(c, k)) \cup {x})
<1> DEFINE k == c.entries[x].key
           old == TableLookup(c, k)
           B == Bucket(c, k)
           U == (T \ old) \cup {x}
           elems == IF old = {} THEN c.table.elems + 1 ELSE c.table.elems
           list == [c.table.list EXCEPT ![B] = (@ \ old) \cup {x}]
           d == [c EXCEPT !.table = [length |-> c.table.length, elems |-> elems, list |-> list]]
<1>1. /\ c.table.length \in Nat \ {0} /\ k \in TableFiles
      /\ c.table \in [length : Nat \ {0}, elems : Int, list : HandleMaps(SUBSET Nat)]
      /\ c.table.list \in [DOMAIN c.table.list -> SUBSET Nat] /\ c.table.elems \in Int
  BY ShardTypes
<1>2. /\ DOMAIN c.table.list = 0 .. c.table.length - 1
      /\ \A b \in DOMAIN c.table.list :
           c.table.list[b] = {h \in T : Hash[c.entries[h].key] % c.table.length = b}
      /\ T \subseteq DOMAIN c.entries /\ IsFiniteSet(T)
      /\ \A g, h \in T : c.entries[g].key = c.entries[h].key => g = h
      /\ c.table.elems = Cardinality(T)
  BY DEF TableHas
<1>3. /\ B \in 0 .. c.table.length - 1
      /\ old = {h \in T : c.entries[h].key = k}
      /\ \A g, h \in old : g = h
  BY <1>1, TableFacts
<1>4. Cardinality(U) = elems /\ IsFiniteSet(U)
  <2>1. CASE old = {}
    BY <1>2, <2>1, FS_AddElement
  <2>2. CASE old # {}
    <3>1. PICK g \in T : old = {g}
      BY <1>3, <2>2
    <3>2. Cardinality(T \ {g}) = Cardinality(T) - 1 /\ IsFiniteSet(T \ {g})
      BY <1>2, FS_RemoveElement
    <3>3. Cardinality((T \ {g}) \cup {x}) = Cardinality(T \ {g}) + 1 /\ IsFiniteSet((T \ {g}) \cup {x})
      BY <3>2, FS_AddElement
    <3> QED
      BY <1>1, <1>2, <2>2, <3>1, <3>2, <3>3
  <2> QED
    BY <2>1, <2>2
<1>5. list = [b \in 0 .. c.table.length - 1 |-> {h \in U : Hash[c.entries[h].key] % c.table.length = b}]
  <2>1. Hash[c.entries[x].key] % c.table.length = B /\ \A h \in old : Hash[c.entries[h].key] % c.table.length = B
    BY <1>3 DEF Bucket
  <2>2. ASSUME NEW b \in 0 .. c.table.length - 1
        PROVE  list[b] = {h \in U : Hash[c.entries[h].key] % c.table.length = b}
    <3>1. CASE b = B
      BY <1>1, <1>2, <2>1, <3>1, SMTT(30)
    <3>2. CASE b # B
      BY <1>1, <1>2, <2>1, <3>2
    <3> QED
      BY <3>1, <3>2
  <2> QED
    BY <1>1, <1>2, <2>2
<1>6. \A g, h \in U : c.entries[g].key = c.entries[h].key => g = h
  BY <1>2, <1>3
<1>7. U \in SUBSET DOMAIN c.entries
  BY <1>2
<1>8. TableInsert(c, x) = IF d.table.elems > d.table.length THEN Resize(d) ELSE d
  BY DEF TableInsert
<1> HIDE DEF list, old, B, k, U, elems
<1>9. d = [c EXCEPT !.table = [length |-> c.table.length, elems |-> Cardinality(U), list |-> list]]
  BY <1>4
<1> HIDE DEF d
<1>10. d \in ShardType(F) /\ OnlyTableDiffers(c, d) /\ TableHas(d, U)
  BY <1>1, <1>4, <1>5, <1>6, <1>7, <1>9, TableChanges, ZenonT(40)
<1>11. /\ Resize(d) \in ShardType(F) /\ OnlyTableDiffers(d, Resize(d)) /\ TableHas(Resize(d), U)
  BY <1>10, ResizeFacts
<1>12. OnlyTableDiffers(c, Resize(d))
  BY <1>10, <1>11 DEF OnlyTableDiffers
<1> QED
  BY <1>8, <1>10, <1>11, <1>12 DEF U, old, k

-----------------------------------------------------------------------------
(* The lists and the counts.                                               *)

(* An element is taken out of a list that has it at most once.             *)
LEMMA ListRemoved ==
  ASSUME NEW s \in Seq(Nat), IsInjective(s), NEW x
  PROVE  /\ RemoveFirst(s, x) \in Seq(Nat) /\ IsInjective(RemoveFirst(s, x))
         /\ ToSet(RemoveFirst(s, x)) = ToSet(s) \ {x}
<1>1. DOMAIN s = 1 .. Len(s) /\ Len(s) \in Nat
  OBVIOUS
<1>2. CASE \E i \in 1 .. Len(s) : s[i] = x
  <2>1. PICK i \in 1 .. Len(s) : s[i] = x
    BY <1>2
  <2>2. RemoveFirst(s, x) = RemoveAt(s, i)
    BY <2>1, RemoveFirstIsRemoveAt
  <2>3. RemoveAt(s, i) \in Seq(Nat)
    BY RemoveAtFacts
  <2>4. ToSet(RemoveAt(s, i)) = ToSet(s) \ {s[i]} /\ IsInjective(RemoveAt(s, i))
    BY RemoveAtInjective
  <2> QED
    BY <2>1, <2>2, <2>3, <2>4
<1>3. CASE ~ \E i \in 1 .. Len(s) : s[i] = x
  <2>1. RemoveFirst(s, x) = s
    BY <1>3 DEF RemoveFirst
  <2>2. x \notin ToSet(s)
    BY <1>1, <1>3 DEF ToSet
  <2> QED
    BY <2>1, <2>2
<1> QED
  BY <1>2, <1>3

(* An element is added to a list that does not have it.                    *)
LEMMA ListAppended ==
  ASSUME NEW s \in Seq(Nat), IsInjective(s), NEW x \in Nat, x \notin ToSet(s)
  PROVE  /\ Append(s, x) \in Seq(Nat) /\ IsInjective(Append(s, x))
         /\ ToSet(Append(s, x)) = ToSet(s) \cup {x}
<1>1. /\ Append(s, x) \in Seq(Nat) /\ Len(Append(s, x)) = Len(s) + 1
      /\ Append(s, x)[Len(s) + 1] = x
      /\ \A k \in 1 .. Len(s) : Append(s, x)[k] = s[k]
      /\ ToSet(Append(s, x)) = ToSet(s) \cup {x}
  BY AppendFacts
<1>2. /\ DOMAIN s = 1 .. Len(s) /\ Len(s) \in Nat /\ \A k \in 1 .. Len(s) : s[k] # x
      /\ DOMAIN Append(s, x) = 1 .. Len(s) + 1
      /\ \A i, j \in 1 .. Len(s) : s[i] = s[j] => i = j
  BY <1>1 DEF ToSet, IsInjective
<1> DEFINE t == Append(s, x)
<1> HIDE DEF t
<1>3. ASSUME NEW i \in DOMAIN t, NEW j \in DOMAIN t, t[i] = t[j]
      PROVE  i = j
  BY <1>1, <1>2, <1>3 DEF t
<1>4. IsInjective(t)
  BY <1>3 DEF IsInjective
<1> QED
  BY <1>1, <1>4 DEF t

(* The second is the first but for the entry of a handle, and its lists.   *)
EntryIs(c, d, h, e) ==
  /\ d.entries = [c.entries EXCEPT ![h] = e] /\ e.key = c.entries[h].key
  /\ d.table = c.table /\ d.capacity = c.capacity
  /\ d.usage \in Int /\ d.lru \in Seq(Nat) /\ d.in_use \in SUBSET Nat
  /\ IsShard(d)

LEMMA EntryFacts ==
  ASSUME NEW F, F \subseteq TableFiles, NEW c \in ShardType(F), NEW h \in DOMAIN c.entries,
         NEW e \in CacheEntries(F), NEW d, EntryIs(c, d, h, e)
  PROVE  /\ d \in ShardType(F)
         /\ DOMAIN d.entries = DOMAIN c.entries /\ d.entries[h] = e
         /\ \A g \in DOMAIN c.entries : d.entries[g].key = c.entries[g].key
         /\ \A g \in DOMAIN c.entries : g # h => d.entries[g] = c.entries[g]
<1>1. /\ DOMAIN c.entries \subseteq Nat /\ c.entries \in [DOMAIN c.entries -> CacheEntries(F)]
      /\ c.table \in [length : Nat \ {0}, elems : Int, list : HandleMaps(SUBSET Nat)] /\ c.capacity \in Nat
  BY ShardTypes
<1>4. /\ d.entries = [c.entries EXCEPT ![h] = e] /\ d.table = c.table /\ d.capacity = c.capacity
      /\ d.usage \in Int /\ d.lru \in Seq(Nat) /\ d.in_use \in SUBSET Nat
  BY DEF EntryIs
<1>5. d.entries \in [DOMAIN c.entries -> CacheEntries(F)]
  BY <1>1, <1>4
<1>6. d.entries \in HandleMaps(CacheEntries(F))
  BY <1>1, <1>5 DEF HandleMaps
<1>7. d \in ShardType(F)
  BY <1>1, <1>4, <1>6 DEF ShardType, EntryIs, IsShard
<1>8. e.key = c.entries[h].key
  BY DEF EntryIs
<1> QED
  BY <1>1, <1>4, <1>5, <1>7, <1>8

(* A client holds a handle once more, or once less.                        *)
Held(held, h, n) == [held EXCEPT ![h] = held[h] + n]

(* The entries that remain are as they were.                               *)
KeysKept(c, d) ==
  /\ DOMAIN d.entries \subseteq DOMAIN c.entries /\ d.capacity = c.capacity
  /\ \A h \in DOMAIN d.entries : d.entries[h].key = c.entries[h].key

(* What an entry has besides the references of clients; where it is.       *)
CacheRef(e) == IF e.in_cache THEN 1 ELSE 0
InUse(e) == e.in_cache /\ e.refs >= 2
InLru(e) == e.in_cache /\ e.refs = 1

ListsFollow(c, d, h, e) ==
  /\ d.in_use = IF InUse(e) THEN c.in_use \cup {h} ELSE c.in_use \ {h}
  /\ ToSet(d.lru) = IF InLru(e) THEN ToSet(c.lru) \cup {h} ELSE ToSet(c.lru) \ {h}
  /\ IsInjective(d.lru)
  /\ d.usage = Cardinality(Cached(d))

(* The first is right for its clients.  An entry changed: the second is    *)
(* right for the clients it has then, when its lists and usage follow.     *)
LEMMA EntryChanges ==
  ASSUME NEW F, NEW held, NEW c, EntriesRight(c, held, F), NEW h \in DOMAIN c.entries,
         NEW e \in CacheEntries(F), NEW d, EntryIs(c, d, h, e),
         NEW m \in Int, e.refs = held[h] + m + CacheRef(e), held[h] + m \in Nat,
         ListsFollow(c, d, h, e)
  PROVE  EntriesRight(d, Held(held, h, m), F) /\ KeysKept(c, d)
<1>1. /\ c \in ShardType(F) /\ F \subseteq TableFiles /\ held \in [Nat -> Nat]
      /\ IsFiniteSet(DOMAIN c.entries)
      /\ \A g \in DOMAIN c.entries : c.entries[g].refs = held[g] + CacheRef(c.entries[g])
      /\ \A g \in Nat \ DOMAIN c.entries : held[g] = 0
      /\ c.in_use = {g \in DOMAIN c.entries : InUse(c.entries[g])}
      /\ ToSet(c.lru) = {g \in DOMAIN c.entries : InLru(c.entries[g])}
  BY DEF EntriesRight, ListsRight, CacheRef, InUse, InLru, Cached
<1>2. /\ d \in ShardType(F)
      /\ DOMAIN d.entries = DOMAIN c.entries /\ d.entries[h] = e
      /\ \A g \in DOMAIN c.entries : d.entries[g].key = c.entries[g].key
      /\ \A g \in DOMAIN c.entries : g # h => d.entries[g] = c.entries[g]
  BY <1>1, EntryFacts
<1>3. h \in Nat /\ DOMAIN c.entries \subseteq Nat
  BY <1>1, ShardTypes
<1> DEFINE k == Held(held, h, m)
<1>4. k \in [Nat -> Nat] /\ k[h] = held[h] + m /\ \A g \in Nat : g # h => k[g] = held[g]
  BY <1>1, <1>3 DEF Held
<1> HIDE DEF k
<1>5. \A g \in DOMAIN d.entries : d.entries[g].refs = k[g] + CacheRef(d.entries[g])
  <2> TAKE g \in DOMAIN d.entries
  <2>1. CASE g = h
    BY <1>2, <1>4, <2>1
  <2>2. CASE g # h
    BY <1>1, <1>2, <1>3, <1>4, <2>2
  <2> QED
    BY <2>1, <2>2
<1>6. \A g \in Nat \ DOMAIN d.entries : k[g] = 0
  BY <1>1, <1>2, <1>3, <1>4
<1>7. d.in_use = {g \in DOMAIN d.entries : InUse(d.entries[g])}
  BY <1>1, <1>2 DEF ListsFollow
<1>8. ToSet(d.lru) = {g \in DOMAIN d.entries : InLru(d.entries[g])}
  BY <1>1, <1>2 DEF ListsFollow
<1>9. ListsRight(d)
  BY <1>7, <1>8 DEF ListsRight, InUse, InLru, Cached, ListsFollow
<1>10. EntriesRight(d, k, F)
  BY <1>1, <1>2, <1>4, <1>5, <1>6, <1>9 DEF EntriesRight, CacheRef
<1>11. KeysKept(c, d)
  BY <1>2 DEF KeysKept, EntryIs
<1> QED
  BY <1>10, <1>11 DEF k

LEMMA RefFacts ==
  ASSUME NEW F, NEW held, NEW c, EntriesRight(c, held, F), NEW h \in DOMAIN c.entries
  PROVE  LET d == Ref(c, h) IN
         /\ EntriesRight(d, Held(held, h, 1), F) /\ KeysKept(c, d)
         /\ d.table = c.table /\ DOMAIN d.entries = DOMAIN c.entries /\ Cached(d) = Cached(c)
<1> DEFINE d == Ref(c, h)
           e == [c.entries[h] EXCEPT !.refs = @ + 1]
           moved == c.entries[h].refs = 1 /\ c.entries[h].in_cache
<1>1. /\ c \in ShardType(F) /\ F \subseteq TableFiles /\ held \in [Nat -> Nat]
      /\ c.entries[h].refs = held[h] + CacheRef(c.entries[h])
      /\ c.in_use = {g \in DOMAIN c.entries : InUse(c.entries[g])}
      /\ ToSet(c.lru) = {g \in DOMAIN c.entries : InLru(c.entries[g])}
      /\ IsInjective(c.lru) /\ c.usage = Cardinality(Cached(c))
  BY DEF EntriesRight, ListsRight, CacheRef, InUse, InLru, Cached
<1>2. /\ h \in Nat /\ c.lru \in Seq(Nat) /\ c.in_use \subseteq Nat /\ c.usage \in Int
      /\ c.entries[h] \in CacheEntries(F) /\ c.entries[h].refs \in Nat \ {0}
  BY <1>1, ShardTypes
<1>3. /\ e \in CacheEntries(F) /\ e.key = c.entries[h].key
      /\ e.in_cache = c.entries[h].in_cache /\ e.refs = c.entries[h].refs + 1
  BY <1>2 DEF CacheEntries
<1>4. /\ d.entries = [c.entries EXCEPT ![h] = e]
      /\ d.table = c.table /\ d.capacity = c.capacity /\ d.usage = c.usage
      /\ d.lru = IF moved THEN RemoveFirst(c.lru, h) ELSE c.lru
      /\ d.in_use = IF moved THEN (c.in_use \ {h}) \cup {h} ELSE c.in_use
      /\ IsShard(d)
  <2>1. CASE moved
    <3>1. d = [[LRU_Remove(c, h) EXCEPT !.in_use = @ \cup {h}] EXCEPT !.entries[h].refs = @ + 1]
      BY <2>1 DEF Ref
    <3>2. d = [c EXCEPT !.lru = RemoveFirst(c.lru, h), !.in_use = (c.in_use \ {h}) \cup {h}, !.entries = [c.entries EXCEPT ![h] = e]]
      BY <1>1, <3>1 DEF LRU_Remove, ShardType
    <3> HIDE DEF d, e
    <3> QED
      BY <1>1, <2>1, <3>2 DEF ShardType, IsShard
  <2>2. CASE ~ moved
    <3>1. d = [c EXCEPT !.entries[h].refs = @ + 1]
      BY <2>2 DEF Ref
    <3>2. d = [c EXCEPT !.entries = [c.entries EXCEPT ![h] = e]]
      BY <3>1
    <3> HIDE DEF d, e
    <3> QED
      BY <1>1, <2>2, <3>2 DEF ShardType, IsShard
  <2> QED
    BY <2>1, <2>2
<1> HIDE DEF d, e
<1>6. /\ RemoveFirst(c.lru, h) \in Seq(Nat) /\ IsInjective(RemoveFirst(c.lru, h))
      /\ ToSet(RemoveFirst(c.lru, h)) = ToSet(c.lru) \ {h}
  BY <1>1, <1>2, ListRemoved
<1>7. d.usage \in Int /\ d.lru \in Seq(Nat) /\ d.in_use \in SUBSET Nat /\ IsInjective(d.lru)
  BY <1>1, <1>2, <1>4, <1>6
<1>5. EntryIs(c, d, h, e)
  BY <1>3, <1>4, <1>7 DEF EntryIs
<1>8. ~ InLru(e) /\ CacheRef(e) = CacheRef(c.entries[h]) /\ (InUse(e) <=> e.in_cache)
  BY <1>2, <1>3 DEF InLru, InUse, CacheRef
<1>9. /\ d.in_use = IF InUse(e) THEN c.in_use \cup {h} ELSE c.in_use \ {h}
      /\ ToSet(d.lru) = IF InLru(e) THEN ToSet(c.lru) \cup {h} ELSE ToSet(c.lru) \ {h}
  <2>1. CASE moved
    BY <1>1, <1>3, <1>4, <1>6, <1>8, <2>1
  <2>2. CASE ~ moved
    <3>1. h \in ToSet(c.lru) <=> FALSE
      BY <1>1, <1>2, <2>2 DEF InLru
    <3>2. h \in c.in_use <=> InUse(e)
      <4>1. c.entries[h].in_cache => c.entries[h].refs >= 2
        BY <1>2, <2>2
      <4>2. InUse(c.entries[h]) <=> c.entries[h].in_cache
        BY <4>1 DEF InUse
      <4>3. h \in c.in_use <=> InUse(c.entries[h])
        BY <1>1
      <4>4. e.in_cache <=> c.entries[h].in_cache
        BY <1>3
      <4> QED
        BY <1>8, <4>2, <4>3, <4>4
    <3> QED
      BY <1>4, <1>8, <2>2, <3>1, <3>2
  <2> QED
    BY <2>1, <2>2
<1>10. /\ DOMAIN d.entries = DOMAIN c.entries /\ d.entries[h] = e
       /\ \A g \in DOMAIN c.entries : g # h => d.entries[g] = c.entries[g]
  BY <1>1, <1>3, <1>5, EntryFacts
<1>11. Cached(d) = Cached(c)
  BY <1>3, <1>10 DEF Cached
<1>12. e.refs = held[h] + 1 + CacheRef(e) /\ held[h] + 1 \in Nat
  <2>1. CacheRef(e) \in Int /\ held[h] \in Nat
    BY <1>1, <1>2 DEF CacheRef
  <2> QED
    BY <1>1, <1>3, <1>8, <2>1
<1>13. EntriesRight(d, Held(held, h, 1), F) /\ KeysKept(c, d)
  <2>1. ListsFollow(c, d, h, e)
    BY <1>1, <1>4, <1>7, <1>9, <1>11 DEF ListsFollow
  <2> QED
    BY <1>3, <1>5, <1>12, <2>1, EntryChanges
<1> QED
  BY <1>4, <1>10, <1>11, <1>13 DEF d

(* Entries are freed.                                                      *)
LEMMA EntryFreed ==
  ASSUME NEW F, NEW held, NEW c, EntriesRight(c, held, F), NEW h \in DOMAIN c.entries,
         c.entries[h].refs = 1, held[h] >= 1,
         NEW d, d = [c EXCEPT !.entries = [g \in DOMAIN c.entries \ {h} |-> c.entries[g]]]
  PROVE  /\ EntriesRight(d, Held(held, h, -1), F) /\ KeysKept(c, d)
         /\ d.table = c.table /\ DOMAIN d.entries = DOMAIN c.entries \ {h} /\ Cached(d) = Cached(c)
<1>1. /\ c \in ShardType(F) /\ F \subseteq TableFiles /\ held \in [Nat -> Nat]
      /\ IsFiniteSet(DOMAIN c.entries)
      /\ \A g \in DOMAIN c.entries : c.entries[g].refs = held[g] + CacheRef(c.entries[g])
      /\ \A g \in Nat \ DOMAIN c.entries : held[g] = 0
      /\ c.in_use = {g \in DOMAIN c.entries : InUse(c.entries[g])}
      /\ ToSet(c.lru) = {g \in DOMAIN c.entries : InLru(c.entries[g])}
      /\ IsInjective(c.lru) /\ c.usage = Cardinality(Cached(c))
  BY DEF EntriesRight, ListsRight, CacheRef, InUse, InLru, Cached
<1>2. /\ h \in Nat /\ DOMAIN c.entries \subseteq Nat /\ c.entries \in [DOMAIN c.entries -> CacheEntries(F)]
      /\ c.capacity \in Nat /\ c.usage \in Int /\ c.lru \in Seq(Nat) /\ c.in_use \subseteq Nat
      /\ c.table \in [length : Nat \ {0}, elems : Int, list : HandleMaps(SUBSET Nat)]
  BY <1>1, ShardTypes
<1>3. held[h] = 1 /\ ~ c.entries[h].in_cache
  <2>1. held[h] \in Nat /\ 1 = held[h] + CacheRef(c.entries[h])
    BY <1>1, <1>2
  <2>2. CASE c.entries[h].in_cache
    BY <2>1, <2>2 DEF CacheRef
  <2>3. CASE ~ c.entries[h].in_cache
    BY <2>1, <2>3 DEF CacheRef
  <2> QED
    BY <2>2, <2>3
<1> DEFINE entries == [g \in DOMAIN c.entries \ {h} |-> c.entries[g]]
<1>4. /\ d.entries = entries
      /\ d.table = c.table /\ d.capacity = c.capacity /\ d.usage = c.usage
      /\ d.lru = c.lru /\ d.in_use = c.in_use /\ IsShard(d)
  BY <1>1 DEF ShardType, IsShard
<1>5. /\ DOMAIN d.entries = DOMAIN c.entries \ {h}
      /\ \A g \in DOMAIN d.entries : d.entries[g] = c.entries[g]
      /\ d.entries \in [DOMAIN c.entries \ {h} -> CacheEntries(F)]
  BY <1>2, <1>4
<1> HIDE DEF entries
<1>6. d.entries \in HandleMaps(CacheEntries(F))
  <2> DEFINE D == DOMAIN c.entries \ {h}
  <2>1. D \in SUBSET Nat
    BY <1>2
  <2>2. d.entries \in [D -> CacheEntries(F)]
    BY <1>5
  <2> HIDE DEF D
  <2> QED
    BY <2>1, <2>2 DEF HandleMaps
<1>7. d \in ShardType(F)
  BY <1>2, <1>4, <1>6 DEF ShardType, IsShard
<1> DEFINE k == Held(held, h, -1)
<1>8. k \in [Nat -> Nat] /\ k[h] = 0 /\ \A g \in Nat : g # h => k[g] = held[g]
  BY <1>1, <1>2, <1>3 DEF Held
<1> HIDE DEF k
<1>9. Cached(d) = Cached(c)
  BY <1>3, <1>5 DEF Cached
<1>10. ListsRight(d)
  <2>1. ~ InUse(c.entries[h]) /\ ~ InLru(c.entries[h])
    BY <1>3 DEF InUse, InLru
  <2>2. d.in_use = {g \in DOMAIN d.entries : InUse(d.entries[g])}
    BY <1>1, <1>4, <1>5, <2>1
  <2>3. ToSet(d.lru) = {g \in DOMAIN d.entries : InLru(d.entries[g])}
    BY <1>1, <1>4, <1>5, <2>1
  <2> QED
    BY <1>1, <1>4, <1>9, <2>2, <2>3 DEF ListsRight, InUse, InLru, Cached
<1>11. /\ \A g \in DOMAIN d.entries : d.entries[g].refs = k[g] + CacheRef(d.entries[g])
       /\ \A g \in Nat \ DOMAIN d.entries : k[g] = 0
  BY <1>1, <1>2, <1>5, <1>8, ZenonT(40)
<1>12. IsFiniteSet(DOMAIN d.entries)
  BY <1>1, <1>5, FS_RemoveElement
<1>13. EntriesRight(d, k, F)
  BY <1>1, <1>7, <1>8, <1>10, <1>11, <1>12 DEF EntriesRight, CacheRef
<1>14. KeysKept(c, d)
  BY <1>4, <1>5 DEF KeysKept
<1> QED
  BY <1>4, <1>5, <1>9, <1>13, <1>14 DEF k

LEMMA UnrefFacts ==
  ASSUME NEW F, NEW held, NEW c, EntriesRight(c, held, F), NEW h \in DOMAIN c.entries, held[h] >= 1
  PROVE  LET d == Unref(c, h) IN
         /\ EntriesRight(d, Held(held, h, -1), F) /\ KeysKept(c, d)
         /\ d.table = c.table /\ Cached(d) = Cached(c)
<1> DEFINE d == Unref(c, h)
           moved == c.entries[h].in_cache /\ c.entries[h].refs = 2
           e == [c.entries[h] EXCEPT !.refs = @ - 1]
<1>1. /\ c \in ShardType(F) /\ F \subseteq TableFiles /\ held \in [Nat -> Nat]
      /\ c.entries[h].refs = held[h] + CacheRef(c.entries[h])
      /\ c.in_use = {g \in DOMAIN c.entries : InUse(c.entries[g])}
      /\ ToSet(c.lru) = {g \in DOMAIN c.entries : InLru(c.entries[g])}
      /\ IsInjective(c.lru) /\ c.usage = Cardinality(Cached(c))
  BY DEF EntriesRight, ListsRight, CacheRef, InUse, InLru, Cached
<1>2. /\ h \in Nat /\ c.lru \in Seq(Nat) /\ c.in_use \subseteq Nat /\ c.usage \in Int
      /\ c.entries[h] \in CacheEntries(F) /\ c.entries[h].refs \in Nat \ {0}
  BY <1>1, ShardTypes
<1>3. CASE c.entries[h].refs = 1
  <2>1. d = [c EXCEPT !.entries = [g \in DOMAIN c.entries \ {h} |-> c.entries[g]]]
    BY <1>3 DEF Unref
  <2> HIDE DEF d
  <2>2. EntriesRight(d, Held(held, h, -1), F) /\ KeysKept(c, d) /\ d.table = c.table /\ Cached(d) = Cached(c)
    BY <1>3, <2>1, EntryFreed
  <2> QED
    BY <2>2 DEF d
<1>4. CASE c.entries[h].refs # 1
  <2>1. /\ e \in CacheEntries(F) /\ e.key = c.entries[h].key
        /\ e.in_cache = c.entries[h].in_cache /\ e.refs = c.entries[h].refs - 1
    BY <1>2, <1>4 DEF CacheEntries
  <2>2. moved => e = [c.entries[h] EXCEPT !.refs = 1]
    BY <1>2
  <2>3. /\ d.entries = [c.entries EXCEPT ![h] = e]
        /\ d.table = c.table /\ d.capacity = c.capacity /\ d.usage = c.usage
        /\ d.lru = IF moved THEN Append(RemoveFirst(c.lru, h), h) ELSE c.lru
        /\ d.in_use = IF moved THEN c.in_use \ {h} ELSE c.in_use
        /\ IsShard(d)
    <3>1. CASE moved
      <4>1. d = [LRU_Remove(c, h) EXCEPT !.entries[h].refs = 1, !.lru = Append(@, h)]
        BY <1>4, <3>1 DEF Unref
      <4>2. d = [c EXCEPT !.lru = Append(RemoveFirst(c.lru, h), h), !.in_use = c.in_use \ {h},
                          !.entries = [c.entries EXCEPT ![h] = e]]
        BY <1>1, <2>2, <3>1, <4>1 DEF LRU_Remove, ShardType
      <4> HIDE DEF d, e
      <4> QED
        BY <1>1, <3>1, <4>2 DEF ShardType, IsShard
    <3>2. CASE ~ moved
      <4>1. d = [c EXCEPT !.entries[h].refs = @ - 1]
        BY <1>4, <3>2 DEF Unref
      <4>2. d = [c EXCEPT !.entries = [c.entries EXCEPT ![h] = e]]
        BY <4>1
      <4> HIDE DEF d, e
      <4> QED
        BY <1>1, <3>2, <4>2 DEF ShardType, IsShard
    <3> QED
      BY <3>1, <3>2
  <2> HIDE DEF d, e
  <2>4. /\ RemoveFirst(c.lru, h) \in Seq(Nat) /\ IsInjective(RemoveFirst(c.lru, h))
        /\ ToSet(RemoveFirst(c.lru, h)) = ToSet(c.lru) \ {h}
    BY <1>1, <1>2, ListRemoved
  <2>5. /\ Append(RemoveFirst(c.lru, h), h) \in Seq(Nat) /\ IsInjective(Append(RemoveFirst(c.lru, h), h))
        /\ ToSet(Append(RemoveFirst(c.lru, h), h)) = (ToSet(c.lru) \ {h}) \cup {h}
    BY <1>2, <2>4, ListAppended
  <2>6. d.usage \in Int /\ d.lru \in Seq(Nat) /\ d.in_use \in SUBSET Nat /\ IsInjective(d.lru)
    BY <1>1, <1>2, <2>3, <2>5
  <2>7. EntryIs(c, d, h, e)
    BY <2>1, <2>3, <2>6 DEF EntryIs
  <2>8. /\ DOMAIN d.entries = DOMAIN c.entries /\ d.entries[h] = e
        /\ \A g \in DOMAIN c.entries : g # h => d.entries[g] = c.entries[g]
    BY <1>1, <2>1, <2>7, EntryFacts
  <2>9. Cached(d) = Cached(c)
    BY <2>1, <2>8 DEF Cached
  <2>10. CacheRef(e) = CacheRef(c.entries[h]) /\ CacheRef(e) \in Int
    BY <2>1 DEF CacheRef
  <2>11. e.refs = held[h] + (-1) + CacheRef(e) /\ held[h] + (-1) \in Nat
    <3>1. held[h] \in Nat /\ c.entries[h].refs \in Nat
      BY <1>1, <1>2
    <3>2. e.refs = held[h] + CacheRef(e) - 1
      BY <1>1, <2>1, <2>10, <3>1
    <3> HIDE DEF e
    <3> QED
      BY <2>10, <3>1, <3>2
  <2>12. (h \notin ToSet(c.lru)) /\ (InLru(e) <=> moved) /\ (InUse(e) <=> (h \in c.in_use /\ ~ moved))
    <3>1. ~ InLru(c.entries[h])
      BY <1>4 DEF InLru
    <3>2. h \notin ToSet(c.lru)
      BY <1>1, <3>1
    <3>3. InLru(e) <=> moved
      BY <1>2, <2>1 DEF InLru
    <3>4. InUse(e) <=> (InUse(c.entries[h]) /\ ~ moved)
      <4>1. CASE c.entries[h].in_cache
        BY <1>2, <2>1, <4>1 DEF InUse
      <4>2. CASE ~ c.entries[h].in_cache
        BY <2>1, <4>2 DEF InUse
      <4> QED
        BY <4>1, <4>2
    <3>5. h \in c.in_use <=> InUse(c.entries[h])
      BY <1>1
    <3> QED
      BY <3>2, <3>3, <3>4, <3>5
  <2>13. ListsFollow(c, d, h, e)
    <3>1. CASE moved
      BY <1>1, <2>3, <2>5, <2>6, <2>9, <2>12, <3>1 DEF ListsFollow
    <3>2. CASE ~ moved
      BY <1>1, <2>3, <2>6, <2>9, <2>12, <3>2, ZenonT(40) DEF ListsFollow
    <3> QED
      BY <3>1, <3>2
  <2>14. EntriesRight(d, Held(held, h, -1), F) /\ KeysKept(c, d)
    BY <2>1, <2>7, <2>11, <2>13, EntryChanges
  <2> QED
    BY <2>3, <2>9, <2>14 DEF d
<1> QED
  BY <1>3, <1>4

LEMMA CachedIsFinite ==
  ASSUME NEW F, NEW held, NEW c, EntriesRight(c, held, F)
  PROVE  Cached(c) \subseteq DOMAIN c.entries /\ Cached(c) \subseteq Nat /\ IsFiniteSet(Cached(c))
<1>1. IsFiniteSet(DOMAIN c.entries) /\ c \in ShardType(F) /\ F \subseteq TableFiles
  BY DEF EntriesRight
<1>2. Cached(c) \in SUBSET DOMAIN c.entries
  BY DEF Cached
<1>3. DOMAIN c.entries \subseteq Nat
  BY <1>1, ShardTypes
<1> QED
  BY <1>1, <1>2, <1>3, FS_Subset

LEMMA KeysKeptOn ==
  ASSUME NEW a, NEW b, NEW c, KeysKept(a, b), KeysKept(b, c)
  PROVE  KeysKept(a, c)
BY DEF KeysKept

(* The cache gives up an entry: its reference is a client's until Unref.   *)
LEMMA FinishEraseFacts ==
  ASSUME NEW F, NEW held, NEW c, EntriesRight(c, held, F), NEW h \in Cached(c)
  PROVE  LET d == FinishErase(c, {h}) IN
         /\ EntriesRight(d, held, F) /\ KeysKept(c, d)
         /\ d.table = c.table /\ Cached(d) = Cached(c) \ {h}
<1> DEFINE a == [LRU_Remove(c, h) EXCEPT !.entries[h].in_cache = FALSE, !.usage = @ - 1]
           e == [c.entries[h] EXCEPT !.in_cache = FALSE]
           d == FinishErase(c, {h})
           k == Held(held, h, 1)
<1>1. /\ c \in ShardType(F) /\ F \subseteq TableFiles /\ held \in [Nat -> Nat]
      /\ h \in DOMAIN c.entries /\ c.entries[h].in_cache
      /\ c.entries[h].refs = held[h] + CacheRef(c.entries[h])
      /\ c.in_use = {g \in DOMAIN c.entries : InUse(c.entries[g])}
      /\ ToSet(c.lru) = {g \in DOMAIN c.entries : InLru(c.entries[g])}
      /\ IsInjective(c.lru) /\ c.usage = Cardinality(Cached(c))
  BY DEF EntriesRight, ListsRight, CacheRef, InUse, InLru, Cached
<1>2. /\ h \in Nat /\ c.lru \in Seq(Nat) /\ c.in_use \subseteq Nat /\ c.usage \in Int
      /\ c.entries[h] \in CacheEntries(F) /\ c.entries[h].refs \in Nat \ {0}
  BY <1>1, ShardTypes
<1>3. d = Unref(a, h)
  BY DEF FinishErase
<1>4. /\ e \in CacheEntries(F) /\ e.key = c.entries[h].key
      /\ ~ e.in_cache /\ e.refs = c.entries[h].refs
  BY <1>2 DEF CacheEntries
<1>5. /\ a.entries = [c.entries EXCEPT ![h] = e]
      /\ a.table = c.table /\ a.capacity = c.capacity /\ a.usage = c.usage - 1
      /\ a.lru = RemoveFirst(c.lru, h) /\ a.in_use = c.in_use \ {h}
      /\ IsShard(a)
  <2>1. a = [c EXCEPT !.lru = RemoveFirst(c.lru, h), !.in_use = c.in_use \ {h}, !.usage = c.usage - 1,
                      !.entries = [c.entries EXCEPT ![h] = e]]
    BY <1>1 DEF LRU_Remove, ShardType
  <2> HIDE DEF a, e
  <2> QED
    BY <1>1, <2>1 DEF ShardType, IsShard
<1> HIDE DEF a, e, d
<1>6. /\ RemoveFirst(c.lru, h) \in Seq(Nat) /\ IsInjective(RemoveFirst(c.lru, h))
      /\ ToSet(RemoveFirst(c.lru, h)) = ToSet(c.lru) \ {h}
  BY <1>1, <1>2, ListRemoved
<1>7. a.usage \in Int /\ a.lru \in Seq(Nat) /\ a.in_use \in SUBSET Nat /\ IsInjective(a.lru)
  <2>1. c.in_use \ {h} \subseteq Nat /\ c.usage - 1 \in Int
    BY <1>2
  <2> QED
    BY <1>5, <1>6, <2>1
<1>8. EntryIs(c, a, h, e)
  BY <1>4, <1>5, <1>7 DEF EntryIs
<1>9. /\ DOMAIN a.entries = DOMAIN c.entries /\ a.entries[h] = e
      /\ \A g \in DOMAIN c.entries : g # h => a.entries[g] = c.entries[g]
  BY <1>1, <1>4, <1>8, EntryFacts
<1>10. Cached(a) = Cached(c) \ {h}
  BY <1>4, <1>9 DEF Cached
<1>11. a.usage = Cardinality(Cached(a))
  BY <1>1, <1>5, <1>10, CachedIsFinite, FS_RemoveElement, ZenonT(40)
<1>12. ~ InLru(e) /\ ~ InUse(e) /\ CacheRef(e) = 0 /\ CacheRef(c.entries[h]) = 1
  BY <1>1, <1>4 DEF InLru, InUse, CacheRef
<1>13. ListsFollow(c, a, h, e)
  BY <1>5, <1>6, <1>11, <1>12 DEF ListsFollow
<1>14. e.refs = held[h] + 1 + CacheRef(e) /\ held[h] + 1 \in Nat
  <2>1. held[h] \in Nat
    BY <1>1, <1>2
  <2> QED
    BY <1>1, <1>4, <1>12, <2>1
<1>15. EntriesRight(a, k, F) /\ KeysKept(c, a)
  BY <1>1, <1>4, <1>8, <1>13, <1>14, EntryChanges
<1>16. k[h] >= 1 /\ Held(k, h, -1) = held
  <2>0. held[h] \in Nat /\ h \in DOMAIN held
    BY <1>1, <1>2
  <2>1. k = [held EXCEPT ![h] = held[h] + 1] /\ k[h] = held[h] + 1 /\ held[h] \in Nat
    BY <1>1, <2>0 DEF Held
  <2>2. Held(k, h, -1) = [held EXCEPT ![h] = held[h]]
    BY <1>1, <1>2, <2>1 DEF Held
  <2>3. [held EXCEPT ![h] = held[h]] = held
    BY <1>1
  <2> QED
    BY <2>1, <2>2, <2>3
<1> HIDE DEF k
<1>17. h \in DOMAIN a.entries
  BY <1>1, <1>9
<1>18. /\ EntriesRight(d, Held(k, h, -1), F) /\ KeysKept(a, d)
       /\ d.table = a.table /\ Cached(d) = Cached(a)
  BY <1>3, <1>15, <1>16, <1>17, UnrefFacts
<1> QED
  BY <1>5, <1>10, <1>15, <1>16, <1>18, KeysKeptOn DEF d

-----------------------------------------------------------------------------
(* The operations.                                                         *)

LEMMA TableKept ==
  ASSUME NEW c, NEW T, TableHas(c, T), NEW d, d.table = c.table,
         T \subseteq DOMAIN d.entries, \A h \in T : d.entries[h].key = c.entries[h].key
  PROVE  TableHas(d, T)
<1>1. \A b \in DOMAIN d.table.list :
        d.table.list[b] = {h \in T : Hash[d.entries[h].key] % d.table.length = b}
  <2> TAKE b \in DOMAIN d.table.list
  <2>1. d.table.list[b] = {h \in T : Hash[c.entries[h].key] % c.table.length = b}
    BY DEF TableHas
  <2>2. {h \in T : Hash[c.entries[h].key] % c.table.length = b}
          = {h \in T : Hash[d.entries[h].key] % d.table.length = b}
    OBVIOUS
  <2> QED
    BY <2>1, <2>2
<1>2. \A g, h \in T : d.entries[g].key = d.entries[h].key => g = h
  BY DEF TableHas
<1>3. DOMAIN d.table.list = 0 .. d.table.length - 1 /\ d.table.elems = Cardinality(T) /\ IsFiniteSet(T)
  BY DEF TableHas
<1> QED
  BY <1>1, <1>2, <1>3 DEF TableHas

LEMMA EntriesRightOn ==
  ASSUME NEW F, NEW held, NEW c, EntriesRight(c, held, F), NEW d \in ShardType(F), OnlyTableDiffers(c, d)
  PROVE  EntriesRight(d, held, F) /\ KeysKept(c, d) /\ Cached(d) = Cached(c)
<1>1. Cached(d) = Cached(c)
  BY DEF Cached, OnlyTableDiffers
<1>2. ListsRight(d)
  BY <1>1 DEF EntriesRight, ListsRight, OnlyTableDiffers
<1> QED
  BY <1>1, <1>2 DEF EntriesRight, OnlyTableDiffers, KeysKept

LEMMA EraseFacts ==
  ASSUME NEW F, NEW held, NEW c, ShardInv(c, held, F), NEW k \in TableFiles
  PROVE  LET d == Erase(c, k) IN
         /\ ShardInv(d, held, F) /\ KeysKept(c, d)
         /\ \A h \in Cached(d) : d.entries[h].key # k
<1> DEFINE found == TableLookup(c, k)
           a == TableRemove(c, k)
           d == Erase(c, k)
<1>1. /\ EntriesRight(c, held, F) /\ TableHas(c, Cached(c))
      /\ c \in ShardType(F) /\ F \subseteq TableFiles
  BY DEF ShardInv, EntriesRight
<1>2. found = {h \in Cached(c) : c.entries[h].key = k} /\ \A g, h \in found : g = h
  BY <1>1, TableFacts
<1>3. a \in ShardType(F) /\ OnlyTableDiffers(c, a) /\ TableHas(a, Cached(c) \ found)
  BY <1>1, TableRemoveFacts
<1>4. d = FinishErase(a, found)
  BY DEF Erase
<1> HIDE DEF a, found, d
<1>5. EntriesRight(a, held, F) /\ KeysKept(c, a) /\ Cached(a) = Cached(c)
  BY <1>1, <1>3, EntriesRightOn
<1>6. \A h \in Cached(a) : a.entries[h].key = c.entries[h].key
  BY <1>3 DEF OnlyTableDiffers
<1>7. CASE found = {}
  <2>1. d = a
    BY <1>4, <1>7 DEF FinishErase
  <2>2. Cached(c) \ found = Cached(a)
    BY <1>5, <1>7
  <2>3. \A h \in Cached(d) : d.entries[h].key # k
    BY <1>2, <1>5, <1>6, <1>7, <2>1
  <2> QED
    BY <1>3, <1>5, <2>1, <2>2, <2>3 DEF ShardInv, d
<1>8. CASE found # {}
  <2>1. PICK h \in Cached(a) : found = {h}
    BY <1>2, <1>5, <1>8
  <2>2. /\ EntriesRight(d, held, F) /\ KeysKept(a, d)
        /\ d.table = a.table /\ Cached(d) = Cached(a) \ {h}
    BY <1>4, <1>5, <2>1, FinishEraseFacts
  <2>3. TableHas(a, Cached(d))
    BY <1>3, <1>5, <2>1, <2>2
  <2>4. Cached(d) \subseteq DOMAIN d.entries /\ \A g \in Cached(d) : d.entries[g].key = a.entries[g].key
    BY <2>2 DEF KeysKept, Cached
  <2>5. TableHas(d, Cached(d))
    BY <2>2, <2>3, <2>4, TableKept
  <2>6. \A g \in Cached(d) : d.entries[g].key # k
    BY <1>2, <1>5, <1>6, <2>1, <2>2, <2>4
  <2>7. KeysKept(c, d)
    BY <1>5, <2>2, KeysKeptOn
  <2> QED
    BY <2>2, <2>5, <2>6, <2>7 DEF ShardInv, d
<1> QED
  BY <1>7, <1>8

(* The oldest entries are erased, or as many as are too many.              *)
LEMMA EraseOldestFacts ==
  ASSUME NEW F, NEW held, NEW c, ShardInv(c, held, F), NEW all \in BOOLEAN
  PROVE  LET d == EraseOldest(c, all) IN ShardInv(d, held, F) /\ KeysKept(c, d)
<1> DEFINE n == Len(c.lru)
           X == {d \in ShardType(F) : ShardInv(d, held, F) /\ KeysKept(c, d)}
           after(d) == IF d.lru # << >> /\ (all \/ d.usage > d.capacity)
                       THEN Erase(d, d.entries[Head(d.lru)].key) ELSE d
           step == [d \in X |-> after(d)]
           body(g) == [i \in 0 .. n |-> IF i = 0 THEN c ELSE after(g[i - 1])]
           done == CHOOSE g : g = body(g)
<1>1. EraseOldest(c, all) = done[n]
  BY Zenon DEF EraseOldest
<1>2. c \in ShardType(F) /\ F \subseteq TableFiles
  BY DEF ShardInv, EntriesRight
<1>3. n \in Nat /\ c \in X
  <2>1. n \in Nat
    BY <1>2, ShardTypes
  <2>2. KeysKept(c, c)
    BY DEF KeysKept
  <2> QED
    BY <1>2, <2>1, <2>2
<1>4. \A d \in X : after(d) \in X
  <2> TAKE d \in X
  <2>1. CASE d.lru # << >>
    <3>1. d.lru \in Seq(Nat) /\ \A h \in DOMAIN d.entries : d.entries[h].key \in TableFiles
      BY <1>2, ShardTypes
    <3>2. Head(d.lru) \in ToSet(d.lru)
      BY <2>1, <3>1 DEF ToSet
    <3>3. Head(d.lru) \in DOMAIN d.entries
      BY <3>2 DEF ShardInv, EntriesRight, ListsRight, Cached
    <3> DEFINE e == Erase(d, d.entries[Head(d.lru)].key)
    <3>4. ShardInv(e, held, F) /\ KeysKept(d, e)
      BY <3>1, <3>3, EraseFacts
    <3> HIDE DEF e
    <3>5. KeysKept(c, e) /\ e \in ShardType(F)
      BY <3>4, KeysKeptOn DEF ShardInv, EntriesRight
    <3> QED
      BY <3>4, <3>5 DEF e
  <2>2. CASE d.lru = << >>
    BY <2>2
  <2> QED
    BY <2>1, <2>2
<1> HIDE DEF n, after, X
<1>5. step \in [X -> X]
  BY <1>4
<1> HIDE DEF step
<1>6. PICK g \in [0 .. n -> X] : g[0] = c /\ \A i \in 1 .. n : g[i] = step[g[i - 1]]
  <2>1. Iterations(n, X, c, step) # {}
    BY <1>3, <1>5, RecursionTo
  <2> QED
    BY <2>1 DEF Iterations
<1>7. g = body(g)
  <2>1. \A i \in 1 .. n : i - 1 \in 0 .. n
    BY <1>3
  <2>2. \A i \in 1 .. n : g[i] = after(g[i - 1])
    BY <1>6, <2>1 DEF step
  <2> QED
    BY <1>3, <1>6, <2>2
<1>8. done = body(done)
  BY <1>7
<1> HIDE DEF done
<1>9. done[0] = c /\ \A i \in 1 .. n : done[i] = after(done[i - 1])
  BY <1>3, <1>8
<1>10. \A i \in 0 .. n : done[i] \in X
  BY <1>3, <1>4, <1>9, InductionTo
<1>11. done[n] \in X
  BY <1>3, <1>10
<1> QED
  BY <1>1, <1>11 DEF X

(* The handle of a new entry.                                              *)
LEMMA NewHandleFacts ==
  ASSUME NEW c, IsFiniteSet(DOMAIN c.entries)
  PROVE  NewHandle(c) \in Nat /\ NewHandle(c) \notin DOMAIN c.entries
<1> DEFINE D == DOMAIN c.entries
           N == Cardinality(D)
<1>1. N \in Nat
  BY FS_CardinalityType
<1>2. \E h \in 1 .. N + 1 : h \notin D
  <2> SUFFICES ASSUME 1 .. N + 1 \subseteq D
               PROVE  FALSE
    OBVIOUS
  <2>1. IsFiniteSet(1 .. N + 1) /\ Cardinality(1 .. N + 1) = N + 1
    BY <1>1, FS_Interval
  <2>2. Cardinality(1 .. N + 1) <= N
    BY FS_Subset
  <2> QED
    BY <1>1, <2>1, <2>2
<1>3. NewHandle(c) = CHOOSE h \in 1 .. N + 1 : h \notin D
  BY DEF NewHandle
<1> HIDE DEF D, N
<1>4. NewHandle(c) \in 1 .. N + 1 /\ NewHandle(c) \notin D
  BY <1>2, <1>3
<1> QED
  BY <1>1, <1>4 DEF D

(* An entry more.                                                          *)
EntryAdded(c, d, h, e) ==
  /\ d.entries = [g \in DOMAIN c.entries \cup {h} |-> IF g = h THEN e ELSE c.entries[g]]
  /\ d.table = c.table /\ d.capacity = c.capacity /\ d.lru = c.lru
  /\ d.in_use = IF InUse(e) THEN c.in_use \cup {h} ELSE c.in_use
  /\ d.usage = c.usage + CacheRef(e)
  /\ IsShard(d)

LEMMA EntryAddedFacts ==
  ASSUME NEW F, NEW held, NEW c, EntriesRight(c, held, F), NEW h \in Nat \ DOMAIN c.entries,
         NEW e \in CacheEntries(F), e.refs = 1 + CacheRef(e), NEW d, EntryAdded(c, d, h, e)
  PROVE  /\ EntriesRight(d, Held(held, h, 1), F)
         /\ DOMAIN d.entries = DOMAIN c.entries \cup {h} /\ d.entries[h] = e
         /\ \A g \in DOMAIN c.entries : d.entries[g] = c.entries[g]
         /\ Cached(d) = IF e.in_cache THEN Cached(c) \cup {h} ELSE Cached(c)
<1>1. /\ c \in ShardType(F) /\ F \subseteq TableFiles /\ held \in [Nat -> Nat]
      /\ IsFiniteSet(DOMAIN c.entries)
      /\ \A g \in DOMAIN c.entries : c.entries[g].refs = held[g] + CacheRef(c.entries[g])
      /\ \A g \in Nat \ DOMAIN c.entries : held[g] = 0
      /\ c.in_use = {g \in DOMAIN c.entries : InUse(c.entries[g])}
      /\ ToSet(c.lru) = {g \in DOMAIN c.entries : InLru(c.entries[g])}
      /\ IsInjective(c.lru) /\ c.usage = Cardinality(Cached(c))
  BY DEF EntriesRight, ListsRight, CacheRef, InUse, InLru, Cached
<1>2. /\ DOMAIN c.entries \subseteq Nat /\ c.entries \in [DOMAIN c.entries -> CacheEntries(F)]
      /\ c.capacity \in Nat /\ c.usage \in Int /\ c.lru \in Seq(Nat) /\ c.in_use \subseteq Nat
      /\ c.table \in [length : Nat \ {0}, elems : Int, list : HandleMaps(SUBSET Nat)]
  BY <1>1, ShardTypes
<1> DEFINE D == DOMAIN c.entries \cup {h}
<1>3. d.entries = [g \in D |-> IF g = h THEN e ELSE c.entries[g]]
  BY DEF EntryAdded
<1>4. /\ DOMAIN d.entries = D /\ d.entries[h] = e
      /\ \A g \in DOMAIN c.entries : d.entries[g] = c.entries[g]
      /\ d.entries \in [D -> CacheEntries(F)]
  BY <1>2, <1>3
<1>5. D \in SUBSET Nat
  BY <1>2
<1>6. d.entries \in HandleMaps(CacheEntries(F))
  <2> HIDE DEF D
  <2> QED
    BY <1>4, <1>5 DEF HandleMaps
<1>7. CacheRef(e) \in Int /\ d.usage \in Int /\ d.in_use \subseteq Nat
  <2>1. CacheRef(e) \in Int
    BY DEF CacheRef
  <2>2. c.in_use \cup {h} \subseteq Nat
    BY <1>2
  <2> QED
    BY <1>2, <2>1, <2>2 DEF EntryAdded
<1>8. d \in ShardType(F)
  BY <1>2, <1>6, <1>7 DEF ShardType, IsShard, EntryAdded
<1> DEFINE k == Held(held, h, 1)
<1>9. k \in [Nat -> Nat] /\ k[h] = 1 /\ \A g \in Nat : g # h => k[g] = held[g]
  <2>1. held[h] = 0
    BY <1>1
  <2> QED
    BY <1>1, <2>1 DEF Held
<1> HIDE DEF k
<1>10. Cached(d) = IF e.in_cache THEN Cached(c) \cup {h} ELSE Cached(c)
  BY <1>4 DEF Cached
<1>11. d.usage = Cardinality(Cached(d))
  <2>1. IsFiniteSet(Cached(c)) /\ h \notin Cached(c)
    BY CachedIsFinite
  <2>2. Cardinality(Cached(c) \cup {h}) = Cardinality(Cached(c)) + 1
    BY <2>1, FS_AddElement
  <2> QED
    BY <1>1, <1>2, <1>10, <2>2 DEF EntryAdded, CacheRef
<1>12. ~ InLru(e)
  BY DEF InLru, CacheRef
<1>13. d.in_use = {g \in DOMAIN d.entries : InUse(d.entries[g])}
  BY <1>1, <1>4 DEF EntryAdded
<1>14. ToSet(d.lru) = {g \in DOMAIN d.entries : InLru(d.entries[g])}
  BY <1>1, <1>4, <1>12 DEF EntryAdded
<1>15. ListsRight(d)
  BY <1>1, <1>11, <1>13, <1>14 DEF ListsRight, InUse, InLru, Cached, EntryAdded
<1>16. \A g \in DOMAIN d.entries : d.entries[g].refs = k[g] + CacheRef(d.entries[g])
  BY <1>1, <1>2, <1>4, <1>9
<1>17. \A g \in Nat \ DOMAIN d.entries : k[g] = 0
  BY <1>1, <1>4, <1>9
<1>18. IsFiniteSet(DOMAIN d.entries)
  BY <1>1, <1>4, FS_AddElement
<1>19. EntriesRight(d, k, F)
  BY <1>1, <1>8, <1>9, <1>15, <1>16, <1>17, <1>18 DEF EntriesRight, CacheRef
<1> QED
  BY <1>4, <1>10, <1>19 DEF k

LEMMA CacheInsertFacts ==
  ASSUME NEW F, NEW held, NEW c, ShardInv(c, held, F), NEW k \in F
  PROVE  LET d == CacheInsert(c, k)
             h == NewHandle(c)
         IN  /\ ShardInv(d, Held(held, h, 1), F)
             /\ h \in Nat \ DOMAIN c.entries
             /\ \A g \in DOMAIN d.entries :
                  IF g = h THEN d.entries[g].key = k
                  ELSE g \in DOMAIN c.entries /\ d.entries[g].key = c.entries[g].key
<1> DEFINE h == NewHandle(c)
           caching == c.capacity > 0
           e == IF caching THEN [key |-> k, in_cache |-> TRUE, refs |-> 2]
                ELSE [key |-> k, in_cache |-> FALSE, refs |-> 1]
           d == [c EXCEPT !.entries = [g \in DOMAIN c.entries \cup {h} |-> IF g = h THEN e ELSE c.entries[g]]]
           f == [d EXCEPT !.in_use = @ \cup {h}, !.usage = @ + 1]
           old == TableLookup(f, k)
           t == TableInsert(f, h)
           inserted == IF caching THEN FinishErase(t, old) ELSE d
           now == Held(held, h, 1)
           last == EraseOldest(inserted, FALSE)
           Entered(x) == /\ EntriesRight(x, now, F)
                         /\ DOMAIN x.entries = DOMAIN c.entries \cup {h} /\ x.entries[h].key = k
                         /\ \A g \in DOMAIN c.entries : x.entries[g] = c.entries[g]
                         /\ x.table = c.table
<1>1. CacheInsert(c, k) = last
  BY DEF CacheInsert
<1>2. /\ EntriesRight(c, held, F) /\ TableHas(c, Cached(c))
      /\ c \in ShardType(F) /\ F \subseteq TableFiles /\ IsFiniteSet(DOMAIN c.entries)
  BY DEF ShardInv, EntriesRight
<1>3. /\ c.capacity \in Nat /\ c.usage \in Int /\ c.in_use \subseteq Nat /\ DOMAIN c.entries \subseteq Nat
  BY <1>2, ShardTypes
<1>4. h \in Nat \ DOMAIN c.entries
  BY <1>2, NewHandleFacts
<1>5. /\ e \in CacheEntries(F) /\ e.refs = 1 + CacheRef(e) /\ e.key = k
      /\ (e.in_cache <=> caching) /\ (InUse(e) <=> caching) /\ CacheRef(e) = IF caching THEN 1 ELSE 0
  <2>1. CASE caching
    BY <2>1 DEF CacheEntries, CacheRef, InUse
  <2>2. CASE ~ caching
    BY <2>2 DEF CacheEntries, CacheRef, InUse
  <2> QED
    BY <2>1, <2>2
<1> HIDE DEF e, h
<1>6. caching => EntryAdded(c, f, h, e)
  <2> HIDE DEF caching
  <2> DEFINE entries == [g \in DOMAIN c.entries \cup {h} |-> IF g = h THEN e ELSE c.entries[g]]
  <2>1. f = [c EXCEPT !.entries = entries, !.in_use = c.in_use \cup {h}, !.usage = c.usage + 1]
    BY <1>2 DEF ShardType
  <2> HIDE DEF f, entries
  <2>2. /\ f.entries = entries /\ f.table = c.table /\ f.capacity = c.capacity /\ f.lru = c.lru
        /\ f.in_use = c.in_use \cup {h} /\ f.usage = c.usage + 1 /\ IsShard(f)
    BY <1>2, <2>1 DEF ShardType, IsShard
  <2> QED
    BY <1>5, <2>2 DEF EntryAdded, entries
<1>7. ~ caching => EntryAdded(c, d, h, e)
  <2> HIDE DEF caching
  <2> DEFINE entries == [g \in DOMAIN c.entries \cup {h} |-> IF g = h THEN e ELSE c.entries[g]]
  <2>1. d = [c EXCEPT !.entries = entries]
    OBVIOUS
  <2> HIDE DEF d, entries
  <2>2. /\ d.entries = entries /\ d.table = c.table /\ d.capacity = c.capacity /\ d.lru = c.lru
        /\ d.in_use = c.in_use /\ d.usage = c.usage /\ IsShard(d)
    BY <1>2, <2>1 DEF ShardType, IsShard
  <2>3. c.usage + 0 = c.usage
    BY <1>3
  <2> QED
    BY <1>5, <2>2, <2>3 DEF EntryAdded, entries
<1> HIDE DEF d, f, now, caching
<1>8. CASE ~ caching
  <2>1. Entered(d) /\ Cached(d) = Cached(c)
    <3>1. EntryAdded(c, d, h, e)
      BY <1>7, <1>8
    <3>2. /\ EntriesRight(d, Held(held, h, 1), F)
          /\ DOMAIN d.entries = DOMAIN c.entries \cup {h} /\ d.entries[h] = e
          /\ \A g \in DOMAIN c.entries : d.entries[g] = c.entries[g]
          /\ Cached(d) = IF e.in_cache THEN Cached(c) \cup {h} ELSE Cached(c)
      BY <1>2, <1>4, <1>5, <3>1, EntryAddedFacts
    <3> QED
      BY <1>5, <1>8, <3>1, <3>2 DEF now, EntryAdded
  <2>2. TableHas(d, Cached(c))
    <3>1. Cached(c) \subseteq DOMAIN d.entries /\ \A g \in Cached(c) : d.entries[g].key = c.entries[g].key
      BY <2>1 DEF Cached
    <3> QED
      BY <1>2, <2>1, <3>1, TableKept
  <2>3. ShardInv(inserted, now, F) /\ inserted = d
    BY <1>8, <2>1, <2>2 DEF ShardInv
  <2> HIDE DEF inserted
  <2>4. ShardInv(last, now, F) /\ KeysKept(d, last)
    BY <2>3, EraseOldestFacts
  <2> HIDE DEF last
  <2>5. \A g \in DOMAIN last.entries :
          IF g = h THEN last.entries[g].key = k
          ELSE g \in DOMAIN c.entries /\ last.entries[g].key = c.entries[g].key
    BY <2>1, <2>4 DEF KeysKept
  <2> QED
    BY <1>1, <1>4, <2>4, <2>5 DEF now, h
<1>9. CASE caching
  <2>1. Entered(f) /\ Cached(f) = Cached(c) \cup {h} /\ h \notin Cached(c)
    BY <1>2, <1>4, <1>5, <1>6, <1>9, EntryAddedFacts, SMTT(30) DEF now, EntryAdded, Cached
  <2>2. TableHas(f, Cached(c)) /\ f \in ShardType(F)
    <3>1. Cached(c) \subseteq DOMAIN f.entries /\ \A g \in Cached(c) : f.entries[g].key = c.entries[g].key
      BY <2>1 DEF Cached
    <3> QED
      BY <1>2, <2>1, <3>1, TableKept DEF EntriesRight
  <2>3. old = {g \in Cached(c) : f.entries[g].key = k} /\ \A g, i \in old : g = i
    BY <1>2, <2>2, TableFacts
  <2>4. t \in ShardType(F) /\ OnlyTableDiffers(f, t) /\ TableHas(t, (Cached(c) \ old) \cup {h})
    BY <1>2, <2>1, <2>2, TableInsertFacts
  <2> HIDE DEF t, old
  <2>5. EntriesRight(t, now, F) /\ KeysKept(f, t) /\ Cached(t) = Cached(c) \cup {h}
    BY <2>1, <2>4, EntriesRightOn
  <2>6. ShardInv(inserted, now, F) /\ KeysKept(f, inserted)
    <3>1. CASE old = {}
      <4>1. inserted = t
        BY <1>9, <3>1 DEF FinishErase
      <4> HIDE DEF inserted
      <4>2. TableHas(t, Cached(t))
        BY <2>4, <2>5, <3>1
      <4> QED
        BY <2>5, <4>1, <4>2 DEF ShardInv
    <3>2. CASE old # {}
      <4>1. PICK o \in Cached(c) : old = {o}
        BY <2>3, <3>2
      <4>2. inserted = FinishErase(t, {o}) /\ o \in Cached(t) /\ o # h
        BY <1>9, <2>1, <2>5, <4>1
      <4> HIDE DEF inserted
      <4>3. /\ EntriesRight(inserted, now, F) /\ KeysKept(t, inserted)
            /\ inserted.table = t.table /\ Cached(inserted) = Cached(t) \ {o}
        BY <2>5, <4>2, FinishEraseFacts
      <4>4. Cached(inserted) = (Cached(c) \ old) \cup {h}
        BY <2>5, <4>1, <4>2, <4>3
      <4>5. /\ Cached(inserted) \subseteq DOMAIN inserted.entries
            /\ \A g \in Cached(inserted) : inserted.entries[g].key = t.entries[g].key
        BY <4>3 DEF KeysKept, Cached
      <4>6. TableHas(inserted, Cached(inserted))
        <5>1. TableHas(t, Cached(inserted))
          BY <2>4, <4>4
        <5> QED
          BY <4>3, <4>5, <5>1, TableKept
      <4> QED
        BY <2>5, <4>3, <4>6, KeysKeptOn DEF ShardInv
    <3> QED
      BY <3>1, <3>2
  <2> HIDE DEF inserted
  <2>7. ShardInv(last, now, F) /\ KeysKept(inserted, last)
    BY <2>6, EraseOldestFacts
  <2> HIDE DEF last
  <2>8. KeysKept(f, last)
    BY <2>6, <2>7, KeysKeptOn
  <2>9. \A g \in DOMAIN last.entries :
          IF g = h THEN last.entries[g].key = k
          ELSE g \in DOMAIN c.entries /\ last.entries[g].key = c.entries[g].key
    BY <2>1, <2>8 DEF KeysKept
  <2> QED
    BY <1>1, <1>4, <2>7, <2>9 DEF now, h
<1> QED
  BY <1>8, <1>9

LEMMA CacheLookupFacts ==
  ASSUME NEW F, NEW held, NEW c, ShardInv(c, held, F), NEW k \in TableFiles, TableLookup(c, k) # {}
  PROVE  LET d == CacheLookup(c, k)
             h == CHOOSE h \in TableLookup(c, k) : TRUE
         IN  /\ ShardInv(d, Held(held, h, 1), F) /\ KeysKept(c, d)
             /\ h \in DOMAIN c.entries /\ h \in Nat /\ c.entries[h].key = k
<1> DEFINE found == TableLookup(c, k)
           h == CHOOSE h \in found : TRUE
           d == Ref(c, h)
<1>1. /\ EntriesRight(c, held, F) /\ TableHas(c, Cached(c))
      /\ c \in ShardType(F) /\ F \subseteq TableFiles
  BY DEF ShardInv, EntriesRight
<1>2. found = {g \in Cached(c) : c.entries[g].key = k}
  BY <1>1, TableFacts
<1>3. h \in found
  OBVIOUS
<1>4. CacheLookup(c, k) = d
  BY DEF CacheLookup
<1> HIDE DEF h, found, d
<1>5. h \in DOMAIN c.entries /\ h \in Nat /\ c.entries[h].key = k
  BY <1>1, <1>2, <1>3, ShardTypes DEF Cached
<1>6. /\ EntriesRight(d, Held(held, h, 1), F) /\ KeysKept(c, d)
      /\ d.table = c.table /\ DOMAIN d.entries = DOMAIN c.entries /\ Cached(d) = Cached(c)
  BY <1>1, <1>5, RefFacts DEF d
<1>7. Cached(c) \subseteq DOMAIN d.entries /\ \A g \in Cached(c) : d.entries[g].key = c.entries[g].key
  BY <1>6 DEF KeysKept, Cached
<1>8. TableHas(d, Cached(d))
  BY <1>1, <1>6, <1>7, TableKept
<1> QED
  BY <1>4, <1>5, <1>6, <1>8 DEF ShardInv, h, found

LEMMA UnrefKeeps ==
  ASSUME NEW F, NEW held, NEW c, ShardInv(c, held, F), NEW h \in DOMAIN c.entries, held[h] >= 1
  PROVE  LET d == Unref(c, h) IN ShardInv(d, Held(held, h, -1), F) /\ KeysKept(c, d)
<1> DEFINE d == Unref(c, h)
<1>1. EntriesRight(c, held, F) /\ TableHas(c, Cached(c))
  BY DEF ShardInv
<1>2. /\ EntriesRight(d, Held(held, h, -1), F) /\ KeysKept(c, d)
      /\ d.table = c.table /\ Cached(d) = Cached(c)
  BY <1>1, UnrefFacts
<1> HIDE DEF d
<1>3. Cached(c) \subseteq DOMAIN d.entries /\ \A g \in Cached(c) : d.entries[g].key = c.entries[g].key
  BY <1>2 DEF KeysKept, Cached
<1>4. TableHas(d, Cached(d))
  BY <1>1, <1>2, <1>3, TableKept
<1> QED
  BY <1>2, <1>4 DEF ShardInv, d

(* Fewer files, when no entry is of one that is gone.                      *)
LEMMA FewerFiles ==
  ASSUME NEW F, NEW held, NEW c, ShardInv(c, held, F), NEW G \in SUBSET F,
         \A h \in DOMAIN c.entries : c.entries[h].key \in G
  PROVE  ShardInv(c, held, G)
<1>1. EntriesRight(c, held, F) /\ c \in ShardType(F) /\ F \subseteq TableFiles
  BY DEF ShardInv, EntriesRight
<1>2. /\ c.capacity \in Nat /\ c.usage \in Int /\ c.lru \in Seq(Nat) /\ c.in_use \subseteq Nat
      /\ DOMAIN c.entries \subseteq Nat /\ c.entries \in [DOMAIN c.entries -> CacheEntries(F)]
      /\ c.table \in [length : Nat \ {0}, elems : Int, list : HandleMaps(SUBSET Nat)]
      /\ IsShard(c)
  BY <1>1, ShardTypes
<1>3. \A h \in DOMAIN c.entries : c.entries[h] \in CacheEntries(G)
  BY <1>2 DEF CacheEntries
<1>4. c.entries \in [DOMAIN c.entries -> CacheEntries(G)]
  BY <1>2, <1>3
<1>5. c.entries \in HandleMaps(CacheEntries(G))
  BY <1>2, <1>4 DEF HandleMaps
<1>6. c \in ShardType(G)
  BY <1>2, <1>5 DEF ShardType, IsShard
<1> QED
  BY <1>1, <1>6 DEF ShardInv, EntriesRight

LEMMA DestroyFacts ==
  ASSUME NEW F, NEW held, NEW c, ShardInv(c, held, F), \A h \in Nat : held[h] = 0
  PROVE  DOMAIN Destroy(c).entries = {}
<1>1. /\ c \in ShardType(F) /\ F \subseteq TableFiles
      /\ \A g \in DOMAIN c.entries : c.entries[g].refs = held[g] + CacheRef(c.entries[g])
      /\ ToSet(c.lru) = {g \in DOMAIN c.entries : InLru(c.entries[g])}
  BY DEF ShardInv, EntriesRight, ListsRight, CacheRef, InLru, Cached
<1>2. /\ DOMAIN c.entries \subseteq Nat
      /\ \A g \in DOMAIN c.entries : c.entries[g].refs \in Nat \ {0}
  BY <1>1, ShardTypes
<1>3. \A g \in DOMAIN c.entries : c.entries[g].refs = 1 /\ InLru(c.entries[g])
  BY <1>1, <1>2 DEF CacheRef, InLru
<1> DEFINE freed == {h \in ToSet(c.lru) : c.entries[h].refs = 1}
           entries == [h \in DOMAIN c.entries \ freed |->
                         IF h \in ToSet(c.lru)
                         THEN [key |-> c.entries[h].key, in_cache |-> FALSE, refs |-> c.entries[h].refs - 1]
                         ELSE c.entries[h]]
<1>4. freed = DOMAIN c.entries
  BY <1>1, <1>3
<1>5. DOMAIN entries = {}
  BY <1>4
<1>6. Destroy(c) = [c EXCEPT !.entries = entries]
  BY DEF Destroy
<1> HIDE DEF entries
<1>7. Destroy(c).entries = entries
  BY <1>1, <1>6 DEF ShardType
<1> QED
  BY <1>5, <1>7

-----------------------------------------------------------------------------
(* The readers.                                                            *)

ReaderState == [doing : {"nothing", "opening", "reading"}, file : TableFiles \cup {0}, handle : Nat]
ReaderType == [TableReaders -> ReaderState]

(* The readers that hold a handle of a shard; how many hold each.          *)
HoldersIn(readers, s, h) ==
  {r \in TableReaders : readers[r].doing = "reading" /\ readers[r].handle = h /\ Shard(readers[r].file) = s}
HeldBy(readers, s) == [h \in Nat |-> Cardinality(HoldersIn(readers, s, h))]

LEMMA HeldByFacts ==
  ASSUME NEW readers, NEW s
  PROVE  /\ HeldBy(readers, s) \in [Nat -> Nat]
         /\ \A h \in Nat : IsFiniteSet(HoldersIn(readers, s, h))
         /\ \A h \in Nat : HeldBy(readers, s)[h] = Cardinality(HoldersIn(readers, s, h))
         /\ \A h \in Nat : HoldersIn(readers, s, h) # {} => HeldBy(readers, s)[h] >= 1
<1>1. \A h : HoldersIn(readers, s, h) \subseteq TableReaders
  BY DEF HoldersIn
<1>2. \A h : IsFiniteSet(HoldersIn(readers, s, h))
  BY <1>1, FS_Subset, TableCacheAssumption
<1>3. \A h : Cardinality(HoldersIn(readers, s, h)) \in Nat
  BY <1>2, FS_CardinalityType
<1>4. \A h : HoldersIn(readers, s, h) # {} => Cardinality(HoldersIn(readers, s, h)) # 0
  BY <1>2, FS_EmptySet
<1> QED
  BY <1>2, <1>3, <1>4 DEF HeldBy

(* A reader that holds nothing does something else that holds nothing, or  *)
(* comes to hold a handle.                                                 *)
LEMMA ReaderMoves ==
  ASSUME NEW readers \in ReaderType, NEW r \in TableReaders, readers[r].doing # "reading",
         NEW t, NEW s
  PROVE  LET new == [readers EXCEPT ![r] = t] IN
         IF t.doing = "reading" /\ Shard(t.file) = s /\ t.handle \in Nat
         THEN HeldBy(new, s) = Held(HeldBy(readers, s), t.handle, 1)
         ELSE (t.doing = "reading" /\ Shard(t.file) = s) \/ HeldBy(new, s) = HeldBy(readers, s)
<1> DEFINE new == [readers EXCEPT ![r] = t]
           takes == t.doing = "reading" /\ Shard(t.file) = s
<1>1. new[r] = t /\ \A q \in TableReaders : q # r => new[q] = readers[q]
  BY DEF ReaderType, ReaderState
<1> HIDE DEF new
<1>2. ASSUME NEW h \in Nat
      PROVE  HoldersIn(new, s, h) = IF takes /\ t.handle = h THEN HoldersIn(readers, s, h) \cup {r}
                                    ELSE HoldersIn(readers, s, h)
  BY <1>1 DEF HoldersIn
<1>3. \A h \in Nat : r \notin HoldersIn(readers, s, h)
  BY DEF HoldersIn
<1>4. CASE takes /\ t.handle \in Nat
  <2> DEFINE held == HeldBy(readers, s)
             now == HeldBy(new, s)
  <2>1. held \in [Nat -> Nat] /\ now \in [Nat -> Nat]
    BY HeldByFacts
  <2>2. now[t.handle] = held[t.handle] + 1
    <3>1. HoldersIn(new, s, t.handle) = HoldersIn(readers, s, t.handle) \cup {r}
      BY <1>2, <1>4
    <3>2. Cardinality(HoldersIn(readers, s, t.handle) \cup {r}) = Cardinality(HoldersIn(readers, s, t.handle)) + 1
      BY <1>3, <1>4, HeldByFacts, FS_AddElement
    <3>3. \A h \in Nat : /\ held[h] = Cardinality(HoldersIn(readers, s, h))
                          /\ now[h] = Cardinality(HoldersIn(new, s, h))
      BY HeldByFacts
    <3> HIDE DEF held, now
    <3> QED
      BY <1>4, <3>1, <3>2, <3>3
  <2>3. \A h \in Nat : h # t.handle => now[h] = held[h]
    BY <1>2, HeldByFacts
  <2> HIDE DEF held, now
  <2>4. now = [held EXCEPT ![t.handle] = held[t.handle] + 1]
    BY <1>4, <2>1, <2>2, <2>3
  <2> QED
    BY <1>4, <2>4 DEF held, now, Held, new
<1>5. CASE ~ takes
  <2>1. \A h \in Nat : HoldersIn(new, s, h) = HoldersIn(readers, s, h)
    BY <1>2, <1>5
  <2>2. HeldBy(new, s) = HeldBy(readers, s)
    BY <2>1 DEF HeldBy
  <2> QED
    BY <1>5, <2>2 DEF new
<1> QED
  BY <1>4, <1>5 DEF new

(* A reader gives back the handle it holds.                                *)
LEMMA ReaderReleases ==
  ASSUME NEW readers \in ReaderType, NEW r \in TableReaders, readers[r].doing = "reading", NEW s
  PROVE  LET new == [readers EXCEPT ![r] = IdleReader]
             t == readers[r]
         IN  IF Shard(t.file) = s THEN HeldBy(new, s) = Held(HeldBy(readers, s), t.handle, -1)
             ELSE HeldBy(new, s) = HeldBy(readers, s)
<1> DEFINE new == [readers EXCEPT ![r] = IdleReader]
           t == readers[r]
<1>1. /\ new \in ReaderType /\ new[r].doing # "reading" /\ readers = [new EXCEPT ![r] = t]
      /\ t.handle \in Nat
  <2>1. IdleReader \in ReaderState
    BY DEF IdleReader, ReaderState
  <2>2. new \in ReaderType /\ new[r] = IdleReader
    BY <2>1 DEF ReaderType
  <2>3. readers = [new EXCEPT ![r] = t] /\ t.handle \in Nat
    BY DEF ReaderType, ReaderState
  <2> QED
    BY <2>2, <2>3 DEF IdleReader
<1> HIDE DEF new, t
<1>2. t.doing = "reading"
  BY DEF t
<1>3. CASE Shard(t.file) = s
  <2> DEFINE held == HeldBy(readers, s)
             now == HeldBy(new, s)
  <2>1. held = Held(now, t.handle, 1)
    BY <1>1, <1>2, <1>3, ReaderMoves
  <2>2. held \in [Nat -> Nat] /\ now \in [Nat -> Nat]
    BY HeldByFacts
  <2> HIDE DEF held, now
  <2>3. held = [now EXCEPT ![t.handle] = now[t.handle] + 1]
    BY <2>1 DEF Held
  <2>4. now[t.handle] = held[t.handle] + -1 /\ \A h \in Nat : h # t.handle => now[h] = held[h]
    BY <1>1, <2>2, <2>3
  <2>5. now = [held EXCEPT ![t.handle] = held[t.handle] + -1]
    BY <1>1, <2>2, <2>4
  <2> QED
    BY <1>3, <2>5 DEF held, now, Held, new, t
<1>4. CASE Shard(t.file) # s
  <2>1. HeldBy(readers, s) = HeldBy(new, s)
    BY <1>1, <1>2, <1>4, ReaderMoves, ZenonT(40)
  <2> QED
    BY <1>4, <2>1 DEF new, t
<1> QED
  BY <1>3, <1>4

(* A reader does something else.                                           *)
ReaderGoes(readers, r, t, new) == new = [readers EXCEPT ![r] = t]

LEMMA ReaderTakes ==
  ASSUME NEW readers \in ReaderType, NEW r \in TableReaders, readers[r].doing # "reading",
         NEW t, t.doing = "reading", t.handle \in Nat, NEW new, ReaderGoes(readers, r, t, new),
         NEW x, x = Shard(t.file)
  PROVE  /\ HeldBy(new, x) = Held(HeldBy(readers, x), t.handle, 1)
         /\ \A s : s # x => HeldBy(new, s) = HeldBy(readers, s)
<1> DEFINE gone == [readers EXCEPT ![r] = t]
<1>1. new = gone
  BY DEF ReaderGoes
<1>2. HeldBy(gone, x) = Held(HeldBy(readers, x), t.handle, 1)
  BY ReaderMoves
<1>3. ASSUME NEW s, s # x
      PROVE  HeldBy(gone, s) = HeldBy(readers, s)
  BY <1>3, ReaderMoves
<1> HIDE DEF gone
<1> QED
  BY <1>1, <1>2, <1>3

LEMMA ReaderHoldsNone ==
  ASSUME NEW readers \in ReaderType, NEW r \in TableReaders, readers[r].doing # "reading",
         NEW t, t.doing # "reading", NEW new, ReaderGoes(readers, r, t, new)
  PROVE  \A s : HeldBy(new, s) = HeldBy(readers, s)
<1> DEFINE gone == [readers EXCEPT ![r] = t]
<1>1. new = gone
  BY DEF ReaderGoes
<1>2. ASSUME NEW s
      PROVE  HeldBy(gone, s) = HeldBy(readers, s)
  BY ReaderMoves
<1> HIDE DEF gone
<1> QED
  BY <1>1, <1>2

LEMMA ReaderReturns ==
  ASSUME NEW readers \in ReaderType, NEW r \in TableReaders, readers[r].doing = "reading",
         NEW new, ReaderGoes(readers, r, IdleReader, new),
         NEW x, x = Shard(readers[r].file)
  PROVE  /\ HeldBy(new, x) = Held(HeldBy(readers, x), readers[r].handle, -1)
         /\ \A s : s # x => HeldBy(new, s) = HeldBy(readers, s)
<1> DEFINE gone == [readers EXCEPT ![r] = IdleReader]
<1>1. new = gone
  BY DEF ReaderGoes
<1>2. HeldBy(gone, x) = Held(HeldBy(readers, x), readers[r].handle, -1)
  BY ReaderReleases
<1>3. ASSUME NEW s, s # x
      PROVE  HeldBy(gone, s) = HeldBy(readers, s)
  BY <1>3, ReaderReleases
<1> HIDE DEF gone
<1> QED
  BY <1>1, <1>2, <1>3

-----------------------------------------------------------------------------
(* The invariant.                                                          *)

FilesIn(files, s) == {f \in files : Shard(f) = s}

(* A reader's file is there, and its handle is an entry of the file.       *)
ReadersRight(shards, files, readers) ==
  \A r \in TableReaders :
    LET t == readers[r] IN
    /\ t.doing # "nothing" => t.file \in files
    /\ t.doing = "reading" => /\ t.handle \in DOMAIN shards[Shard(t.file)].entries
                              /\ shards[Shard(t.file)].entries[t.handle].key = t.file

(* An open cache.                                                          *)
OpenInv(shards, files, readers) ==
  /\ files \subseteq TableFiles /\ readers \in ReaderType /\ DOMAIN shards = ShardNumbers
  /\ ReadersRight(shards, files, readers)
  /\ \A s \in ShardNumbers : ShardInv(shards[s], HeldBy(readers, s), FilesIn(files, s))

(* A cache that is closed.                                                 *)
ClosedInv(shards, readers) ==
  /\ readers \in ReaderType /\ \A r \in TableReaders : readers[r].doing = "nothing"
  /\ \A s \in ShardNumbers : DOMAIN shards[s].entries = {}

TableCacheInv ==
  /\ cache_open \in BOOLEAN
  /\ cache_open => OpenInv(shard_, file_exists, table_reader)
  /\ ~ cache_open => ClosedInv(shard_, table_reader)

LEMMA FilesInFacts ==
  ASSUME NEW files \in SUBSET TableFiles, NEW s
  PROVE  FilesIn(files, s) \subseteq TableFiles /\ FilesIn(files, s) \subseteq files
BY DEF FilesIn

LEMMA ShardOfFile ==
  ASSUME NEW f \in TableFiles
  PROVE  Shard(f) \in ShardNumbers
BY TableCacheAssumption

(* A handle someone holds is an entry.                                     *)
LEMMA HeldIsThere ==
  ASSUME NEW c, NEW F, NEW readers \in ReaderType, NEW r \in TableReaders, readers[r].doing = "reading",
         ShardInv(c, HeldBy(readers, Shard(readers[r].file)), F)
  PROVE  /\ readers[r].handle \in DOMAIN c.entries /\ readers[r].handle \in Nat
         /\ HeldBy(readers, Shard(readers[r].file))[readers[r].handle] >= 1
<1> DEFINE s == Shard(readers[r].file)
           h == readers[r].handle
           held == HeldBy(readers, s)
<1>1. h \in Nat
  BY DEF ReaderType, ReaderState
<1>2. r \in HoldersIn(readers, s, h)
  BY DEF HoldersIn
<1> HIDE DEF s, h
<1>3. held[h] >= 1 /\ held[h] \in Nat
  BY <1>1, <1>2, HeldByFacts
<1> HIDE DEF held
<1>4. \A g \in Nat \ DOMAIN c.entries : held[g] = 0
  BY DEF ShardInv, EntriesRight, s, held
<1>5. held[h] # 0
  BY <1>3
<1> QED
  BY <1>1, <1>3, <1>4, <1>5 DEF s, h, held

(* One shard changes, and what a reader does, or a file is gone.           *)
OthersAreSame(files, left, readers, more, x) ==
  \A s \in ShardNumbers : s # x => /\ HeldBy(more, s) = HeldBy(readers, s)
                                   /\ FilesIn(left, s) = FilesIn(files, s)
ReadersFollow(left, readers, more, x, d) ==
  /\ \A r \in TableReaders : more[r].doing # "nothing" => more[r].file \in left
  /\ \A r \in TableReaders : more[r].doing = "reading" =>
       IF Shard(more[r].file) = x
       THEN more[r].handle \in DOMAIN d.entries => d.entries[more[r].handle].key = more[r].file
       ELSE more[r] = readers[r]

LEMMA ShardChanges ==
  ASSUME NEW shards, NEW files, NEW readers, OpenInv(shards, files, readers),
         NEW more \in ReaderType, NEW left \in SUBSET files, NEW x \in ShardNumbers, NEW d,
         ShardInv(d, HeldBy(more, x), FilesIn(left, x)),
         OthersAreSame(files, left, readers, more, x), ReadersFollow(left, readers, more, x, d)
  PROVE  OpenInv([shards EXCEPT ![x] = d], left, more)
<1> DEFINE after == [shards EXCEPT ![x] = d]
<1>1. /\ files \subseteq TableFiles /\ DOMAIN shards = ShardNumbers
      /\ ReadersRight(shards, files, readers)
      /\ \A s \in ShardNumbers : ShardInv(shards[s], HeldBy(readers, s), FilesIn(files, s))
  BY DEF OpenInv
<1>2. /\ DOMAIN after = ShardNumbers /\ after[x] = d
      /\ \A s \in ShardNumbers : s # x => after[s] = shards[s]
  BY <1>1
<1> HIDE DEF after
<1>3. \A s \in ShardNumbers : ShardInv(after[s], HeldBy(more, s), FilesIn(left, s))
  BY <1>1, <1>2 DEF OthersAreSame
<1>4. ASSUME NEW r \in TableReaders, more[r].doing = "reading"
      PROVE  /\ more[r].handle \in DOMAIN after[Shard(more[r].file)].entries
             /\ after[Shard(more[r].file)].entries[more[r].handle].key = more[r].file
  <2>1. more[r].file \in left /\ more[r].file \in TableFiles
    BY <1>1, <1>4 DEF ReadersFollow
  <2>2. Shard(more[r].file) \in ShardNumbers
    BY <2>1, ShardOfFile
  <2>3. ShardInv(after[Shard(more[r].file)], HeldBy(more, Shard(more[r].file)), FilesIn(left, Shard(more[r].file)))
    BY <1>3, <2>2
  <2>4. more[r].handle \in DOMAIN after[Shard(more[r].file)].entries
    BY <1>4, <2>3, HeldIsThere
  <2>5. CASE Shard(more[r].file) = x
    BY <1>2, <1>4, <2>4, <2>5 DEF ReadersFollow
  <2>6. CASE Shard(more[r].file) # x
    <3>1. more[r] = readers[r] /\ after[Shard(more[r].file)] = shards[Shard(more[r].file)]
      BY <1>2, <1>4, <2>2, <2>6 DEF ReadersFollow
    <3> QED
      BY <1>1, <1>4, <2>4, <3>1 DEF ReadersRight
  <2> QED
    BY <2>4, <2>5, <2>6
<1>5. ReadersRight(after, left, more)
  BY <1>4 DEF ReadersRight, ReadersFollow
<1>6. left \subseteq TableFiles
  BY <1>1
<1> QED
  BY <1>2, <1>3, <1>5, <1>6 DEF OpenInv, after

LEMMA ReaderTyped ==
  ASSUME NEW readers \in ReaderType, NEW r \in TableReaders, NEW t \in ReaderState,
         NEW new, ReaderGoes(readers, r, t, new)
  PROVE  /\ new \in ReaderType /\ new[r] = t
         /\ \A q \in TableReaders : q # r => new[q] = readers[q]
BY DEF ReaderType, ReaderGoes

-----------------------------------------------------------------------------
(* The steps.                                                              *)

LEMMA FindTableKeeps ==
  ASSUME OpenInv(shard_, file_exists, table_reader),
         NEW r \in TableReaders, NEW f \in TableFiles, FindTable(r, f)
  PROVE  OpenInv(shard_', file_exists', table_reader')
<1> DEFINE x == Shard(f)
           c == shard_[x]
           found == TableLookup(c, f)
           h == CHOOSE h \in found : TRUE
           d == CacheLookup(c, f)
           t == IF found = {} THEN [doing |-> "opening", file |-> f, handle |-> 0]
                ELSE [doing |-> "reading", file |-> f, handle |-> h]
           more == [table_reader EXCEPT ![r] = t]
           F == FilesIn(file_exists, x)
           held == HeldBy(table_reader, x)
<1>1. /\ table_reader[r].doing = "nothing" /\ f \in file_exists
      /\ shard_' = [shard_ EXCEPT ![x] = d] /\ table_reader' = more /\ file_exists' = file_exists
  BY DEF FindTable
<1>2. /\ file_exists \subseteq TableFiles /\ table_reader \in ReaderType
      /\ ReadersRight(shard_, file_exists, table_reader)
      /\ \A s \in ShardNumbers : ShardInv(shard_[s], HeldBy(table_reader, s), FilesIn(file_exists, s))
  BY DEF OpenInv
<1>3. x \in ShardNumbers
  BY ShardOfFile
<1>4. ShardInv(c, held, F)
  BY <1>2, <1>3
<1>5. found # {} =>
        ShardInv(d, Held(held, h, 1), F) /\ KeysKept(c, d) /\ h \in DOMAIN c.entries /\ h \in Nat /\ c.entries[h].key = f
  BY <1>4, CacheLookupFacts
<1>6. found = {} => d = c
  BY DEF CacheLookup
<1>7. /\ t = IF found = {} THEN [doing |-> "opening", file |-> f, handle |-> 0]
             ELSE [doing |-> "reading", file |-> f, handle |-> h]
      /\ ReaderGoes(table_reader, r, t, more)
      /\ x = Shard(f) /\ c = shard_[x] /\ F = FilesIn(file_exists, x) /\ held = HeldBy(table_reader, x)
  BY DEF ReaderGoes
<1> HIDE DEF x, c, found, h, d, t, more, F, held
<1>8. t \in ReaderState /\ t.file = f /\ t.doing = (IF found = {} THEN "opening" ELSE "reading")
      /\ (found # {} => t.handle = h)
  BY <1>5, <1>7 DEF ReaderState
<1>9. /\ more \in ReaderType /\ more[r] = t
      /\ \A q \in TableReaders : q # r => more[q] = table_reader[q]
  BY <1>2, <1>7, <1>8, ReaderTyped
<1>10. /\ ShardInv(d, HeldBy(more, x), F)
       /\ \A s : s # x => HeldBy(more, s) = HeldBy(table_reader, s)
  <2>1. CASE found = {}
    <3>1. \A s : HeldBy(more, s) = HeldBy(table_reader, s)
      BY <1>1, <1>2, <1>7, <1>8, <2>1, ReaderHoldsNone
    <3> QED
      BY <1>4, <1>6, <1>7, <2>1, <3>1
  <2>2. CASE found # {}
    <3>1. /\ HeldBy(more, x) = Held(held, h, 1)
          /\ \A s : s # x => HeldBy(more, s) = HeldBy(table_reader, s)
      BY <1>1, <1>2, <1>5, <1>7, <1>8, <2>2, ReaderTakes
    <3> QED
      BY <1>5, <2>2, <3>1
  <2> QED
    BY <2>1, <2>2
<1>11. OthersAreSame(file_exists, file_exists, table_reader, more, x)
  BY <1>10 DEF OthersAreSame
<1>12. ReadersFollow(file_exists, table_reader, more, x, d)
  <2>1. \A q \in TableReaders : more[q].doing # "nothing" => more[q].file \in file_exists
    BY <1>1, <1>2, <1>8, <1>9 DEF ReadersRight
  <2>2. KeysKept(c, d)
    BY <1>5, <1>6 DEF KeysKept
  <2>3. ASSUME NEW q \in TableReaders, more[q].doing = "reading", Shard(more[q].file) = x,
               more[q].handle \in DOMAIN d.entries
        PROVE  d.entries[more[q].handle].key = more[q].file
    <3>1. c.entries[more[q].handle].key = more[q].file
      BY <1>2, <1>5, <1>7, <1>8, <1>9, <2>3 DEF ReadersRight
    <3> QED
      BY <2>2, <2>3, <3>1 DEF KeysKept
  <2>4. \A q \in TableReaders : more[q].doing = "reading" /\ Shard(more[q].file) # x => more[q] = table_reader[q]
    BY <1>7, <1>8, <1>9
  <2> QED
    BY <2>1, <2>3, <2>4 DEF ReadersFollow
<1>13. OpenInv([shard_ EXCEPT ![x] = d], file_exists, more)
  BY <1>3, <1>7, <1>9, <1>10, <1>11, <1>12, ShardChanges
<1> QED
  BY <1>1, <1>13

LEMMA OpenTableKeeps ==
  ASSUME OpenInv(shard_, file_exists, table_reader),
         NEW r \in TableReaders, OpenTable(r)
  PROVE  OpenInv(shard_', file_exists', table_reader')
<1> DEFINE f == table_reader[r].file
           x == Shard(f)
           c == shard_[x]
           h == NewHandle(c)
           d == CacheInsert(c, f)
           t == [table_reader[r] EXCEPT !.doing = "reading", !.handle = h]
           more == [table_reader EXCEPT ![r] = t]
           F == FilesIn(file_exists, x)
           held == HeldBy(table_reader, x)
<1>1. /\ table_reader[r].doing = "opening" /\ f \in file_exists
      /\ shard_' = [shard_ EXCEPT ![x] = d] /\ file_exists' = file_exists
      /\ table_reader' = [table_reader EXCEPT ![r].doing = "reading", ![r].handle = h]
  BY DEF OpenTable
<1>2. /\ file_exists \subseteq TableFiles /\ table_reader \in ReaderType
      /\ ReadersRight(shard_, file_exists, table_reader)
      /\ \A s \in ShardNumbers : ShardInv(shard_[s], HeldBy(table_reader, s), FilesIn(file_exists, s))
  BY DEF OpenInv
<1>3. x \in ShardNumbers /\ f \in F
  BY <1>1, <1>2, ShardOfFile DEF FilesIn
<1>4. ShardInv(c, held, F)
  BY <1>2, <1>3
<1>5. /\ ShardInv(d, Held(held, h, 1), F)
      /\ h \in Nat \ DOMAIN c.entries
      /\ \A g \in DOMAIN d.entries :
           IF g = h THEN d.entries[g].key = f
           ELSE g \in DOMAIN c.entries /\ d.entries[g].key = c.entries[g].key
  BY <1>3, <1>4, CacheInsertFacts
<1>6. table_reader' = more
  BY <1>1
<1>7. /\ ReaderGoes(table_reader, r, t, more) /\ table_reader[r] \in ReaderState
      /\ t = [table_reader[r] EXCEPT !.doing = "reading", !.handle = h]
      /\ f = table_reader[r].file
      /\ x = Shard(f) /\ c = shard_[x] /\ F = FilesIn(file_exists, x) /\ held = HeldBy(table_reader, x)
  BY <1>2 DEF ReaderGoes, ReaderType
<1> HIDE DEF f, x, c, h, d, t, more, F, held
<1>8. t \in ReaderState /\ t.file = f /\ t.doing = "reading" /\ t.handle = h
  BY <1>5, <1>7 DEF ReaderState
<1>9. /\ more \in ReaderType /\ more[r] = t
      /\ \A q \in TableReaders : q # r => more[q] = table_reader[q]
  BY <1>2, <1>7, <1>8, ReaderTyped
<1>10. /\ HeldBy(more, x) = Held(held, h, 1)
       /\ \A s : s # x => HeldBy(more, s) = HeldBy(table_reader, s)
  <2>1. /\ table_reader[r].doing # "reading" /\ ReaderGoes(table_reader, r, t, more)
        /\ t.doing = "reading" /\ t.handle = h /\ h \in Nat /\ x = Shard(t.file)
    BY <1>1, <1>5, <1>7, <1>8
  <2>2. held = HeldBy(table_reader, x)
    BY <1>7
  <2> QED
    BY <1>2, <2>1, <2>2, ReaderTakes
<1>11. OthersAreSame(file_exists, file_exists, table_reader, more, x)
  BY <1>10 DEF OthersAreSame
<1>12. ReadersFollow(file_exists, table_reader, more, x, d)
  <2>1. \A q \in TableReaders : more[q].doing # "nothing" => more[q].file \in file_exists
    BY <1>1, <1>2, <1>8, <1>9 DEF ReadersRight
  <2>2. ASSUME NEW q \in TableReaders, more[q].doing = "reading", Shard(more[q].file) = x,
               more[q].handle \in DOMAIN d.entries
        PROVE  d.entries[more[q].handle].key = more[q].file
    <3>1. CASE q = r
      BY <1>5, <1>8, <1>9, <2>2, <3>1
    <3>2. CASE q # r
      <4>1. more[q].handle \in DOMAIN c.entries /\ c.entries[more[q].handle].key = more[q].file
        BY <1>2, <1>7, <1>9, <2>2, <3>2 DEF ReadersRight
      <4>2. more[q].handle # h
        BY <1>5, <4>1
      <4> QED
        BY <1>5, <2>2, <4>1, <4>2
    <3> QED
      BY <3>1, <3>2
  <2>3. \A q \in TableReaders : more[q].doing = "reading" /\ Shard(more[q].file) # x => more[q] = table_reader[q]
    BY <1>7, <1>8, <1>9
  <2> QED
    BY <2>1, <2>2, <2>3 DEF ReadersFollow
<1>13. OpenInv([shard_ EXCEPT ![x] = d], file_exists, more)
  BY <1>3, <1>5, <1>7, <1>9, <1>10, <1>11, <1>12, ShardChanges
<1> QED
  BY <1>1, <1>6, <1>13

LEMMA IdleFacts ==
  /\ IdleReader \in ReaderState /\ IdleReader.doing = "nothing" /\ IdleReader.file = 0
BY DEF IdleReader, ReaderState

LEMMA OpenFailsKeeps ==
  ASSUME OpenInv(shard_, file_exists, table_reader),
         NEW r \in TableReaders, OpenFails(r)
  PROVE  OpenInv(shard_', file_exists', table_reader')
<1> DEFINE more == [table_reader EXCEPT ![r] = IdleReader]
<1>1. /\ table_reader[r].doing = "opening" /\ table_reader' = more
      /\ shard_' = shard_ /\ file_exists' = file_exists
  BY DEF OpenFails
<1>2. /\ file_exists \subseteq TableFiles /\ table_reader \in ReaderType /\ DOMAIN shard_ = ShardNumbers
      /\ ReadersRight(shard_, file_exists, table_reader)
      /\ \A s \in ShardNumbers : ShardInv(shard_[s], HeldBy(table_reader, s), FilesIn(file_exists, s))
  BY DEF OpenInv
<1>3. ReaderGoes(table_reader, r, IdleReader, more)
  BY DEF ReaderGoes
<1> HIDE DEF more
<1>4. /\ more \in ReaderType /\ more[r] = IdleReader
      /\ \A q \in TableReaders : q # r => more[q] = table_reader[q]
  BY <1>2, <1>3, IdleFacts, ReaderTyped
<1>5. \A s : HeldBy(more, s) = HeldBy(table_reader, s)
  BY <1>1, <1>2, <1>3, IdleFacts, ReaderHoldsNone
<1>6. ReadersRight(shard_, file_exists, more)
  BY <1>2, <1>4, IdleFacts DEF ReadersRight
<1>7. OpenInv(shard_, file_exists, more)
  BY <1>2, <1>4, <1>5, <1>6 DEF OpenInv
<1> QED
  BY <1>1, <1>7

LEMMA ReleaseTableKeeps ==
  ASSUME OpenInv(shard_, file_exists, table_reader),
         NEW r \in TableReaders, ReleaseTable(r)
  PROVE  OpenInv(shard_', file_exists', table_reader')
<1> DEFINE f == table_reader[r].file
           x == Shard(f)
           c == shard_[x]
           h == table_reader[r].handle
           d == Unref(c, h)
           more == [table_reader EXCEPT ![r] = IdleReader]
           F == FilesIn(file_exists, x)
           held == HeldBy(table_reader, x)
<1>1. /\ table_reader[r].doing = "reading" /\ table_reader' = more
      /\ shard_' = [shard_ EXCEPT ![x] = d] /\ file_exists' = file_exists
  BY DEF ReleaseTable
<1>2. /\ file_exists \subseteq TableFiles /\ table_reader \in ReaderType
      /\ ReadersRight(shard_, file_exists, table_reader)
      /\ \A s \in ShardNumbers : ShardInv(shard_[s], HeldBy(table_reader, s), FilesIn(file_exists, s))
  BY DEF OpenInv
<1>3. x \in ShardNumbers
  BY <1>1, <1>2, ShardOfFile DEF ReadersRight
<1>4. ShardInv(c, held, F)
  BY <1>2, <1>3
<1>5. h \in DOMAIN c.entries /\ held[h] >= 1
  BY <1>1, <1>2, <1>4, HeldIsThere
<1>6. ShardInv(d, Held(held, h, -1), F) /\ KeysKept(c, d)
  BY <1>4, <1>5, UnrefKeeps
<1>7. /\ ReaderGoes(table_reader, r, IdleReader, more)
      /\ x = Shard(table_reader[r].file) /\ h = table_reader[r].handle
      /\ c = shard_[x] /\ F = FilesIn(file_exists, x) /\ held = HeldBy(table_reader, x)
  BY DEF ReaderGoes
<1> HIDE DEF f, x, c, h, d, more, F, held
<1>8. /\ more \in ReaderType /\ more[r] = IdleReader
      /\ \A q \in TableReaders : q # r => more[q] = table_reader[q]
  BY <1>2, <1>7, IdleFacts, ReaderTyped
<1>9. /\ HeldBy(more, x) = Held(held, h, -1)
      /\ \A s : s # x => HeldBy(more, s) = HeldBy(table_reader, s)
  BY <1>1, <1>2, <1>7, ReaderReturns
<1>10. OthersAreSame(file_exists, file_exists, table_reader, more, x)
  BY <1>9 DEF OthersAreSame
<1>11. ReadersFollow(file_exists, table_reader, more, x, d)
  <2>1. \A q \in TableReaders : more[q].doing # "nothing" => more[q].file \in file_exists
    BY <1>2, <1>8, IdleFacts DEF ReadersRight
  <2>2. ASSUME NEW q \in TableReaders, more[q].doing = "reading", Shard(more[q].file) = x,
               more[q].handle \in DOMAIN d.entries
        PROVE  d.entries[more[q].handle].key = more[q].file
    <3>1. q # r
      BY <1>8, <2>2, IdleFacts
    <3>2. c.entries[more[q].handle].key = more[q].file
      BY <1>2, <1>7, <1>8, <2>2, <3>1 DEF ReadersRight
    <3> QED
      BY <1>6, <2>2, <3>2 DEF KeysKept
  <2>3. \A q \in TableReaders : more[q].doing = "reading" => more[q] = table_reader[q]
    BY <1>8, IdleFacts
  <2> QED
    BY <2>1, <2>2, <2>3 DEF ReadersFollow
<1>12. OpenInv([shard_ EXCEPT ![x] = d], file_exists, more)
  BY <1>3, <1>6, <1>7, <1>8, <1>9, <1>10, <1>11, ShardChanges
<1> QED
  BY <1>1, <1>12

LEMMA RemoveObsoleteTableKeeps ==
  ASSUME OpenInv(shard_, file_exists, table_reader),
         NEW f \in TableFiles, RemoveObsoleteTable(f)
  PROVE  OpenInv(shard_', file_exists', table_reader')
<1> DEFINE x == Shard(f)
           c == shard_[x]
           d == Erase(c, f)
           F == FilesIn(file_exists, x)
           left == file_exists \ {f}
           held == HeldBy(table_reader, x)
<1>1. /\ f \in file_exists /\ \A r \in TableReaders : table_reader[r].file # f
      /\ shard_' = [shard_ EXCEPT ![x] = d] /\ file_exists' = left /\ table_reader' = table_reader
  BY DEF RemoveObsoleteTable, Evict
<1>2. /\ file_exists \subseteq TableFiles /\ table_reader \in ReaderType
      /\ ReadersRight(shard_, file_exists, table_reader)
      /\ \A s \in ShardNumbers : ShardInv(shard_[s], HeldBy(table_reader, s), FilesIn(file_exists, s))
  BY DEF OpenInv
<1>3. x \in ShardNumbers
  BY ShardOfFile
<1>4. ShardInv(c, held, F)
  BY <1>2, <1>3
<1>5. ShardInv(d, held, F) /\ KeysKept(c, d) /\ \A h \in Cached(d) : d.entries[h].key # f
  BY <1>4, EraseFacts
<1>6. /\ x = Shard(f) /\ c = shard_[x] /\ F = FilesIn(file_exists, x) /\ held = HeldBy(table_reader, x)
      /\ left \in SUBSET file_exists /\ left = file_exists \ {f}
  OBVIOUS
<1> HIDE DEF x, c, d, F, held, left
<1>7. /\ d \in ShardType(F) /\ F \subseteq TableFiles /\ DOMAIN d.entries \subseteq Nat
      /\ \A h \in DOMAIN d.entries : d.entries[h].refs = held[h] + CacheRef(d.entries[h])
      /\ \A h \in DOMAIN d.entries : d.entries[h].refs \in Nat \ {0} /\ d.entries[h].key \in F
  <2>1. d \in ShardType(F) /\ F \subseteq TableFiles
    BY <1>5 DEF ShardInv, EntriesRight
  <2>2. \A h \in DOMAIN d.entries : d.entries[h].refs = held[h] + CacheRef(d.entries[h])
    BY <1>5 DEF ShardInv, EntriesRight, CacheRef
  <2> QED
    BY <2>1, <2>2, ShardTypes
<1>8. ASSUME NEW h \in DOMAIN d.entries
      PROVE  d.entries[h].key # f
  <2> SUFFICES ASSUME d.entries[h].key = f
               PROVE  FALSE
    OBVIOUS
  <2>1. h \notin Cached(d)
    BY <1>5
  <2>2. CacheRef(d.entries[h]) = 0
    BY <2>1 DEF Cached, CacheRef
  <2>3. h \in Nat /\ held[h] # 0
    BY <1>7, <2>2
  <2>4. HoldersIn(table_reader, x, h) # {}
    <3>1. held[h] = Cardinality(HoldersIn(table_reader, x, h))
      BY <1>6, <2>3, HeldByFacts
    <3> QED
      BY <2>3, <3>1, FS_EmptySet
  <2>5. PICK r \in TableReaders : /\ table_reader[r].doing = "reading" /\ table_reader[r].handle = h
                                  /\ Shard(table_reader[r].file) = x
    BY <2>4 DEF HoldersIn
  <2>6. c.entries[h].key = table_reader[r].file
    BY <1>2, <1>6, <2>5 DEF ReadersRight
  <2> QED
    BY <1>1, <1>5, <2>6 DEF KeysKept
<1>9. ShardInv(d, held, FilesIn(left, x))
  <2>1. FilesIn(left, x) = F \ {f}
    BY <1>6 DEF FilesIn
  <2>2. \A h \in DOMAIN d.entries : d.entries[h].key \in F \ {f}
    BY <1>7, <1>8
  <2> QED
    BY <1>5, <2>1, <2>2, FewerFiles
<1>10. OthersAreSame(file_exists, left, table_reader, table_reader, x)
  <2>1. \A s : s # x => FilesIn(left, s) = FilesIn(file_exists, s)
    BY <1>6 DEF FilesIn
  <2> QED
    BY <2>1 DEF OthersAreSame
<1>11. ReadersFollow(left, table_reader, table_reader, x, d)
  <2>1. \A q \in TableReaders : table_reader[q].doing # "nothing" => table_reader[q].file \in left
    BY <1>1, <1>2, <1>6 DEF ReadersRight
  <2>2. \A q \in TableReaders :
          /\ table_reader[q].doing = "reading" /\ Shard(table_reader[q].file) = x
          /\ table_reader[q].handle \in DOMAIN d.entries
          => d.entries[table_reader[q].handle].key = table_reader[q].file
    BY <1>2, <1>5, <1>6 DEF ReadersRight, KeysKept
  <2> QED
    BY <2>1, <2>2 DEF ReadersFollow
<1>12. OpenInv([shard_ EXCEPT ![x] = d], left, table_reader)
  BY <1>2, <1>3, <1>6, <1>9, <1>10, <1>11, ShardChanges
<1> QED
  BY <1>1, <1>12

LEMMA PruneCacheKeeps ==
  ASSUME OpenInv(shard_, file_exists, table_reader), PruneCache
  PROVE  OpenInv(shard_', file_exists', table_reader')
<1> DEFINE after == [s \in ShardNumbers |-> Prune(shard_[s])]
<1>1. shard_' = after /\ file_exists' = file_exists /\ table_reader' = table_reader
  BY DEF PruneCache
<1>2. /\ file_exists \subseteq TableFiles /\ table_reader \in ReaderType
      /\ ReadersRight(shard_, file_exists, table_reader)
      /\ \A s \in ShardNumbers : ShardInv(shard_[s], HeldBy(table_reader, s), FilesIn(file_exists, s))
  BY DEF OpenInv
<1>3. DOMAIN after = ShardNumbers /\ \A s \in ShardNumbers : after[s] = EraseOldest(shard_[s], TRUE)
  BY DEF Prune
<1> HIDE DEF after
<1>4. ASSUME NEW s \in ShardNumbers
      PROVE  ShardInv(after[s], HeldBy(table_reader, s), FilesIn(file_exists, s)) /\ KeysKept(shard_[s], after[s])
  <2>1. TRUE \in BOOLEAN
    OBVIOUS
  <2> QED
    BY <1>2, <1>3, <2>1, EraseOldestFacts
<1>5. ASSUME NEW r \in TableReaders, table_reader[r].doing = "reading"
      PROVE  /\ table_reader[r].handle \in DOMAIN after[Shard(table_reader[r].file)].entries
             /\ after[Shard(table_reader[r].file)].entries[table_reader[r].handle].key = table_reader[r].file
  <2>1. Shard(table_reader[r].file) \in ShardNumbers
    BY <1>2, <1>5, ShardOfFile DEF ReadersRight
  <2>2. table_reader[r].handle \in DOMAIN after[Shard(table_reader[r].file)].entries
    BY <1>2, <1>4, <1>5, <2>1, HeldIsThere
  <2> QED
    BY <1>2, <1>4, <1>5, <2>1, <2>2 DEF ReadersRight, KeysKept
<1>6. ReadersRight(after, file_exists, table_reader)
  BY <1>2, <1>5 DEF ReadersRight
<1>7. OpenInv(after, file_exists, table_reader)
  BY <1>2, <1>3, <1>4, <1>6 DEF OpenInv
<1> QED
  BY <1>1, <1>7

LEMMA CloseTableCacheKeeps ==
  ASSUME OpenInv(shard_, file_exists, table_reader), CloseTableCache
  PROVE  ClosedInv(shard_', table_reader')
<1>1. /\ shard_' = [s \in ShardNumbers |-> Destroy(shard_[s])] /\ table_reader' = table_reader
      /\ \A r \in TableReaders : table_reader[r] = IdleReader
  BY DEF CloseTableCache
<1>2. /\ table_reader \in ReaderType
      /\ \A s \in ShardNumbers : ShardInv(shard_[s], HeldBy(table_reader, s), FilesIn(file_exists, s))
  BY DEF OpenInv
<1>3. ASSUME NEW s \in ShardNumbers
      PROVE  DOMAIN shard_'[s].entries = {}
  <2>1. \A h \in Nat : HoldersIn(table_reader, s, h) = {}
    BY <1>1, IdleFacts DEF HoldersIn
  <2>2. \A h \in Nat : HeldBy(table_reader, s)[h] = 0
    BY <2>1, FS_EmptySet DEF HeldBy
  <2>3. DOMAIN Destroy(shard_[s]).entries = {}
    BY <1>2, <2>2, DestroyFacts
  <2> QED
    BY <1>1, <2>3
<1> QED
  BY <1>1, <1>2, <1>3, IdleFacts DEF ClosedInv

-----------------------------------------------------------------------------
(* The theorem.                                                            *)

LEMMA EmptyCacheFacts ==
  ASSUME NEW capacity \in Nat, NEW F \in SUBSET TableFiles, NEW held \in [Nat -> Nat],
         \A h \in Nat : held[h] = 0
  PROVE  ShardInv(EmptyCache(capacity), held, F)
<1> DEFINE c == EmptyCache(capacity)
           list == [b \in 0 .. kMinBuckets - 1 |-> {}]
           table == [length |-> kMinBuckets, elems |-> 0, list |-> list]
<1>1. c = [capacity |-> capacity, usage |-> 0, lru |-> << >>, in_use |-> {}, entries |-> << >>, table |-> table]
  BY DEF EmptyCache, EmptyTable
<1>2. list \in HandleMaps(SUBSET Nat) /\ DOMAIN list = 0 .. kMinBuckets - 1 /\ \A b \in DOMAIN list : list[b] = {}
  <2>1. list \in [0 .. kMinBuckets - 1 -> SUBSET Nat] /\ 0 .. kMinBuckets - 1 \in SUBSET Nat
    BY TableCacheAssumption
  <2> QED
    BY <2>1 DEF HandleMaps
<1> HIDE DEF list
<1>3. /\ table \in [length : Nat \ {0}, elems : Int, list : HandleMaps(SUBSET Nat)]
      /\ table.length = kMinBuckets /\ table.elems = 0 /\ table.list = list
  BY <1>2, TableCacheAssumption
<1> HIDE DEF table
<1>4. << >> \in HandleMaps(CacheEntries(F)) /\ DOMAIN << >> = {}
  <2>1. << >> \in [{} -> CacheEntries(F)] /\ {} \in SUBSET Nat /\ DOMAIN << >> = {}
    OBVIOUS
  <2> QED
    BY <2>1 DEF HandleMaps
<1> HIDE DEF c
<1>5. /\ c.capacity = capacity /\ c.usage = 0 /\ c.lru = << >> /\ c.in_use = {} /\ c.entries = << >> /\ c.table = table
      /\ DOMAIN c.entries = {}
  BY <1>1, <1>4
<1>6. c \in ShardType(F)
  <2>1. << >> \in Seq(Nat) /\ 0 \in Nat /\ 0 \in Int /\ {} \in SUBSET Nat
    OBVIOUS
  <2> QED
    BY <1>1, <1>3, <1>4, <2>1 DEF ShardType
<1>7. Cached(c) = {} /\ IsFiniteSet({}) /\ Cardinality({}) = 0
  BY <1>5, FS_EmptySet DEF Cached
<1>8. ListsRight(c)
  <2>1. ToSet(<< >>) = {} /\ IsInjective(<< >>)
    BY DEF ToSet, IsInjective
  <2> QED
    BY <1>5, <1>7, <2>1 DEF ListsRight
<1>9. EntriesRight(c, held, F)
  BY <1>5, <1>6, <1>7, <1>8 DEF EntriesRight
<1>10. TableHas(c, {})
  BY <1>2, <1>3, <1>5, <1>7 DEF TableHas
<1> QED
  BY <1>7, <1>9, <1>10 DEF ShardInv, c

LEMMA TableCacheStarts ==
  TableCacheInit => TableCacheInv
<1> SUFFICES ASSUME TableCacheInit
             PROVE  TableCacheInv
  OBVIOUS
<1>1. PICK capacity \in CacheCapacities : shard_ = [s \in ShardNumbers |-> EmptyCache(PerShard(capacity))]
  BY DEF TableCacheInit
<1>2. /\ file_exists = TableFiles /\ cache_open = TRUE
      /\ table_reader = [r \in TableReaders |-> IdleReader]
  BY DEF TableCacheInit
<1>3. PerShard(capacity) \in Nat
  <2>1. capacity \in Nat /\ kNumShards \in Nat \ {0}
    BY TableCacheAssumption
  <2>2. capacity + kNumShards - 1 \in Nat
    BY <2>1
  <2> QED
    BY <2>1, <2>2 DEF PerShard
<1>4. table_reader \in ReaderType /\ \A r \in TableReaders : table_reader[r] = IdleReader
  BY <1>2, IdleFacts DEF ReaderType
<1>5. ReadersRight(shard_, file_exists, table_reader)
  BY <1>4, IdleFacts DEF ReadersRight
<1>6. ASSUME NEW s \in ShardNumbers
      PROVE  ShardInv(shard_[s], HeldBy(table_reader, s), FilesIn(file_exists, s))
  <2>1. \A h \in Nat : HoldersIn(table_reader, s, h) = {}
    BY <1>4, IdleFacts DEF HoldersIn
  <2>2. \A h \in Nat : HeldBy(table_reader, s)[h] = 0
    BY <2>1, FS_EmptySet DEF HeldBy
  <2>3. HeldBy(table_reader, s) \in [Nat -> Nat]
    BY HeldByFacts
  <2>4. FilesIn(file_exists, s) \in SUBSET TableFiles
    BY <1>2 DEF FilesIn
  <2>5. shard_[s] = EmptyCache(PerShard(capacity))
    BY <1>1
  <2> QED
    BY <1>3, <2>2, <2>3, <2>4, <2>5, EmptyCacheFacts
<1>7. DOMAIN shard_ = ShardNumbers
  BY <1>1
<1>8. OpenInv(shard_, file_exists, table_reader)
  BY <1>2, <1>4, <1>5, <1>6, <1>7 DEF OpenInv
<1> QED
  BY <1>2, <1>8 DEF TableCacheInv

LEMMA TableCacheKeeps ==
  TableCacheInv /\ [TableCacheNext]_tableCacheVars => TableCacheInv'
<1> SUFFICES ASSUME TableCacheInv, [TableCacheNext]_tableCacheVars
             PROVE  TableCacheInv'
  OBVIOUS
<1> DEFINE Open == OpenInv(shard_, file_exists, table_reader)
           OpenNext == OpenInv(shard_', file_exists', table_reader')
<1>1. /\ cache_open \in BOOLEAN /\ (cache_open => Open)
      /\ (~ cache_open => ClosedInv(shard_, table_reader))
  BY DEF TableCacheInv
<1>2. SUFFICES /\ cache_open' \in BOOLEAN /\ (cache_open' => OpenNext)
               /\ (~ cache_open' => ClosedInv(shard_', table_reader'))
  BY DEF TableCacheInv
<1>3. ASSUME NEW r \in TableReaders, table_reader[r].doing # "nothing"
      PROVE  cache_open
  BY <1>1, <1>3 DEF ClosedInv
<1>4. ASSUME NEW r \in TableReaders, NEW f \in TableFiles, FindTable(r, f)
      PROVE  cache_open /\ cache_open' = cache_open /\ OpenNext
  BY <1>1, <1>4, FindTableKeeps DEF FindTable
<1>5. ASSUME NEW r \in TableReaders, OpenTable(r)
      PROVE  cache_open /\ cache_open' = cache_open /\ OpenNext
  <2>1. cache_open /\ cache_open' = cache_open
    BY <1>3, <1>5 DEF OpenTable
  <2> QED
    BY <1>1, <1>5, <2>1, OpenTableKeeps
<1>6. ASSUME NEW r \in TableReaders, OpenFails(r)
      PROVE  cache_open /\ cache_open' = cache_open /\ OpenNext
  <2>1. cache_open /\ cache_open' = cache_open
    BY <1>3, <1>6 DEF OpenFails
  <2> QED
    BY <1>1, <1>6, <2>1, OpenFailsKeeps
<1>7. ASSUME NEW r \in TableReaders, ReleaseTable(r)
      PROVE  cache_open /\ cache_open' = cache_open /\ OpenNext
  <2>1. cache_open /\ cache_open' = cache_open
    BY <1>3, <1>7 DEF ReleaseTable
  <2> QED
    BY <1>1, <1>7, <2>1, ReleaseTableKeeps
<1>8. ASSUME NEW f \in TableFiles, RemoveObsoleteTable(f)
      PROVE  cache_open /\ cache_open' = cache_open /\ OpenNext
  BY <1>1, <1>8, RemoveObsoleteTableKeeps DEF RemoveObsoleteTable
<1>9. ASSUME PruneCache
      PROVE  cache_open /\ cache_open' = cache_open /\ OpenNext
  BY <1>1, <1>9, PruneCacheKeeps DEF PruneCache
<1>10. CASE CloseTableCache
  <2>1. cache_open /\ cache_open' = FALSE
    BY <1>10 DEF CloseTableCache
  <2> QED
    BY <1>1, <1>10, <2>1, CloseTableCacheKeeps
<1>11. CASE UNCHANGED tableCacheVars
  BY <1>1, <1>11 DEF tableCacheVars
<1> HIDE DEF OpenNext
<1>12. CASE TableCacheNext
  <2> DEFINE Stays == cache_open /\ cache_open' = cache_open /\ OpenNext
  <2>1. Stays \/ CloseTableCache
    BY <1>4, <1>5, <1>6, <1>7, <1>8, <1>9, <1>12 DEF TableCacheNext
  <2>2. CASE Stays
    BY <1>1, <2>2
  <2> QED
    BY <1>10, <2>1, <2>2
<1> QED
  BY <1>11, <1>12

LEMMA OpenCacheIsRight ==
  ASSUME cache_open, OpenInv(shard_, file_exists, table_reader)
  PROVE  CacheIsRight
<1>1. /\ file_exists \subseteq TableFiles /\ table_reader \in ReaderType
      /\ ReadersRight(shard_, file_exists, table_reader)
      /\ \A s \in ShardNumbers : ShardInv(shard_[s], HeldBy(table_reader, s), FilesIn(file_exists, s))
  BY DEF OpenInv
<1>2. HeldTableOpen
  BY <1>1 DEF ReadersRight, HeldTableOpen
<1>3. ASSUME NEW s \in ShardNumbers
      PROVE  LET c == shard_[s] IN
             /\ ListsRight(c) /\ TableRight(c)
             /\ \A h \in DOMAIN c.entries :
                  c.entries[h].refs = Cardinality(Holders(s, h)) + (IF c.entries[h].in_cache THEN 1 ELSE 0)
             /\ \A h \in DOMAIN c.entries : c.entries[h].key \in file_exists
  <2> DEFINE c == shard_[s]
             held == HeldBy(table_reader, s)
             F == FilesIn(file_exists, s)
  <2>1. EntriesRight(c, held, F) /\ TableHas(c, Cached(c)) /\ c \in ShardType(F) /\ F \subseteq TableFiles
    BY <1>1 DEF ShardInv, EntriesRight
  <2>2. /\ \A h \in DOMAIN c.entries : c.entries[h].key \in F /\ c.entries[h].key \in TableFiles
        /\ DOMAIN c.entries \subseteq Nat
    BY <2>1, ShardTypes
  <2>3. ASSUME NEW h \in Cached(c)
        PROVE  TableLookup(c, c.entries[h].key) = {h}
    <3>1. c.entries[h].key \in TableFiles
      BY <2>2 DEF Cached
    <3>2. /\ TableLookup(c, c.entries[h].key) = {g \in Cached(c) : c.entries[g].key = c.entries[h].key}
          /\ \A g, i \in TableLookup(c, c.entries[h].key) : g = i
      BY <2>1, <3>1, TableFacts
    <3> QED
      BY <3>2
  <2>4. c.table.elems = Cardinality(Cached(c))
    BY <2>1 DEF TableHas
  <2>5. TableRight(c)
    BY <2>3, <2>4 DEF TableRight
  <2>6. \A h \in DOMAIN c.entries :
          c.entries[h].refs = held[h] + (IF c.entries[h].in_cache THEN 1 ELSE 0)
    BY <2>1 DEF EntriesRight
  <2>7. \A h \in DOMAIN c.entries : held[h] = Cardinality(Holders(s, h))
    BY <2>2 DEF HeldBy, HoldersIn, Holders
  <2>8. ListsRight(c)
    BY <2>1 DEF EntriesRight
  <2>9. F \subseteq file_exists
    BY DEF FilesIn
  <2> QED
    BY <2>2, <2>5, <2>6, <2>7, <2>8, <2>9
<1>4. CacheConsistent
  BY <1>3 DEF CacheConsistent
<1>5. NoRemovedFileOpen
  BY <1>3 DEF NoRemovedFileOpen
<1> QED
  BY <1>2, <1>4, <1>5 DEF CacheIsRight

LEMMA TableCacheInvIsEnough ==
  TableCacheInv => CacheIsRight
<1>1. CASE cache_open
  BY <1>1, OpenCacheIsRight DEF TableCacheInv
<1>2. ASSUME ~ cache_open, ClosedInv(shard_, table_reader)
      PROVE  CacheIsRight
  BY <1>2 DEF ClosedInv, CacheIsRight, HeldTableOpen, CacheConsistent, NoRemovedFileOpen
<1> QED
  BY <1>1, <1>2 DEF TableCacheInv

(* The cache of open tables is right, for any files, readers, capacities,  *)
(* numbers of shards and buckets, and hash: a reader's table stays open    *)
(* while it reads, no removed file does, and the counts, lists and hash    *)
(* table of every shard agree with each other and with the readers.        *)
THEOREM TableCacheIsRight ==
  TableCacheSpec => []CacheIsRight
<1>1. TableCacheSpec => []TableCacheInv
  BY TableCacheStarts, TableCacheKeeps, PTL DEF TableCacheSpec
<1> QED
  BY <1>1, TableCacheInvIsEnough, PTL

=============================================================================
