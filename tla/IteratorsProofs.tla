--------------------------- MODULE IteratorsProofs ---------------------------
(***************************************************************************)
(* Theorems about what reads the database in order: MergingIterator and    *)
(* DBIter, for any keys, children and entries and any number of calls.     *)
(***************************************************************************)
EXTENDS Iterators, ListLemmas

-----------------------------------------------------------------------------
(* The inductive invariant.                                                *)

Stored == [key : UserKeys, seq : Nat, type : {kTypeDeletion, kTypeValue, kTypeUnknown}]

(* The entries of the children, and those that were there when the         *)
(* iterator was made.                                                      *)
All == UNION {children[i] : i \in Children}
Old == {e \in All : e.seq <= MaxSequence}

ChildrenInv ==
  /\ children \in [Children -> SUBSET Stored]
  /\ \A i \in Children : IsFiniteSet(children[i])
  /\ \A i, j \in Children : \A e \in children[i], f \in children[j] :
       e.seq = f.seq => i = j /\ e = f
  /\ \A e \in All : /\ e.seq <= MaxSequence + MaxLateWrites
                    /\ e.type = kTypeUnknown => e.seq <= MaxSequence
  /\ \E e \in All : e.seq = MaxSequence
  /\ sequence_ \in Nat /\ sequence_ <= MaxSequence

IterTypeOK ==
  /\ dbiter \in [direction : {"forward", "reverse"}, valid : BOOLEAN, ok : BOOLEAN,
                 saved_key : SUBSET UserKeys, saved_value : Nat]
  /\ turn \in {"user", "find_next", "to_reverse", "find_prev"}
  /\ value_type \in {kTypeDeletion, kTypeValue}
  /\ skipping \in BOOLEAN /\ scan \in BOOLEAN

(* Every child but the current one is at its first entry after the key or, *)
(* in the other direction, at its last before it; of entries written since *)
(* nothing is said.                                                        *)
OthersAfter(m) ==
  \A i \in Children \ {m.current} :
    /\ \A f \in m.at[i] : Less(MergingKey(m), f)
    /\ \A g \in children[i] \cap Old : Less(MergingKey(m), g) => \E f \in m.at[i] : ~ Less(g, f)
OthersBefore(m) ==
  \A i \in Children \ {m.current} :
    /\ \A f \in m.at[i] : Less(f, MergingKey(m))
    /\ \A g \in children[i] \cap Old : Less(g, MergingKey(m)) => \E f \in m.at[i] : ~ Less(f, g)

MergingRight(m) ==
  /\ m.current \in {0} \cup Children
  /\ \A i \in Children : m.at[i] \subseteq children[i] /\ \A e, f \in m.at[i] : e = f
  /\ IF m.current = 0 THEN \A i \in Children : m.at[i] = {} ELSE m.at[m.current] # {}
  /\ m.direction \in {"forward", "reverse"}
  /\ m.current # 0 => IF m.direction = "forward" THEN OthersAfter(m) ELSE OthersBefore(m)
MergingInv == MergingRight(merging)

(* What a merging iterator has not passed yet, in the two directions.      *)
ToCome(m, g) == m.current # 0 /\ ~ Less(g, MergingKey(m))
ToComeBack(m, g) == m.current # 0 /\ ~ Less(MergingKey(m), g)

UserInv ==
  turn = "user" =>
    /\ ~ dbiter.valid => expected = {}
    /\ dbiter.valid /\ dbiter.direction = "forward" =>
         /\ merging.current # 0 /\ merging.direction = "forward"
         /\ MergingKey(merging) \in Visible /\ expected = {MergingKey(merging)}
    /\ dbiter.valid /\ dbiter.direction = "reverse" =>
         /\ merging.direction = "reverse"
         /\ \E c \in Visible :
              /\ expected = {c} /\ dbiter.saved_key = {c.key} /\ dbiter.saved_value = c.seq
              /\ merging.current # 0 => MergingKey(merging).key < c.key
              /\ \A g \in Seen : g.key < c.key => ToComeBack(merging, g)

(* What was passed of the current key is hidden with it, and the entry     *)
(* that is sought is the first one that is neither passed nor hidden.      *)
Hiding(skip, saved, k) == skip /\ k <= Only(saved)
NextRight(m, skip, saved, target) ==
  /\ m.current # 0 /\ m.direction = "forward"
  /\ skip => \E k \in UserKeys : saved = {k}
  /\ \A g \in Seen : Less(g, MergingKey(m)) /\ g.key = MergingKey(m).key => Hiding(skip, saved, g.key)
  /\ skip => \A g \in Seen : ToCome(m, g) => Only(saved) <= g.key
  /\ target = Lowest({v \in Visible : ToCome(m, v) /\ ~ Hiding(skip, saved, v.key)})
FindNextInv ==
  turn = "find_next" =>
    /\ dbiter.direction = "forward"
    /\ NextRight(merging, skipping, dbiter.saved_key, expected)

ToReverseInv ==
  turn = "to_reverse" =>
    /\ merging.current # 0 /\ dbiter.direction = "forward"
    /\ \E k \in UserKeys : /\ dbiter.saved_key = {k} /\ k <= MergingKey(merging).key
                           /\ expected = Highest({v \in Visible : v.key < k})

(* c is the entry saved last: only entries the snapshot does not show have *)
(* been passed since, and it is the one sought unless a newer one of its   *)
(* key is still to come.                                                   *)
SavedRight(m, c, target) ==
  /\ c.type = kTypeValue /\ ~ ToComeBack(m, c)
  /\ \A g \in Seen : Less(g, c) => ToComeBack(m, g)
  /\ \/ \E g \in Seen : g.key = c.key /\ ToComeBack(m, g)
        /\ target = Highest({v \in Visible : ToComeBack(m, v)})
     \/ (\A g \in Seen : ToComeBack(m, g) => g.key # c.key) /\ target = {c}
FindPrevInv ==
  turn = "find_prev" =>
    /\ dbiter.direction = "reverse" /\ merging.direction = "reverse"
    /\ IF value_type = kTypeDeletion
       THEN expected = Highest({v \in Visible : ToComeBack(merging, v)})
       ELSE \E c \in Seen : /\ dbiter.saved_key = {c.key} /\ dbiter.saved_value = c.seq
                            /\ SavedRight(merging, c, expected)

(* A scan has passed no damaged entry, unless it has said so.              *)
ScanInv ==
  scan =>
    /\ turn \in {"user", "find_next"} /\ dbiter.direction = "forward"
    /\ dbiter.ok => \A g \in All : g.type = kTypeUnknown =>
         (turn = "find_next" \/ dbiter.valid) /\ ToCome(merging, g)

IteratorsInv ==
  /\ ChildrenInv /\ IterTypeOK /\ MergingInv
  /\ UserInv /\ FindNextInv /\ ToReverseInv /\ FindPrevInv /\ ScanInv

-----------------------------------------------------------------------------
(* Entries in order.                                                       *)

Target == [key : Nat, seq : Nat, type : {0, 1, 2}]

LEMMA StoredAreTargets == Stored \subseteq Target /\ UserKeys \subseteq Nat
BY IteratorsAssumption DEF Stored, Target, kTypeDeletion, kTypeValue, kTypeUnknown

(* Internal keys are in a strict and total order: by user key, newer ones  *)
(* first.                                                                  *)
LEMMA LessFacts ==
  /\ \A a \in Target : ~ Less(a, a)
  /\ \A a, b, c \in Target : Less(a, b) /\ Less(b, c) => Less(a, c)
  /\ \A a, b \in Target : a # b => Less(a, b) \/ Less(b, a)
  /\ \A a, b \in Target : Less(a, b) => a.key <= b.key
  /\ \A a, b \in Target : a.key < b.key => Less(a, b)
  /\ \A a, b \in Target : a.key = b.key /\ b.seq < a.seq => Less(a, b)
  /\ \A a, b \in Target : a.key = b.key /\ Less(a, b) => b.seq <= a.seq
<1>1. ASSUME NEW a \in Target, NEW b \in Target, a # b
      PROVE  Less(a, b) \/ Less(b, a)
  <2>1. /\ a.key \in Nat /\ a.seq \in Nat /\ a.type \in {0, 1, 2}
        /\ b.key \in Nat /\ b.seq \in Nat /\ b.type \in {0, 1, 2}
    BY DEF Target
  <2>2. a.key # b.key \/ a.seq # b.seq \/ a.type # b.type
    BY <1>1 DEF Target
  <2> QED
    BY <2>1, <2>2 DEF Less, PackSequenceAndType
<1>2. \A a \in Target : ~ Less(a, a)
  BY DEF Target, Less, PackSequenceAndType
<1>3. \A a, b, c \in Target : Less(a, b) /\ Less(b, c) => Less(a, c)
  BY DEF Target, Less, PackSequenceAndType
<1>4. \A a, b \in Target : Less(a, b) => a.key <= b.key
  BY DEF Target, Less, PackSequenceAndType
<1>5. \A a, b \in Target : a.key < b.key => Less(a, b)
  BY DEF Target, Less, PackSequenceAndType
<1>6. \A a, b \in Target : a.key = b.key /\ b.seq < a.seq => Less(a, b)
  BY DEF Target, Less, PackSequenceAndType
<1>7. \A a, b \in Target : a.key = b.key /\ Less(a, b) => b.seq <= a.seq
  BY DEF Target, Less, PackSequenceAndType
<1> QED
  BY <1>1, <1>2, <1>3, <1>4, <1>5, <1>6, <1>7

(* The ends of a set of entries, as sets of at most one.                   *)
FirstOf(S) == {f \in S : \A g \in S : ~ Less(g, f)}
LastOf(S) == {f \in S : \A g \in S : ~ Less(f, g)}

LEMMA EndsExist ==
  ASSUME NEW S, S \subseteq Stored, IsFiniteSet(S)
  PROVE  /\ \A e, f \in FirstOf(S) : e = f
         /\ \A e, f \in LastOf(S) : e = f
         /\ S # {} => FirstOf(S) # {} /\ LastOf(S) # {}
<1> DEFINE R == {p \in S \X S : Less(p[1], p[2])}
<1>1. S \subseteq Target
  BY StoredAreTargets
<1>2. \A a, b \in S : <<a, b>> \in R <=> Less(a, b)
  OBVIOUS
<1>3. StrictOrder(S, R)
  BY <1>1, <1>2, LessFacts DEF StrictOrder
<1> HIDE DEF R
<1>4. ASSUME S # {}
      PROVE  FirstOf(S) # {} /\ LastOf(S) # {}
  <2>1. /\ \E x \in S : \A y \in S : <<y, x>> \notin R
        /\ \E x \in S : \A y \in S : <<x, y>> \notin R
    BY <1>3, <1>4, EndsFacts
  <2> QED
    BY <2>1, <1>2 DEF FirstOf, LastOf
<1>5. (\A e, f \in FirstOf(S) : e = f) /\ (\A e, f \in LastOf(S) : e = f)
  BY <1>1, LessFacts DEF FirstOf, LastOf
<1> QED
  BY <1>4, <1>5

(* A child is at the entry where it enters a region, going forwards or     *)
(* backwards.                                                              *)
EntersAt(P, i, R) ==
  /\ P \subseteq children[i] \cap R
  /\ \A e, f \in P : e = f
  /\ \A g \in children[i] \cap R \cap Old : \E f \in P : ~ Less(g, f)
EntersBackAt(P, i, R) ==
  /\ P \subseteq children[i] \cap R
  /\ \A e, f \in P : e = f
  /\ \A g \in children[i] \cap R \cap Old : \E f \in P : ~ Less(f, g)

LEMMA ChildTypes ==
  ASSUME ChildrenInv
  PROVE  /\ All \subseteq Stored /\ All \subseteq Target
         /\ Old \subseteq All /\ Seen \subseteq Old /\ Visible \subseteq Seen
         /\ \A i \in Children : children[i] \subseteq All
         /\ \A e, f \in All : e.seq = f.seq => e = f
<1>1. \A i \in Children : children[i] \subseteq Stored /\ children[i] \subseteq All
  BY DEF ChildrenInv, All
<1>2. All \subseteq Stored
  BY <1>1 DEF All
<1>3. Seen \subseteq All
  BY DEF Seen, All
<1>4. \A e \in Seen : e.seq <= sequence_ /\ e.seq \in Nat
  BY <1>2, <1>3 DEF Seen, Stored
<1>5. Seen \subseteq Old
  BY <1>3, <1>4, IteratorsAssumption DEF Old, ChildrenInv
<1>6. \A e, f \in All : e.seq = f.seq => e = f
  BY DEF All, ChildrenInv
<1> QED
  BY <1>1, <1>2, <1>5, <1>6, StoredAreTargets DEF Old, Visible

(* Where the operations of a child put it.                                 *)
LEMMA ChildFacts ==
  ASSUME ChildrenInv, NEW i \in Children, NEW e \in Target
  PROVE  /\ EntersAt(First(i), i, All)
         /\ EntersAt(After(i, e), i, {f \in All : Less(e, f)})
         /\ EntersAt(Seek(children[i], e), i, {f \in All : ~ Less(f, e)})
         /\ EntersBackAt(Final(i), i, All)
         /\ EntersBackAt(Before(i, e), i, {f \in All : Less(f, e)})
<1> DEFINE C == children[i]
<1>1. C \subseteq Stored /\ C \subseteq All /\ IsFiniteSet(C) /\ C \subseteq Target
  BY ChildTypes DEF ChildrenInv
<1>2. ASSUME NEW S \in SUBSET C
      PROVE  /\ \A x, y \in FirstOf(S) : x = y
             /\ \A x, y \in LastOf(S) : x = y
             /\ S # {} => FirstOf(S) # {} /\ LastOf(S) # {}
  <2>1. IsFiniteSet(S)
    BY <1>1, FS_Subset
  <2> QED
    BY <1>1, <2>1, EndsExist
<1>3. ASSUME NEW R \in SUBSET All
      PROVE  EntersAt(FirstOf(C \cap R), i, R) /\ EntersBackAt(LastOf(C \cap R), i, R)
  <2>1. C \cap R \in SUBSET C
    OBVIOUS
  <2>2. /\ \A x, y \in FirstOf(C \cap R) : x = y
        /\ \A x, y \in LastOf(C \cap R) : x = y
        /\ C \cap R # {} => FirstOf(C \cap R) # {} /\ LastOf(C \cap R) # {}
    BY <1>2, <2>1
  <2> QED
    BY <2>2 DEF FirstOf, LastOf, EntersAt, EntersBackAt
<1>4. First(i) = FirstOf(C \cap All) /\ Final(i) = LastOf(C \cap All)
  BY <1>1 DEF First, Final, FirstOf, LastOf
<1>5. After(i, e) = FirstOf(C \cap {f \in All : Less(e, f)})
  BY <1>1 DEF After, FirstOf
<1>6. Before(i, e) = LastOf(C \cap {f \in All : Less(f, e)})
  BY <1>1 DEF Before, LastOf
<1>7. Seek(C, e) = FirstOf(C \cap {f \in All : ~ Less(f, e)})
  BY <1>1 DEF Seek, FirstOf
<1> QED
  BY <1>3, <1>4, <1>5, <1>6, <1>7

-----------------------------------------------------------------------------
(* MergingIterator.                                                        *)

Placed(at) ==
  /\ DOMAIN at = Children /\ at = [i \in Children |-> at[i]]
  /\ \A i \in Children : at[i] \subseteq children[i] /\ \A e, f \in at[i] : e = f

(* FindSmallest and FindLargest find the child with the first, or the last *)
(* entry.                                                                  *)
LEMMA FindFacts ==
  ASSUME ChildrenInv, NEW at, Placed(at)
  PROVE  /\ FindSmallest(at) \in {0} \cup Children /\ FindLargest(at) \in {0} \cup Children
         /\ FindSmallest(at) = 0 \/ FindLargest(at) = 0 => \A i \in Children : at[i] = {}
         /\ FindSmallest(at) # 0 =>
              /\ at[FindSmallest(at)] # {}
              /\ \A j \in Children \ {FindSmallest(at)} : \A e \in at[FindSmallest(at)], f \in at[j] : Less(e, f)
         /\ FindLargest(at) # 0 =>
              /\ at[FindLargest(at)] # {}
              /\ \A j \in Children \ {FindLargest(at)} : \A e \in at[FindLargest(at)], f \in at[j] : Less(f, e)
<1> DEFINE valid == {i \in Children : at[i] # {}}
           T == UNION {at[i] : i \in Children}
           small(i) == \A j \in valid \ {i} :
             IF j < i THEN Less(Only(at[i]), Only(at[j])) ELSE ~ Less(Only(at[j]), Only(at[i]))
           large(i) == \A j \in valid \ {i} :
             IF j > i THEN Less(Only(at[j]), Only(at[i])) ELSE ~ Less(Only(at[i]), Only(at[j]))
<1>0. 0 \notin Children /\ Children \subseteq Int
  BY IteratorsAssumption DEF Children
<1>1. CASE valid = {}
  BY <1>0, <1>1 DEF FindSmallest, FindLargest
<1>2. CASE valid # {}
  <2>1. \A i \in valid : Only(at[i]) \in at[i] /\ at[i] = {Only(at[i])}
    BY DEF Only, Placed
  <2>2. T \subseteq All /\ T \subseteq Stored /\ T # {}
    BY <1>2, ChildTypes DEF Placed
  <2>3. IsFiniteSet(T)
    <3>1. \A i \in Children : IsFiniteSet(at[i])
      BY FS_Subset DEF Placed, ChildrenInv
    <3>2. IsFiniteSet(Children)
      BY IteratorsAssumption, FS_Interval DEF Children
    <3>3. IsFiniteSet({at[i] : i \in Children})
      <4>1. at \in Surjection(Children, {at[i] : i \in Children})
        BY DEF Placed, Surjection
      <4> QED
        BY <3>2, <4>1, FS_Surjection
    <3> QED
      BY <3>1, <3>3, FS_UNION
  <2>4. \A i, j \in valid : i # j => Only(at[i]) # Only(at[j])
    BY <2>1 DEF Placed, ChildrenInv
  <2>5. \A i, j \in valid : i # j => (Less(Only(at[i]), Only(at[j])) <=> ~ Less(Only(at[j]), Only(at[i])))
    <3>1. \A i \in valid : Only(at[i]) \in Target
      BY <2>1, <2>2, ChildTypes
    <3> QED
      BY <2>4, <3>1, LessFacts
  <2>6. \E i \in valid : small(i)
    <3>1. PICK x \in T : \A y \in T : ~ Less(y, x)
      BY <2>2, <2>3, EndsExist DEF FirstOf
    <3>2. PICK i \in valid : Only(at[i]) = x
      BY <2>1, <3>1
    <3>3. \A j \in valid \ {i} : ~ Less(Only(at[j]), Only(at[i]))
      BY <2>1, <3>1, <3>2
    <3> QED
      BY <2>5, <3>3
  <2>7. \E i \in valid : large(i)
    <3>1. PICK x \in T : \A y \in T : ~ Less(x, y)
      BY <2>2, <2>3, EndsExist DEF LastOf
    <3>2. PICK i \in valid : Only(at[i]) = x
      BY <2>1, <3>1
    <3>3. \A j \in valid \ {i} : ~ Less(Only(at[i]), Only(at[j]))
      BY <2>1, <3>1, <3>2
    <3> QED
      BY <2>5, <3>3
  <2>8. FindSmallest(at) \in valid /\ small(FindSmallest(at))
    <3>1. FindSmallest(at) = CHOOSE i \in valid : small(i)
      BY <1>2 DEF FindSmallest
    <3> QED
      BY <2>6, <3>1
  <2>9. FindLargest(at) \in valid /\ large(FindLargest(at))
    <3>1. FindLargest(at) = CHOOSE i \in valid : large(i)
      BY <1>2 DEF FindLargest
    <3> QED
      BY <2>7, <3>1
  <2>10. \A j \in valid \ {FindSmallest(at)} : Less(Only(at[FindSmallest(at)]), Only(at[j]))
    BY <2>5, <2>8
  <2>11. \A j \in valid \ {FindLargest(at)} : Less(Only(at[j]), Only(at[FindLargest(at)]))
    BY <2>5, <2>9
  <2>12. /\ \A j \in Children \ {FindSmallest(at)} : \A e \in at[FindSmallest(at)], f \in at[j] : Less(e, f)
         /\ \A j \in Children \ {FindLargest(at)} : \A e \in at[FindLargest(at)], f \in at[j] : Less(f, e)
    BY <2>1, <2>8, <2>9, <2>10, <2>11
  <2> QED
    BY <1>0, <2>8, <2>9, <2>12
<1> QED
  BY <1>1, <1>2

(* Forward and Backward from children that enter a region.                 *)
LEMMA ForwardFacts ==
  ASSUME ChildrenInv, NEW R \in SUBSET All,
         \A e \in R, g \in All : Less(e, g) => g \in R,
         NEW at, DOMAIN at = Children, at = [i \in Children |-> at[i]],
         \A i \in Children : EntersAt(at[i], i, R)
  PROVE  LET m == Forward(at) IN
         /\ MergingRight(m) /\ m.direction = "forward"
         /\ m.current = 0 => R \cap Old = {}
         /\ m.current # 0 => /\ MergingKey(m) \in R
                             /\ \A g \in R \cap Old : ~ Less(g, MergingKey(m))
<1> DEFINE m == Forward(at)
           c == FindSmallest(at)
           key == Only(at[c])
<1>1. m.at = at /\ m.current = c /\ m.direction = "forward" /\ MergingKey(m) = key
  BY DEF Forward, MergingKey
<1>2. Placed(at)
  BY DEF Placed, EntersAt
<1>3. /\ c \in {0} \cup Children
      /\ c = 0 => \A i \in Children : at[i] = {}
      /\ c # 0 => at[c] # {} /\ \A j \in Children \ {c} : \A e \in at[c], f \in at[j] : Less(e, f)
  BY <1>2, FindFacts
<1>4. c = 0 => R \cap Old = {}
  BY <1>3, ChildTypes DEF EntersAt, Old, All
<1> HIDE DEF c, m
<1>5. ASSUME c # 0
      PROVE  /\ key \in R /\ key \in at[c]
             /\ \A g \in R \cap Old : ~ Less(g, key)
             /\ OthersAfter(m)
  <2>1. key \in at[c] /\ key \in R /\ key \in All
    BY <1>3, <1>5 DEF Only, EntersAt
  <2>2. \A i \in Children \ {c} : \A f \in at[i] : Less(key, f) /\ f \in All
    BY <1>3, <1>5, <2>1 DEF EntersAt
  <2>3. ASSUME NEW g \in R \cap Old
        PROVE  ~ Less(g, key)
    <3>1. PICK i \in Children : g \in children[i]
      BY DEF Old, All
    <3>2. PICK f \in at[i] : ~ Less(g, f)
      BY <3>1 DEF EntersAt
    <3>3. f = key \/ Less(key, f)
      BY <1>2, <2>1, <2>2 DEF Placed
    <3>4. key \in Target /\ f \in Target /\ g \in Target
      BY <2>1, <3>1, <3>2, ChildTypes DEF EntersAt
    <3> QED
      BY <3>2, <3>3, <3>4, LessFacts
  <2>4. ASSUME NEW i \in Children \ {c}, NEW g \in children[i] \cap Old, Less(key, g)
        PROVE  \E f \in at[i] : ~ Less(g, f)
    BY <2>1, <2>4 DEF EntersAt, Old
  <2> QED
    BY <1>1, <2>1, <2>2, <2>3, <2>4 DEF OthersAfter
<1>6. MergingRight(m)
  BY <1>1, <1>2, <1>3, <1>5 DEF MergingRight, Placed
<1> QED
  BY <1>1, <1>4, <1>5, <1>6 DEF m

LEMMA BackwardFacts ==
  ASSUME ChildrenInv, NEW R \in SUBSET All,
         \A e \in R, g \in All : Less(g, e) => g \in R,
         NEW at, DOMAIN at = Children, at = [i \in Children |-> at[i]],
         \A i \in Children : EntersBackAt(at[i], i, R)
  PROVE  LET m == Backward(at) IN
         /\ MergingRight(m) /\ m.direction = "reverse"
         /\ m.current = 0 => R \cap Old = {}
         /\ m.current # 0 => /\ MergingKey(m) \in R
                             /\ \A g \in R \cap Old : ~ Less(MergingKey(m), g)
<1> DEFINE m == Backward(at)
           c == FindLargest(at)
           key == Only(at[c])
<1>1. m.at = at /\ m.current = c /\ m.direction = "reverse" /\ MergingKey(m) = key
  BY DEF Backward, MergingKey
<1>2. Placed(at)
  BY DEF Placed, EntersBackAt
<1>3. /\ c \in {0} \cup Children
      /\ c = 0 => \A i \in Children : at[i] = {}
      /\ c # 0 => at[c] # {} /\ \A j \in Children \ {c} : \A e \in at[c], f \in at[j] : Less(f, e)
  BY <1>2, FindFacts
<1>4. c = 0 => R \cap Old = {}
  BY <1>3, ChildTypes DEF EntersBackAt, Old, All
<1> HIDE DEF c, m
<1>5. ASSUME c # 0
      PROVE  /\ key \in R /\ key \in at[c]
             /\ \A g \in R \cap Old : ~ Less(key, g)
             /\ OthersBefore(m)
  <2>1. key \in at[c] /\ key \in R /\ key \in All
    BY <1>3, <1>5 DEF Only, EntersBackAt
  <2>2. \A i \in Children \ {c} : \A f \in at[i] : Less(f, key) /\ f \in All
    BY <1>3, <1>5, <2>1 DEF EntersBackAt
  <2>3. ASSUME NEW g \in R \cap Old
        PROVE  ~ Less(key, g)
    <3>1. PICK i \in Children : g \in children[i]
      BY DEF Old, All
    <3>2. PICK f \in at[i] : ~ Less(f, g)
      BY <3>1 DEF EntersBackAt
    <3>3. f = key \/ Less(f, key)
      BY <1>2, <2>1, <2>2 DEF Placed
    <3>4. key \in Target /\ f \in Target /\ g \in Target
      BY <2>1, <3>1, <3>2, ChildTypes DEF EntersBackAt
    <3> QED
      BY <3>2, <3>3, <3>4, LessFacts
  <2>4. ASSUME NEW i \in Children \ {c}, NEW g \in children[i] \cap Old, Less(g, key)
        PROVE  \E f \in at[i] : ~ Less(f, g)
    BY <2>1, <2>4 DEF EntersBackAt, Old
  <2> QED
    BY <1>1, <2>1, <2>2, <2>3, <2>4 DEF OthersBefore
<1>6. MergingRight(m)
  BY <1>1, <1>2, <1>3, <1>5 DEF MergingRight, Placed
<1> QED
  BY <1>1, <1>4, <1>5, <1>6 DEF m

(* The key is one of the entries.                                          *)
LEMMA KeyFacts ==
  ASSUME ChildrenInv, NEW m, MergingRight(m), m.current # 0
  PROVE  /\ m.current \in Children /\ m.at[m.current] = {MergingKey(m)}
         /\ MergingKey(m) \in children[m.current]
         /\ MergingKey(m) \in All /\ MergingKey(m) \in Target
         /\ MergingKey(m).key \in UserKeys
<1>1. m.current \in Children /\ m.at[m.current] # {}
  BY DEF MergingRight
<1>2. MergingKey(m) \in m.at[m.current] /\ m.at[m.current] = {MergingKey(m)}
  BY <1>1 DEF MergingRight, MergingKey, Only
<1>3. MergingKey(m) \in children[m.current]
  BY <1>1, <1>2 DEF MergingRight
<1>4. MergingKey(m) \in All /\ All \subseteq Target /\ All \subseteq Stored
  BY <1>1, <1>3, ChildTypes
<1> QED
  BY <1>1, <1>2, <1>3, <1>4 DEF Stored

(* From where it is, MergingIterator enters what comes after, or before,   *)
(* its key, also when the direction changes.                               *)
LEMMA MergingNextFacts ==
  ASSUME ChildrenInv, NEW m, MergingRight(m), m.current # 0
  PROVE  LET n == MergingNext(m) IN
         /\ MergingRight(n) /\ n.direction = "forward"
         /\ n.current = 0 => \A g \in Old : ~ Less(MergingKey(m), g)
         /\ n.current # 0 => /\ Less(MergingKey(m), MergingKey(n))
                             /\ \A g \in Old : Less(MergingKey(m), g) => ~ Less(g, MergingKey(n))
<1> DEFINE key == MergingKey(m)
           R == {f \in All : Less(key, f)}
           past(i) == LET s == Seek(children[i], key) IN IF s = {key} THEN After(i, key) ELSE s
           at == [i \in Children |->
                    IF i = m.current THEN After(i, key)
                    ELSE IF m.direction = "forward" THEN m.at[i] ELSE past(i)]
<1>0. key \in All /\ key \in Target /\ m.current \in Children /\ key \in children[m.current]
  BY KeyFacts
<1>1. MergingNext(m) = Forward(at)
  BY DEF MergingNext
<1>2. \A e \in R, g \in All : Less(e, g) => g \in R
  BY <1>0, LessFacts, ChildTypes
<1>3. ASSUME NEW i \in Children
      PROVE  EntersAt(at[i], i, R)
  <2>1. /\ EntersAt(After(i, key), i, R)
        /\ EntersAt(Seek(children[i], key), i, {f \in All : ~ Less(f, key)})
    BY <1>0, ChildFacts
  <2>2. CASE i = m.current
    BY <2>1, <2>2
  <2>3. CASE i # m.current /\ m.direction = "forward"
    BY <2>3, ChildTypes DEF EntersAt, MergingRight, OthersAfter
  <2>4. CASE i # m.current /\ m.direction # "forward"
    <3>1. at[i] = past(i)
      BY <2>4
    <3>2. key \notin children[i]
      BY <1>0, <2>4 DEF ChildrenInv
    <3>3. past(i) = Seek(children[i], key)
      BY <2>1, <3>2 DEF EntersAt
    <3>4. \A f \in children[i] : ~ Less(f, key) <=> Less(key, f)
      BY <1>0, <3>2, LessFacts, ChildTypes
    <3>5. EntersAt(Seek(children[i], key), i, R)
      BY <2>1, <3>4 DEF EntersAt
    <3> QED
      BY <3>1, <3>3, <3>5
  <2> QED
    BY <2>2, <2>3, <2>4
<1>4. R \in SUBSET All /\ DOMAIN at = Children /\ at = [i \in Children |-> at[i]]
  OBVIOUS
<1> HIDE DEF at
<1>5. LET n == Forward(at) IN
      /\ MergingRight(n) /\ n.direction = "forward"
      /\ n.current = 0 => R \cap Old = {}
      /\ n.current # 0 => /\ MergingKey(n) \in R
                          /\ \A g \in R \cap Old : ~ Less(g, MergingKey(n))
  BY <1>2, <1>3, <1>4, ForwardFacts
<1> QED
  BY <1>1, <1>5, ChildTypes

LEMMA MergingPrevFacts ==
  ASSUME ChildrenInv, NEW m, MergingRight(m), m.current # 0
  PROVE  LET n == MergingPrev(m) IN
         /\ MergingRight(n) /\ n.direction = "reverse"
         /\ n.current = 0 => \A g \in Old : ~ Less(g, MergingKey(m))
         /\ n.current # 0 => /\ Less(MergingKey(n), MergingKey(m))
                             /\ \A g \in Old : Less(g, MergingKey(m)) => ~ Less(MergingKey(n), g)
<1> DEFINE key == MergingKey(m)
           R == {f \in All : Less(f, key)}
           ahead(i) == LET s == Seek(children[i], key) IN
                       IF s # {} THEN Before(i, Only(s)) ELSE Final(i)
           at == [i \in Children |->
                    IF i = m.current THEN Before(i, key)
                    ELSE IF m.direction = "reverse" THEN m.at[i] ELSE ahead(i)]
<1>0. key \in All /\ key \in Target /\ m.current \in Children /\ key \in children[m.current]
  BY KeyFacts
<1>1. MergingPrev(m) = Backward(at)
  BY DEF MergingPrev
<1>2. \A e \in R, g \in All : Less(g, e) => g \in R
  BY <1>0, LessFacts, ChildTypes
<1>3. ASSUME NEW i \in Children
      PROVE  EntersBackAt(at[i], i, R)
  <2>1. CASE i = m.current
    BY <1>0, <2>1, ChildFacts
  <2>2. CASE i # m.current /\ m.direction = "reverse"
    BY <2>2, ChildTypes DEF EntersBackAt, MergingRight, OthersBefore
  <2>3. CASE i # m.current /\ m.direction # "reverse"
    <3> DEFINE s == Seek(children[i], key)
    <3>1. at[i] = ahead(i) /\ m.direction = "forward"
      BY <2>3 DEF MergingRight
    <3>2. EntersAt(s, i, {f \in All : ~ Less(f, key)})
      BY <1>0, ChildFacts
    <3>3. CASE s # {}
      <4> DEFINE x == Only(s)
      <4>1. s = {x} /\ x \in children[i] /\ x \in All /\ ~ Less(x, key)
        BY <3>2, <3>3 DEF EntersAt, Only
      <4>2. \A f \in children[i] : Less(f, x) => Less(f, key)
        BY <4>1 DEF Seek
      <4>3. EntersBackAt(Before(i, x), i, {f \in All : Less(f, x)})
        BY <4>1, ChildFacts, ChildTypes
      <4>4. \A f \in children[i] : Less(f, x) <=> Less(f, key)
        BY <1>0, <4>1, <4>2, LessFacts, ChildTypes
      <4>5. EntersBackAt(Before(i, x), i, R)
        BY <4>3, <4>4 DEF EntersBackAt
      <4> QED
        BY <3>1, <3>3, <4>5
    <3>4. CASE s = {}
      <4>1. EntersBackAt(Final(i), i, All)
        BY <1>0, ChildFacts
      <4>2. ASSUME NEW f \in children[i]
            PROVE  Less(f, key)
        <5>1. SUFFICES ASSUME ~ Less(f, key)
                       PROVE  FALSE
          OBVIOUS
        <5> DEFINE S == {g \in children[i] : ~ Less(g, key)}
        <5>2. S \subseteq Stored /\ IsFiniteSet(S) /\ S # {}
          <6>1. IsFiniteSet(children[i]) /\ children[i] \subseteq Stored
            BY DEF ChildrenInv
          <6> QED
            BY <5>1, <6>1, FS_Subset
        <5>3. PICK g \in S : \A h \in S : ~ Less(h, g)
          BY <5>2, EndsExist DEF FirstOf
        <5>4. g \in s
          BY <5>3 DEF Seek
        <5> QED
          BY <3>4, <5>4
      <4>3. EntersBackAt(Final(i), i, R)
        BY <4>1, <4>2, ChildTypes DEF EntersBackAt
      <4> QED
        BY <3>1, <3>4, <4>3
    <3> QED
      BY <3>3, <3>4
  <2> QED
    BY <2>1, <2>2, <2>3
<1>4. R \in SUBSET All /\ DOMAIN at = Children /\ at = [i \in Children |-> at[i]]
  OBVIOUS
<1> HIDE DEF at
<1>5. LET n == Backward(at) IN
      /\ MergingRight(n) /\ n.direction = "reverse"
      /\ n.current = 0 => R \cap Old = {}
      /\ n.current # 0 => /\ MergingKey(n) \in R
                          /\ \A g \in R \cap Old : ~ Less(MergingKey(n), g)
  BY <1>2, <1>3, <1>4, BackwardFacts
<1> QED
  BY <1>1, <1>5, ChildTypes

(* Where it is sought to the ends, and to a key.                           *)
LEMMA MergingSeekFacts ==
  ASSUME ChildrenInv, NEW t \in Target
  PROVE  /\ LET n == MergingSeekToFirst IN
            /\ MergingRight(n) /\ n.direction = "forward"
            /\ n.current = 0 => Old = {}
            /\ n.current # 0 => \A g \in Old : ~ Less(g, MergingKey(n))
         /\ LET n == MergingSeekToLast IN
            /\ MergingRight(n) /\ n.direction = "reverse"
            /\ n.current = 0 => Old = {}
            /\ n.current # 0 => \A g \in Old : ~ Less(MergingKey(n), g)
         /\ LET n == MergingSeek(t) IN
            /\ MergingRight(n) /\ n.direction = "forward"
            /\ n.current = 0 => \A g \in Old : Less(g, t)
            /\ n.current # 0 => /\ ~ Less(MergingKey(n), t)
                                /\ \A g \in Old : ~ Less(g, t) => ~ Less(g, MergingKey(n))
<1>0. Old \subseteq All /\ All \subseteq Target
  BY ChildTypes
<1>1. LET n == MergingSeekToFirst IN
      /\ MergingRight(n) /\ n.direction = "forward"
      /\ n.current = 0 => Old = {}
      /\ n.current # 0 => \A g \in Old : ~ Less(g, MergingKey(n))
  <2> DEFINE at == [i \in Children |-> First(i)]
  <2>1. \A i \in Children : EntersAt(at[i], i, All)
    BY ChildFacts
  <2>2. DOMAIN at = Children /\ at = [i \in Children |-> at[i]] /\ MergingSeekToFirst = Forward(at)
    BY DEF MergingSeekToFirst
  <2>3. All \in SUBSET All /\ \A e \in All, g \in All : Less(e, g) => g \in All
    OBVIOUS
  <2> HIDE DEF at
  <2>4. LET n == Forward(at) IN
        /\ MergingRight(n) /\ n.direction = "forward"
        /\ n.current = 0 => All \cap Old = {}
        /\ n.current # 0 => /\ MergingKey(n) \in All
                            /\ \A g \in All \cap Old : ~ Less(g, MergingKey(n))
    BY <2>1, <2>2, <2>3, ForwardFacts
  <2> QED
    BY <1>0, <2>2, <2>4
<1>2. LET n == MergingSeekToLast IN
      /\ MergingRight(n) /\ n.direction = "reverse"
      /\ n.current = 0 => Old = {}
      /\ n.current # 0 => \A g \in Old : ~ Less(MergingKey(n), g)
  <2> DEFINE at == [i \in Children |-> Final(i)]
  <2>1. \A i \in Children : EntersBackAt(at[i], i, All)
    BY ChildFacts
  <2>2. DOMAIN at = Children /\ at = [i \in Children |-> at[i]] /\ MergingSeekToLast = Backward(at)
    BY DEF MergingSeekToLast
  <2>3. All \in SUBSET All /\ \A e \in All, g \in All : Less(g, e) => g \in All
    OBVIOUS
  <2> HIDE DEF at
  <2>4. LET n == Backward(at) IN
        /\ MergingRight(n) /\ n.direction = "reverse"
        /\ n.current = 0 => All \cap Old = {}
        /\ n.current # 0 => /\ MergingKey(n) \in All
                            /\ \A g \in All \cap Old : ~ Less(MergingKey(n), g)
    BY <2>1, <2>2, <2>3, BackwardFacts
  <2> QED
    BY <1>0, <2>2, <2>4
<1>3. LET n == MergingSeek(t) IN
      /\ MergingRight(n) /\ n.direction = "forward"
      /\ n.current = 0 => \A g \in Old : Less(g, t)
      /\ n.current # 0 => /\ ~ Less(MergingKey(n), t)
                          /\ \A g \in Old : ~ Less(g, t) => ~ Less(g, MergingKey(n))
  <2> DEFINE at == [i \in Children |-> Seek(children[i], t)]
             R == {f \in All : ~ Less(f, t)}
  <2>1. \A i \in Children : EntersAt(at[i], i, R)
    BY ChildFacts
  <2>2. DOMAIN at = Children /\ at = [i \in Children |-> at[i]] /\ MergingSeek(t) = Forward(at)
    BY DEF MergingSeek
  <2>3. R \in SUBSET All /\ \A e \in R, g \in All : Less(e, g) => g \in R
    BY <1>0, LessFacts
  <2> HIDE DEF at
  <2>4. LET n == Forward(at) IN
        /\ MergingRight(n) /\ n.direction = "forward"
        /\ n.current = 0 => R \cap Old = {}
        /\ n.current # 0 => /\ MergingKey(n) \in R
                            /\ \A g \in R \cap Old : ~ Less(g, MergingKey(n))
    BY <2>1, <2>2, <2>3, ForwardFacts
  <2> QED
    BY <1>0, <2>2, <2>4
<1> QED
  BY <1>1, <1>2, <1>3

-----------------------------------------------------------------------------
(* What a snapshot shows.                                                  *)

LEMMA SeenFacts ==
  ASSUME ChildrenInv
  PROVE  /\ \A e \in All : e \in Seen <=> Shown(e)
         /\ \A e \in Seen : /\ e \in Old /\ e \in All /\ e \in Target
                            /\ e.key \in UserKeys /\ e.key \in Nat /\ e.seq \in Nat
                            /\ e.seq <= sequence_ /\ e.type \in {kTypeDeletion, kTypeValue}
         /\ \A v \in Visible : /\ v \in Seen /\ v.type = kTypeValue
                               /\ \A f \in Seen : f.key = v.key => ~ Less(f, v)
         /\ \A v, w \in Visible : v.key = w.key => v = w
<1>1. \A e \in All : e \in Seen <=> Shown(e)
  BY DEF Seen, All, Shown
<1>2. \A e \in Seen : /\ e \in Old /\ e \in All /\ e \in Target
                      /\ e.key \in UserKeys /\ e.key \in Nat /\ e.seq \in Nat
                      /\ e.seq <= sequence_ /\ e.type \in {kTypeDeletion, kTypeValue}
  <2>1. \A e \in Seen : e \in Old /\ e \in All /\ e \in Stored /\ e \in Target
    BY ChildTypes
  <2>2. \A e \in Seen : e.seq <= sequence_ /\ e.type # kTypeUnknown
    BY DEF Seen
  <2>3. \A e \in Stored : /\ e.key \in UserKeys /\ e.seq \in Nat
                         /\ e.type \in {kTypeDeletion, kTypeValue, kTypeUnknown}
    BY DEF Stored
  <2> QED
    BY <2>1, <2>2, <2>3, StoredAreTargets
<1>3. \A v \in Visible : v \in Seen /\ v.type = kTypeValue
                         /\ \A f \in Seen : f.key = v.key => f.seq <= v.seq
  BY DEF Visible
<1>4. \A v, w \in Visible : v.key = w.key => v = w
  <2>1. \A v, w \in Visible : v.key = w.key => v.seq = w.seq
    BY <1>2, <1>3
  <2> QED
    BY <1>2, <1>3, <2>1, ChildTypes
<1>5. \A v \in Visible, f \in Seen : f.key = v.key => ~ Less(f, v)
  <2> SUFFICES ASSUME NEW v \in Visible, NEW f \in Seen, f.key = v.key, Less(f, v)
               PROVE  FALSE
    OBVIOUS
  <2>1. f \in Target /\ v \in Target /\ f.seq <= v.seq /\ f.seq \in Nat /\ v.seq \in Nat
    BY <1>2, <1>3
  <2>2. v.seq = f.seq
    BY <2>1, LessFacts
  <2>3. v = f
    BY <1>2, <1>3, <2>2, ChildTypes
  <2> QED
    BY <2>1, <2>3, LessFacts
<1> QED
  BY <1>1, <1>2, <1>3, <1>4, <1>5

(* The first and the last of some visible entries in the order of internal *)
(* keys have the lowest and the highest user key.                          *)
LEMMA OutermostFacts ==
  ASSUME ChildrenInv, NEW S, S \subseteq Visible
  PROVE  /\ Lowest({}) = {} /\ Highest({}) = {}
         /\ \A e \in S : (\A v \in S : ~ Less(v, e)) => Lowest(S) = {e}
         /\ \A e \in S : (\A v \in S : ~ Less(e, v)) => Highest(S) = {e}
<1>1. \A v \in S : v \in Target /\ v.key \in Nat
  BY SeenFacts
<1>2. \A v, w \in S : v.key = w.key => v = w
  BY SeenFacts
<1>3. ASSUME NEW e \in S, \A v \in S : ~ Less(v, e)
      PROVE  Lowest(S) = {e}
  <2>1. \A v \in S : e.key <= v.key
    BY <1>1, <1>3, LessFacts
  <2> QED
    BY <1>1, <1>2, <2>1 DEF Lowest
<1>4. ASSUME NEW e \in S, \A v \in S : ~ Less(e, v)
      PROVE  Highest(S) = {e}
  <2>1. \A v \in S : v.key <= e.key
    BY <1>1, <1>4, LessFacts
  <2> QED
    BY <1>1, <1>2, <2>1 DEF Highest
<1> QED
  BY <1>3, <1>4 DEF Lowest, Highest

-----------------------------------------------------------------------------
(* One turn of FindNextUserEntry: it stops at the entry that is sought, or *)
(* goes on.                                                                *)
LEMMA FindNextFacts ==
  ASSUME ChildrenInv, NEW m, MergingRight(m), NEW skip \in BOOLEAN, NEW saved, NEW target,
         NextRight(m, skip, saved, target)
  PROVE  LET e == MergingKey(m)
             n == MergingNext(m)
             deleted == Shown(e) /\ e.type = kTypeDeletion
             hidden == skip /\ e.key <= Only(saved)
             stops == Shown(e) /\ e.type = kTypeValue /\ ~ hidden
         IN  /\ stops => e \in Visible /\ target = {e}
             /\ ~ stops => IF n.current = 0 THEN target = {}
                           ELSE NextRight(n, skip \/ deleted, IF deleted THEN {e.key} ELSE saved, target)
<1> DEFINE e == MergingKey(m)
           n == MergingNext(m)
           deleted == Shown(e) /\ e.type = kTypeDeletion
           hidden == skip /\ e.key <= Only(saved)
           stops == Shown(e) /\ e.type = kTypeValue /\ ~ hidden
           skip1 == skip \/ deleted
           saved1 == IF deleted THEN {e.key} ELSE saved
           S == {v \in Visible : ToCome(m, v) /\ ~ Hiding(skip, saved, v.key)}
           S1 == {v \in Visible : Less(e, v) /\ ~ Hiding(skip1, saved1, v.key)}
<1>1. m.current # 0 /\ m.direction = "forward" /\ target = Lowest(S)
      /\ (skip => \E k \in UserKeys : saved = {k})
      /\ (\A g \in Seen : Less(g, e) /\ g.key = e.key => Hiding(skip, saved, g.key))
      /\ (skip => \A g \in Seen : ToCome(m, g) => Only(saved) <= g.key)
  BY DEF NextRight
<1>2. e \in All /\ e \in Target /\ e.key \in UserKeys /\ e.key \in Nat
  BY <1>1, KeyFacts, StoredAreTargets
<1>3. \A g : ToCome(m, g) <=> ~ Less(g, e)
  BY <1>1 DEF ToCome
<1>4. /\ MergingRight(n) /\ n.direction = "forward"
      /\ n.current = 0 => \A g \in Old : ~ Less(e, g)
      /\ n.current # 0 => /\ Less(e, MergingKey(n))
                          /\ \A g \in Old : Less(e, g) => ~ Less(g, MergingKey(n))
  BY <1>1, MergingNextFacts
<1>5. \A v \in Visible : v \in Seen /\ v \in Old /\ v \in Target /\ v.key \in Nat /\ v.type = kTypeValue
  BY SeenFacts
<1>6. e \in Seen <=> Shown(e)
  BY <1>2, SeenFacts
<1>7. skip => Only(saved) \in Nat /\ saved = {Only(saved)}
  BY <1>1, StoredAreTargets DEF Only
<1> HIDE DEF e, n
<1>8. ASSUME stops
      PROVE  e \in Visible /\ target = {e}
  <2>1. \A f \in Seen : f.key = e.key => ~ Less(f, e)
    BY <1>1, <1>8 DEF Hiding
  <2>2. \A f \in Seen : f.key = e.key => f.seq <= e.seq
    <3>1. \A f \in Seen : f \in Target /\ f.seq \in Nat
      BY SeenFacts
    <3>2. e.seq \in Nat
      BY <1>2 DEF Target
    <3> QED
      BY <1>2, <2>1, <3>1, <3>2, LessFacts
  <2>3. e \in Visible
    BY <1>6, <1>8, <2>2 DEF Visible
  <2>4. e \in S
    BY <1>2, <1>3, <1>8, <2>3, LessFacts DEF Hiding
  <2>5. \A v \in S : ~ Less(v, e)
    BY <1>3
  <2>6. S \subseteq Visible
    OBVIOUS
  <2> HIDE DEF S
  <2> QED
    BY <1>1, <2>3, <2>4, <2>5, <2>6, OutermostFacts
<1>9. ASSUME ~ stops
      PROVE  IF n.current = 0 THEN target = {} ELSE NextRight(n, skip1, saved1, target)
  <2>0. deleted => Only(saved1) = e.key
    BY DEF Only
  <2>1. \A v \in Visible : v # e \/ Hiding(skip, saved, v.key)
    BY <1>5, <1>6, <1>9, SeenFacts DEF Hiding, kTypeValue, kTypeDeletion
  <2>2. ASSUME NEW v \in Visible
        PROVE  v \in S <=> v \in S1
    <3>1. CASE deleted
      <4>1. e \in Seen /\ v # e
        BY <1>5, <1>6, <3>1 DEF kTypeValue, kTypeDeletion
      <4>2. Less(e, v) <=> ~ Less(v, e)
        BY <1>2, <1>5, <4>1, LessFacts
      <4>3. Less(e, v) => e.key < v.key
        <5>1. Less(e, v) => e.key <= v.key
          BY <1>2, <1>5, LessFacts
        <5>2. e.key = v.key => ~ Less(e, v)
          BY <4>1, SeenFacts
        <5> QED
          BY <1>2, <1>5, <5>1, <5>2
      <4>4. Hiding(skip1, saved1, v.key) <=> v.key <= e.key
        BY <2>0, <3>1 DEF Hiding
      <4>5. skip => Only(saved) <= e.key
        BY <1>1, <1>2, <1>3, <4>1, LessFacts
      <4>6. Less(e, v) => ~ Hiding(skip, saved, v.key) /\ ~ Hiding(skip1, saved1, v.key)
        BY <1>2, <1>5, <1>7, <4>3, <4>4, <4>5 DEF Hiding
      <4> QED
        BY <1>3, <4>2, <4>6
    <3>2. CASE ~ deleted
      <4>1. skip1 = skip /\ saved1 = saved
        BY <3>2
      <4>2. v # e => (Less(e, v) <=> ~ Less(v, e))
        BY <1>2, <1>5, LessFacts
      <4> QED
        BY <1>3, <2>1, <4>1, <4>2, <1>2, LessFacts
    <3> QED
      BY <3>1, <3>2
  <2>3. S = S1
    BY <2>2
  <2>4. CASE n.current = 0
    <3>1. S1 = {}
      BY <1>4, <1>5, <2>4
    <3> QED
      BY <1>1, <2>3, <2>4, <3>1, OutermostFacts
  <2>5. CASE n.current # 0
    <3> DEFINE e1 == MergingKey(n)
    <3>1. e1 \in Target /\ Less(e, e1) /\ (\A g \in Old : Less(e, g) => ~ Less(g, e1)) /\ e1.key \in Nat
      BY <1>4, <2>5, KeyFacts, StoredAreTargets
    <3>2. \A g : ToCome(n, g) <=> ~ Less(g, e1)
      BY <2>5 DEF ToCome
    <3>3. \A g \in Seen : g \in Target /\ g \in Old /\ g.key \in Nat
      BY SeenFacts
    <3> HIDE DEF e1
    <3>4. \A g \in Seen : ToCome(n, g) <=> Less(e, g)
      BY <1>2, <3>1, <3>2, <3>3, LessFacts
    <3>5. S1 = {v \in Visible : ToCome(n, v) /\ ~ Hiding(skip1, saved1, v.key)}
      BY <1>5, <3>4
    <3>6. skip1 => \E k \in UserKeys : saved1 = {k}
      BY <1>1, <1>2
    <3>7. ASSUME NEW g \in Seen, Less(g, e1), g.key = e1.key
          PROVE  Hiding(skip1, saved1, g.key)
      <4>1. ~ Less(e, g)
        BY <3>2, <3>4, <3>7
      <4>2. e.key <= e1.key
        BY <1>2, <3>1, LessFacts
      <4>3. CASE g = e
        BY <1>2, <1>6, <1>9, <2>0, <4>3, SeenFacts DEF Hiding
      <4>4. CASE g # e
        <5>1. Less(g, e) /\ g.key <= e.key
          BY <1>2, <3>3, <4>1, <4>4, LessFacts
        <5>2. g.key = e.key
          BY <1>2, <3>1, <3>3, <3>7, <4>2, <5>1
        <5>3. Hiding(skip, saved, g.key)
          BY <1>1, <5>1, <5>2
        <5> QED
          BY <1>2, <2>0, <5>2, <5>3 DEF Hiding
      <4> QED
        BY <4>3, <4>4
    <3>8. ASSUME skip1, NEW g \in Seen, ToCome(n, g)
          PROVE  Only(saved1) <= g.key
      <4>1. Less(e, g)
        BY <3>4, <3>8
      <4>2. CASE deleted
        BY <1>2, <2>0, <3>3, <4>1, <4>2, LessFacts
      <4>3. CASE ~ deleted
        <5>1. ~ Less(g, e)
          BY <1>2, <3>3, <4>1, LessFacts
        <5> QED
          BY <1>1, <1>3, <3>8, <4>3, <5>1
      <4> QED
        BY <4>2, <4>3
    <3> HIDE DEF skip1, saved1
    <3> QED
      BY <1>1, <1>4, <2>3, <2>5, <3>5, <3>6, <3>7, <3>8 DEF NextRight, e1
  <2> QED
    BY <2>4, <2>5
<1> QED
  BY <1>8, <1>9 DEF e, n

-----------------------------------------------------------------------------
(* One turn of FindPrevUserEntry.                                          *)

SoughtBack(m, target) == target = Highest({v \in Visible : ToComeBack(m, v)})

(* When a value saved has no newer entry to come, it is what is sought.    *)
LEMMA SavedFacts ==
  ASSUME ChildrenInv, NEW m, NEW c \in Seen, NEW target, SavedRight(m, c, target),
         \A g \in Seen : ToComeBack(m, g) => g.key # c.key
  PROVE  /\ target = {c} /\ c \in Visible
         /\ \A g \in Seen : g.key < c.key => ToComeBack(m, g)
<1>1. target = {c} /\ c.type = kTypeValue /\ \A g \in Seen : Less(g, c) => ToComeBack(m, g)
  BY DEF SavedRight
<1>2. \A f \in Seen : f \in Target /\ f.seq \in Nat
  BY SeenFacts
<1>3. \A f \in Seen : f.key = c.key => f.seq <= c.seq
  BY <1>1, <1>2, LessFacts
<1>4. \A g \in Seen : g.key < c.key => Less(g, c)
  BY <1>2, LessFacts
<1> QED
  BY <1>1, <1>3, <1>4 DEF Visible

LEMMA FindPrevFacts ==
  ASSUME ChildrenInv, NEW m, MergingRight(m), m.current # 0, NEW target
  PROVE  LET e == MergingKey(m)
             n == MergingPrev(m)
         IN  /\ SoughtBack(m, target) =>
                  IF Shown(e) /\ e.type = kTypeValue THEN e \in Seen /\ SavedRight(n, e, target)
                  ELSE SoughtBack(n, target)
             /\ \A c \in Seen : SavedRight(m, c, target) =>
                  IF ~ Shown(e) THEN SavedRight(n, c, target)
                  ELSE IF e.key < c.key
                  THEN \A g \in Seen : ToComeBack(m, g) => g.key # c.key
                  ELSE SoughtBack(m, target)
<1> DEFINE e == MergingKey(m)
           n == MergingPrev(m)
<1>1. e \in All /\ e \in Target /\ e.key \in UserKeys /\ e.key \in Nat
  BY KeyFacts, StoredAreTargets
<1>2. \A g : ToComeBack(m, g) <=> ~ Less(e, g)
  BY DEF ToComeBack
<1>3. /\ MergingRight(n) /\ n.direction = "reverse"
      /\ n.current = 0 => \A g \in Old : ~ Less(g, e)
      /\ n.current # 0 => /\ Less(MergingKey(n), e)
                          /\ \A g \in Old : Less(g, e) => ~ Less(MergingKey(n), g)
  BY MergingPrevFacts
<1>4. n.current # 0 => MergingKey(n) \in Target
  BY <1>3, KeyFacts
<1>5. e \in Seen <=> Shown(e)
  BY <1>1, SeenFacts
<1>6. \A g \in Seen : g \in Target /\ g \in Old /\ g.key \in Nat /\ g.type \in {kTypeDeletion, kTypeValue}
  BY SeenFacts
<1> HIDE DEF e, n
<1>7. \A g \in Seen : ToComeBack(n, g) <=> Less(g, e)
  BY <1>1, <1>3, <1>4, <1>6, LessFacts DEF ToComeBack
<1>8. \A g \in Seen : ToComeBack(n, g) <=> ToComeBack(m, g) /\ g # e
  BY <1>1, <1>2, <1>6, <1>7, LessFacts
<1>9. Visible \subseteq Seen
  BY SeenFacts
<1> DEFINE S == {v \in Visible : ToComeBack(m, v)}
           S1 == {v \in Visible : ToComeBack(n, v)}
<1>10. ASSUME SoughtBack(m, target)
       PROVE  IF Shown(e) /\ e.type = kTypeValue THEN e \in Seen /\ SavedRight(n, e, target)
              ELSE SoughtBack(n, target)
  <2>1. target = Highest(S)
    BY <1>10 DEF SoughtBack
  <2>2. ASSUME e \notin Visible
        PROVE  SoughtBack(n, target)
    <3>1. S = S1
      BY <1>8, <1>9, <2>2
    <3> QED
      BY <2>1, <3>1 DEF SoughtBack
  <2>3. CASE Shown(e) /\ e.type = kTypeValue
    <3>1. e \in Seen /\ ~ ToComeBack(n, e) /\ \A g \in Seen : Less(g, e) => ToComeBack(n, g)
      BY <1>5, <1>7, <1>8, <2>3
    <3>2. CASE \E g \in Seen : g.key = e.key /\ ToComeBack(n, g)
      <4>1. e \notin Visible
        BY <1>7, <3>2, SeenFacts
      <4>2. target = Highest(S1)
        BY <2>2, <4>1 DEF SoughtBack
      <4> QED
        BY <2>3, <3>1, <3>2, <4>2 DEF SavedRight
    <3>3. CASE \A g \in Seen : ToComeBack(n, g) => g.key # e.key
      <4>1. \A f \in Seen : f.key = e.key => f.seq <= e.seq
        <5>1. \A f \in Seen : f.seq \in Nat
          BY SeenFacts
        <5> QED
          BY <1>1, <1>6, <1>7, <3>1, <3>3, <5>1, LessFacts
      <4>2. e \in Visible
        BY <2>3, <3>1, <4>1 DEF Visible
      <4>3. e \in S
        BY <1>1, <1>2, <4>2, LessFacts
      <4>4. \A v \in S : ~ Less(e, v)
        BY <1>2
      <4>5. S \subseteq Visible
        OBVIOUS
      <4> HIDE DEF S
      <4>6. target = {e}
        BY <2>1, <4>3, <4>4, <4>5, OutermostFacts
      <4> QED
        BY <2>3, <3>1, <3>3, <4>6 DEF SavedRight
    <3> QED
      BY <3>1, <3>2, <3>3
  <2>4. CASE ~ (Shown(e) /\ e.type = kTypeValue)
    <3>1. e \notin Visible
      BY <1>5, <1>9, <2>4, SeenFacts
    <3> QED
      BY <2>2, <2>4, <3>1
  <2> QED
    BY <2>3, <2>4
<1>11. ASSUME NEW c \in Seen, SavedRight(m, c, target)
       PROVE  IF ~ Shown(e) THEN SavedRight(n, c, target)
              ELSE IF e.key < c.key
              THEN \A g \in Seen : ToComeBack(m, g) => g.key # c.key
              ELSE SoughtBack(m, target)
  <2>1. CASE ~ Shown(e)
    <3>1. \A g \in Seen : ToComeBack(n, g) <=> ToComeBack(m, g)
      BY <1>5, <1>8, <2>1
    <3>2. S = S1
      BY <1>9, <3>1
    <3> HIDE DEF S, S1
    <3>3. Highest({v \in Visible : ToComeBack(m, v)}) = Highest({v \in Visible : ToComeBack(n, v)})
      BY <3>2 DEF S, S1
    <3> QED
      BY <1>11, <2>1, <3>1, <3>3 DEF SavedRight
  <2>2. CASE Shown(e) /\ e.key < c.key
    <3>1. \A g \in Seen : ToComeBack(m, g) => g.key <= e.key
      <4>1. \A g \in Seen : ToComeBack(m, g) => g = e \/ Less(g, e)
        BY <1>1, <1>2, <1>6, LessFacts
      <4> QED
        BY <1>1, <1>6, <4>1, LessFacts
    <3> QED
      BY <1>1, <1>6, <2>2, <3>1
  <2>3. CASE Shown(e) /\ ~ (e.key < c.key)
    <3>1. e \in Seen /\ ToComeBack(m, e)
      BY <1>1, <1>2, <1>5, <2>3, LessFacts
    <3>2. ~ ToComeBack(m, c)
      BY <1>11 DEF SavedRight
    <3>3. Less(e, c)
      BY <1>1, <1>2, <3>2
    <3>4. e.key = c.key
      BY <1>1, <1>6, <2>3, <3>3, LessFacts
    <3>5. target = Highest(S)
      BY <1>11, <3>1, <3>4 DEF SavedRight
    <3> QED
      BY <2>3, <3>5 DEF SoughtBack
  <2> QED
    BY <2>1, <2>2, <2>3
<1> QED
  BY <1>10, <1>11 DEF e, n

-----------------------------------------------------------------------------
(* The invariant is kept.                                                  *)

DBIterType ==
  [direction : {"forward", "reverse"}, valid : BOOLEAN, ok : BOOLEAN,
   saved_key : SUBSET UserKeys, saved_value : Nat]

LEMMA SameEntries ==
  ASSUME ChildrenInv, UNCHANGED <<children, sequence_>>
  PROVE  /\ ChildrenInv' /\ All' = All /\ Old' = Old
         /\ Seen' = Seen /\ Visible' = Visible
BY DEF ChildrenInv, All, Old, Seen, Visible

LEMMA MergingMoves ==
  ASSUME UNCHANGED children, NEW m, MergingRight(m), merging' = m
  PROVE  MergingInv'
BY DEF MergingInv, MergingRight, OthersAfter, OthersBefore, Old, All

(* A search forwards begins in order, or ends at once.                     *)
LEMMA BeginKeepsInv ==
  ASSUME ChildrenInv, IterTypeOK, UNCHANGED <<children, sequence_, value_type>>,
         NEW it \in DBIterType, NEW m, NEW skip \in BOOLEAN, BeginFindNext(it, m, skip),
         it.direction = "forward", MergingRight(m),
         m.current = 0 => expected' = {},
         m.current # 0 => NextRight(m, skip, it.saved_key, expected'),
         scan' \in BOOLEAN,
         scan' /\ it.ok => \A g \in All : g.type = kTypeUnknown => ToCome(m, g)
  PROVE  IteratorsInv'
<1>1. merging' = m /\ skipping' = skip /\ (MergingValid(m) <=> m.current # 0)
      /\ dbiter' = (IF MergingValid(m) THEN it ELSE [it EXCEPT !.valid = FALSE])
      /\ turn' = (IF MergingValid(m) THEN "find_next" ELSE "user")
  BY DEF BeginFindNext, MergingValid
<1>2. ChildrenInv' /\ All' = All /\ Seen' = Seen /\ Visible' = Visible
  BY SameEntries
<1>3. MergingInv'
  BY <1>1, MergingMoves
<1>4. CASE m.current = 0
  <2>1. dbiter' \in DBIterType /\ dbiter'.valid = FALSE /\ dbiter'.ok = it.ok /\ dbiter'.direction = "forward"
        /\ turn' = "user"
    BY <1>1, <1>4 DEF DBIterType
  <2>2. IterTypeOK'
    BY <1>1, <2>1 DEF IterTypeOK, DBIterType
  <2>3. UserInv' /\ FindNextInv' /\ ToReverseInv' /\ FindPrevInv'
    BY <1>4, <2>1 DEF UserInv, FindNextInv, ToReverseInv, FindPrevInv
  <2>4. ScanInv'
    BY <1>1, <1>2, <1>4, <2>1 DEF ScanInv, ToCome
  <2> QED
    BY <1>2, <1>3, <2>2, <2>3, <2>4 DEF IteratorsInv
<1>5. CASE m.current # 0
  <2>1. dbiter' = it /\ turn' = "find_next"
    BY <1>1, <1>5
  <2>2. IterTypeOK'
    BY <1>1, <2>1 DEF IterTypeOK, DBIterType
  <2>3. UserInv' /\ ToReverseInv' /\ FindPrevInv'
    BY <2>1 DEF UserInv, ToReverseInv, FindPrevInv
  <2>4. FindNextInv'
    BY <1>1, <1>2, <1>5, <2>1 DEF FindNextInv, NextRight, ToCome
  <2>5. ScanInv'
    BY <1>1, <1>2, <2>1 DEF ScanInv, ToCome
  <2> QED
    BY <1>2, <1>3, <2>2, <2>3, <2>4, <2>5 DEF IteratorsInv
<1> QED
  BY <1>4, <1>5

LEMMA DBSeekToFirstKeepsInv == IteratorsInv /\ DBSeekToFirst => IteratorsInv'
<1> SUFFICES ASSUME IteratorsInv, DBSeekToFirst
             PROVE  IteratorsInv'
  OBVIOUS
<1> DEFINE it == [dbiter EXCEPT !.direction = "forward"]
           m == MergingSeekToFirst
<1>1. ChildrenInv /\ IterTypeOK /\ dbiter \in DBIterType
  BY DEF IteratorsInv, IterTypeOK, DBIterType
<1>2. it \in DBIterType /\ it.direction = "forward"
  BY <1>1 DEF DBIterType
<1>3. /\ BeginFindNext(it, m, FALSE) /\ UNCHANGED <<children, sequence_, value_type>>
      /\ expected' = Lowest(Visible) /\ scan' = TRUE
  BY DEF DBSeekToFirst
<1>4. /\ MergingRight(m) /\ m.direction = "forward"
      /\ m.current = 0 => Old = {}
      /\ m.current # 0 => \A g \in Old : ~ Less(g, MergingKey(m))
  <2>1. InternalKey(0, 0, 0) \in Target
    BY DEF InternalKey, Target
  <2> QED
    BY <1>1, <2>1, MergingSeekFacts
<1>5. \A v \in Visible : v \in Old
  BY <1>1, SeenFacts
<1> HIDE DEF m, it
<1>6. ASSUME m.current = 0
      PROVE  expected' = {}
  <2>1. Visible = {}
    BY <1>4, <1>5, <1>6
  <2> QED
    BY <1>1, <1>3, <2>1, OutermostFacts
<1>7. ASSUME m.current # 0
      PROVE  NextRight(m, FALSE, it.saved_key, expected')
  <2>1. Visible = {v \in Visible : ToCome(m, v) /\ ~ Hiding(FALSE, it.saved_key, v.key)}
    BY <1>4, <1>5, <1>7 DEF ToCome, Hiding
  <2>2. \A g \in Seen : ~ Less(g, MergingKey(m))
    BY <1>1, <1>4, <1>7, SeenFacts
  <2> QED
    BY <1>3, <1>4, <1>7, <2>1, <2>2 DEF NextRight
<1>8. \A g \in All : g.type = kTypeUnknown => ToCome(m, g)
  BY <1>1, <1>4 DEF ToCome, Old, ChildrenInv
<1> QED
  BY <1>1, <1>2, <1>3, <1>4, <1>6, <1>7, <1>8, BeginKeepsInv

LEMMA DBSeekKeepsInv ==
  ASSUME IteratorsInv, NEW k \in UserKeys, DBSeek(k)
  PROVE  IteratorsInv'
<1> DEFINE it == [dbiter EXCEPT !.direction = "forward", !.saved_key = {k}]
           t == LookupKey(k, sequence_)
           m == MergingSeek(t)
<1>1. ChildrenInv /\ IterTypeOK /\ dbiter \in DBIterType /\ sequence_ \in Nat /\ k \in Nat
  BY StoredAreTargets DEF IteratorsInv, IterTypeOK, DBIterType, ChildrenInv
<1>2. it \in DBIterType /\ it.direction = "forward"
  BY <1>1 DEF DBIterType
<1>3. /\ BeginFindNext(it, m, FALSE) /\ UNCHANGED <<children, sequence_, value_type>>
      /\ expected' = Lowest({v \in Visible : k <= v.key}) /\ scan' = FALSE
  BY DEF DBSeek
<1>4. t \in Target /\ t.key = k
  BY <1>1 DEF LookupKey, InternalKey, Target, kValueTypeForSeek, kTypeValue
<1>5. /\ MergingRight(m) /\ m.direction = "forward"
      /\ m.current = 0 => \A g \in Old : Less(g, t)
      /\ m.current # 0 => /\ ~ Less(MergingKey(m), t)
                          /\ \A g \in Old : ~ Less(g, t) => ~ Less(g, MergingKey(m))
  BY <1>1, <1>4, MergingSeekFacts
<1>6. \A g \in Seen : k <= g.key <=> ~ Less(g, t)
  <2> SUFFICES ASSUME NEW g \in Seen
               PROVE  k <= g.key <=> ~ Less(g, t)
    OBVIOUS
  <2>1. g.key \in Nat /\ g.seq \in Nat /\ g.seq <= sequence_ /\ g.type \in {0, 1}
    BY <1>1, SeenFacts DEF kTypeDeletion, kTypeValue
  <2>2. t.key = k /\ t.seq = sequence_ /\ t.type = 1
    BY DEF LookupKey, InternalKey, kValueTypeForSeek, kTypeValue
  <2> HIDE DEF t
  <2> QED
    BY <1>1, <2>1, <2>2 DEF Less, PackSequenceAndType
<1>7. \A v \in Visible : v \in Old /\ v \in Seen /\ v \in Target
  BY <1>1, SeenFacts
<1> DEFINE S == {v \in Visible : k <= v.key}
<1> HIDE DEF m, it, t
<1>8. ASSUME m.current = 0
      PROVE  expected' = {}
  <2>1. S = {}
    BY <1>5, <1>6, <1>7, <1>8
  <2> QED
    BY <1>1, <1>3, <2>1, OutermostFacts
<1>9. ASSUME m.current # 0
      PROVE  NextRight(m, FALSE, it.saved_key, expected')
  <2> DEFINE key == MergingKey(m)
  <2>0. key \in Target /\ key.key \in Nat
    BY <1>1, <1>5, <1>9, KeyFacts, StoredAreTargets
  <2>1. \A v \in Visible : k <= v.key <=> ~ Less(v, key)
    BY <1>4, <1>5, <1>6, <1>7, <1>9, <2>0, LessFacts
  <2>2. S = {v \in Visible : ToCome(m, v) /\ ~ Hiding(FALSE, it.saved_key, v.key)}
    BY <1>9, <2>1 DEF ToCome, Hiding
  <2>3. \A g \in Seen : ~ (Less(g, key) /\ g.key = key.key)
    <3>1. k <= key.key
      BY <1>1, <1>4, <1>5, <1>9, <2>0, LessFacts
    <3> QED
      BY <1>1, <1>5, <1>6, <1>9, <3>1, SeenFacts
  <2> HIDE DEF S
  <2>4. expected' = Lowest(S)
    BY <1>3 DEF S
  <2> QED
    BY <1>5, <1>9, <2>2, <2>3, <2>4 DEF NextRight
<1> QED
  BY <1>1, <1>2, <1>3, <1>5, <1>8, <1>9, BeginKeepsInv

(* From a visible entry, and from a position that has not passed any later *)
(* key or come back before the entry's own, the next one is sought.        *)
LEMMA NextBegins ==
  ASSUME ChildrenInv, NEW m, MergingRight(m), m.current # 0, m.direction = "forward",
         NEW c \in Visible,
         \A g \in Seen : ToCome(m, g) => c.key <= g.key,
         \A g \in Seen : c.key < g.key => ToCome(m, g)
  PROVE  NextRight(m, TRUE, {c.key}, Lowest({v \in Visible : c.key < v.key}))
<1>1. c.key \in UserKeys /\ c.key \in Nat
  BY SeenFacts
<1>2. \A g \in Seen : g.key \in Nat
  BY SeenFacts
<1>3. Only({c.key}) = c.key
  BY DEF Only
<1>4. \A g \in Seen : Hiding(TRUE, {c.key}, g.key) <=> ~ (c.key < g.key)
  BY <1>1, <1>2, <1>3 DEF Hiding
<1>5. {v \in Visible : c.key < v.key}
        = {v \in Visible : ToCome(m, v) /\ ~ Hiding(TRUE, {c.key}, v.key)}
  BY <1>4, SeenFacts
<1>6. \A g \in Seen : Less(g, MergingKey(m)) => Hiding(TRUE, {c.key}, g.key)
  BY <1>4 DEF ToCome
<1> QED
  BY <1>1, <1>3, <1>5, <1>6 DEF NextRight

LEMMA DBNextKeepsInv == IteratorsInv /\ DBNext => IteratorsInv'
<1> SUFFICES ASSUME IteratorsInv, DBNext
             PROVE  IteratorsInv'
  OBVIOUS
<1>1. /\ ChildrenInv /\ IterTypeOK /\ MergingRight(merging) /\ UserInv /\ ScanInv
      /\ dbiter \in DBIterType /\ turn = "user" /\ dbiter.valid
      /\ UNCHANGED <<children, sequence_, value_type>> /\ scan' = scan /\ scan \in BOOLEAN
      /\ expected' = Lowest({v \in Visible : Key < v.key})
  BY DEF IteratorsInv, IterTypeOK, DBIterType, DBNext, MergingInv
<1>2. \A g \in Seen : g \in Target /\ g.key \in Nat /\ g \in Old
  BY <1>1, SeenFacts
<1>3. CASE dbiter.direction = "forward"
  <2> DEFINE c == MergingKey(merging)
             it == [dbiter EXCEPT !.saved_key = {Key}]
  <2>1. /\ merging.current # 0 /\ merging.direction = "forward" /\ c \in Visible /\ Key = c.key
        /\ c \in Seen /\ c.key \in UserKeys
    BY <1>1, <1>3, SeenFacts DEF UserInv, Key
  <2>2. /\ it \in DBIterType /\ it.saved_key = {Key} /\ it.direction = "forward" /\ it.ok = dbiter.ok
        /\ BeginFindNext(it, merging, TRUE)
    BY <1>1, <1>3, <2>1 DEF DBIterType, DBNext
  <2>3. \A g \in Seen : (ToCome(merging, g) => c.key <= g.key) /\ (c.key < g.key => ToCome(merging, g))
    BY <1>2, <2>1, LessFacts DEF ToCome
  <2>4. scan' /\ it.ok => \A g \in All : g.type = kTypeUnknown => ToCome(merging, g)
    BY <1>1, <2>2 DEF ScanInv
  <2> HIDE DEF it, c
  <2>5. NextRight(merging, TRUE, it.saved_key, expected')
    BY <1>1, <2>1, <2>2, <2>3, NextBegins
  <2> QED
    BY <1>1, <2>1, <2>2, <2>4, <2>5, BeginKeepsInv
<1>4. CASE dbiter.direction = "reverse"
  <2> DEFINE m == IF MergingValid(merging) THEN MergingNext(merging) ELSE MergingSeekToFirst
             p == MergingKey(merging)
             forward == [dbiter EXCEPT !.direction = "forward"]
             it == IF MergingValid(m) THEN forward ELSE [forward EXCEPT !.saved_key = {}]
  <2>1. PICK c \in Visible : /\ expected = {c} /\ dbiter.saved_key = {c.key}
                             /\ merging.current # 0 => p.key < c.key
                             /\ \A g \in Seen : g.key < c.key => ToComeBack(merging, g)
    BY <1>1, <1>4 DEF UserInv
  <2>2. c \in Seen /\ c.key \in UserKeys /\ Key = c.key
    BY <1>1, <1>4, <2>1, SeenFacts DEF Key, Only
  <2>3. /\ MergingRight(m) /\ m.current # 0 /\ m.direction = "forward"
        /\ \A g \in Seen : ToCome(m, g) <=> c.key <= g.key
    <3>1. CASE merging.current = 0
      <4>1. InternalKey(0, 0, 0) \in Target
        BY DEF InternalKey, Target
      <4>2. m = MergingSeekToFirst
        BY <3>1 DEF MergingValid
      <4>3. \A g \in Seen : c.key <= g.key
        BY <1>2, <2>1, <2>2, <3>1 DEF ToComeBack
      <4> HIDE DEF m
      <4>4. MergingRight(m) /\ m.direction = "forward" /\ m.current # 0 /\ \A g \in Old : ~ Less(g, MergingKey(m))
        BY <1>1, <1>2, <2>2, <4>1, <4>2, MergingSeekFacts
      <4> QED
        BY <1>2, <4>3, <4>4 DEF ToCome
    <3>2. CASE merging.current # 0
      <4>1. m = MergingNext(merging)
        BY <3>2 DEF MergingValid
      <4>2. p \in Target /\ p.key \in Nat
        BY <1>1, <3>2, KeyFacts, StoredAreTargets
      <4> HIDE DEF m
      <4>3. /\ MergingRight(m) /\ m.direction = "forward"
            /\ m.current = 0 => \A g \in Old : ~ Less(p, g)
            /\ m.current # 0 => /\ Less(p, MergingKey(m))
                                /\ \A g \in Old : Less(p, g) => ~ Less(g, MergingKey(m))
        BY <1>1, <3>2, <4>1, MergingNextFacts
      <4> HIDE DEF p
      <4>4. \A g \in Seen : c.key <= g.key <=> Less(p, g)
        <5>1. \A g \in Seen : c.key <= g.key => Less(p, g)
          BY <1>2, <2>1, <2>2, <3>2, <4>2, LessFacts
        <5>2. \A g \in Seen : g.key < c.key => ~ Less(p, g)
          BY <2>1 DEF ToComeBack, p
        <5> QED
          BY <1>2, <2>2, <5>1, <5>2
      <4>5. m.current # 0
        BY <1>2, <2>2, <4>3, <4>4
      <4>6. MergingKey(m) \in Target
        BY <1>1, <4>3, <4>5, KeyFacts
      <4>7. \A g \in Seen : ToCome(m, g) <=> Less(p, g)
        BY <1>2, <4>2, <4>3, <4>5, <4>6, LessFacts DEF ToCome
      <4> QED
        BY <4>3, <4>4, <4>5, <4>7
    <3> QED
      BY <3>1, <3>2
  <2>4. it \in DBIterType /\ it.saved_key = {c.key} /\ it.direction = "forward" /\ BeginFindNext(it, m, TRUE)
    BY <1>1, <1>4, <2>1, <2>3 DEF DBIterType, DBNext, MergingValid
  <2>5. ~ scan'
    BY <1>1, <1>4 DEF ScanInv
  <2> HIDE DEF it, m
  <2>6. NextRight(m, TRUE, it.saved_key, expected')
    <3>1. \A g \in Seen : c.key < g.key => c.key <= g.key
      BY <1>2, <2>2
    <3> QED
      BY <1>1, <2>2, <2>3, <2>4, <3>1, NextBegins, ZenonT(40)
  <2> QED
    BY <1>1, <2>3, <2>4, <2>5, <2>6, BeginKeepsInv
<1> QED
  BY <1>1, <1>3, <1>4 DEF DBIterType

LEMMA FindNextUserEntryKeepsInv == IteratorsInv /\ FindNextUserEntry => IteratorsInv'
<1> SUFFICES ASSUME IteratorsInv, FindNextUserEntry
             PROVE  IteratorsInv'
  OBVIOUS
<1> DEFINE e == MergingKey(merging)
           it == ParseKey(dbiter, e)
           deleted == Shown(e) /\ e.type = kTypeDeletion
           hidden == skipping /\ e.key <= Only(dbiter.saved_key)
           saved == IF deleted THEN {e.key} ELSE dbiter.saved_key
           m == MergingNext(merging)
           stops == Shown(e) /\ e.type = kTypeValue /\ ~ hidden
<1>1. /\ ChildrenInv /\ IterTypeOK /\ MergingRight(merging) /\ ScanInv
      /\ dbiter \in DBIterType /\ dbiter.direction = "forward" /\ skipping \in BOOLEAN
      /\ turn = "find_next" /\ NextRight(merging, skipping, dbiter.saved_key, expected)
      /\ UNCHANGED <<children, sequence_, value_type, expected, scan>>
      /\ merging.current # 0
  BY DEF IteratorsInv, IterTypeOK, DBIterType, FindNextUserEntry, MergingInv, FindNextInv, NextRight
<1>2. /\ ChildrenInv' /\ All' = All /\ Old' = Old /\ Seen' = Seen /\ Visible' = Visible
  BY <1>1, SameEntries
<1>3. e \in All /\ e \in Target /\ e.key \in UserKeys
  BY <1>1, KeyFacts
<1>4. /\ it \in DBIterType /\ it.direction = "forward" /\ it.saved_key = dbiter.saved_key
      /\ it.ok => dbiter.ok /\ e.type # kTypeUnknown
  BY <1>1, <1>3 DEF ParseKey, DBIterType
<1>5. IF stops
      THEN /\ dbiter' = [it EXCEPT !.valid = TRUE, !.saved_key = {}]
           /\ turn' = "user" /\ UNCHANGED <<merging, skipping>>
      ELSE /\ merging' = m /\ skipping' = (skipping \/ deleted)
           /\ dbiter' = (IF MergingValid(m) THEN [it EXCEPT !.saved_key = saved]
                         ELSE [it EXCEPT !.valid = FALSE, !.saved_key = {}])
           /\ turn' = (IF MergingValid(m) THEN turn ELSE "user")
  BY DEF FindNextUserEntry
<1>6. /\ stops => e \in Visible /\ expected = {e}
      /\ ~ stops => IF m.current = 0 THEN expected = {}
                    ELSE NextRight(m, skipping \/ deleted, saved, expected)
  BY <1>1, FindNextFacts
<1>7. saved \in SUBSET UserKeys
  BY <1>1, <1>3 DEF DBIterType
<1>8. deleted \in BOOLEAN
  BY DEF Shown
<1>9. CASE stops
  <2>1. /\ dbiter' \in DBIterType /\ dbiter'.valid /\ dbiter'.direction = "forward"
        /\ dbiter'.ok = it.ok /\ turn' = "user" /\ merging' = merging /\ skipping' = skipping
    BY <1>4, <1>5, <1>9 DEF DBIterType
  <2>2. IterTypeOK' /\ MergingInv'
    BY <1>1, <2>1, MergingMoves DEF IterTypeOK, DBIterType
  <2>3. merging.direction = "forward" /\ expected' = expected
    BY <1>1 DEF NextRight
  <2>4. MergingKey(merging)' = MergingKey(merging)
    BY <2>1 DEF MergingKey
  <2>5. UserInv'
    BY <1>1, <1>2, <1>6, <1>9, <2>1, <2>3, <2>4 DEF UserInv
  <2>6. FindNextInv' /\ ToReverseInv' /\ FindPrevInv'
    BY <2>1 DEF FindNextInv, ToReverseInv, FindPrevInv
  <2>7. ScanInv'
    BY <1>1, <1>2, <1>4, <2>1, <2>4 DEF ScanInv, ToCome
  <2> QED
    BY <1>2, <2>2, <2>5, <2>6, <2>7 DEF IteratorsInv
<1>10. CASE ~ stops
  <2>1. /\ MergingRight(m)
        /\ m.current = 0 => \A g \in Old : ~ Less(e, g)
        /\ m.current # 0 => \A g \in Old : Less(e, g) => ~ Less(g, MergingKey(m))
    BY <1>1, MergingNextFacts
  <2>2. MergingValid(m) <=> m.current # 0
    BY DEF MergingValid
  <2> HIDE DEF m, deleted, saved, it, stops
  <2>3. merging' = m /\ skipping' = (skipping \/ deleted)
    BY <1>5, <1>10
  <2>4. ASSUME scan, it.ok
        PROVE  \A g \in All : g.type = kTypeUnknown => ToCome(m, g)
    <3>1. \A g \in All : g.type = kTypeUnknown => g \in Old /\ g \in Target /\ ToCome(merging, g) /\ g # e
      BY <1>1, <1>4, <2>4, ChildTypes DEF ScanInv, Old, ChildrenInv
    <3>2. \A g \in All : g.type = kTypeUnknown => Less(e, g)
      BY <1>3, <3>1, LessFacts DEF ToCome
    <3> QED
      BY <2>1, <3>1, <3>2 DEF ToCome
  <2>5. MergingInv'
    BY <1>1, <2>1, <2>3, MergingMoves
  <2>6. CASE m.current = 0
    <3>1. /\ dbiter' \in DBIterType /\ ~ dbiter'.valid /\ dbiter'.direction = "forward"
          /\ dbiter'.ok = it.ok /\ turn' = "user"
      BY <1>4, <1>5, <1>10, <2>2, <2>6 DEF DBIterType
    <3>2. IterTypeOK'
      BY <1>1, <1>8, <2>3, <3>1 DEF IterTypeOK, DBIterType
    <3>3. UserInv' /\ FindNextInv' /\ ToReverseInv' /\ FindPrevInv'
      BY <1>1, <1>6, <1>10, <2>6, <3>1 DEF UserInv, FindNextInv, ToReverseInv, FindPrevInv
    <3>4. ScanInv'
      BY <1>1, <1>2, <2>3, <2>4, <2>6, <3>1 DEF ScanInv, ToCome
    <3> QED
      BY <1>2, <2>5, <3>2, <3>3, <3>4 DEF IteratorsInv
  <2>7. CASE m.current # 0
    <3>1. /\ dbiter' \in DBIterType /\ dbiter'.saved_key = saved /\ dbiter'.direction = "forward"
          /\ dbiter'.ok = it.ok /\ turn' = "find_next"
      BY <1>1, <1>4, <1>5, <1>7, <1>10, <2>2, <2>7 DEF DBIterType
    <3>2. IterTypeOK'
      BY <1>1, <1>8, <2>3, <3>1 DEF IterTypeOK, DBIterType
    <3>3. UserInv' /\ ToReverseInv' /\ FindPrevInv'
      BY <3>1 DEF UserInv, ToReverseInv, FindPrevInv
    <3>4. NextRight(m, skipping', dbiter'.saved_key, expected)
      BY <1>6, <1>10, <2>3, <2>7, <3>1
    <3>5. FindNextInv'
      BY <1>1, <1>2, <2>3, <3>1, <3>4 DEF FindNextInv, NextRight, ToCome
    <3>6. ScanInv'
      BY <1>1, <1>2, <2>3, <2>4, <3>1 DEF ScanInv, ToCome
    <3> QED
      BY <1>2, <2>5, <3>2, <3>3, <3>5, <3>6 DEF IteratorsInv
  <2> QED
    BY <2>6, <2>7
<1> QED
  BY <1>9, <1>10

LEMMA DBPrevKeepsInv == IteratorsInv /\ DBPrev => IteratorsInv'
<1> SUFFICES ASSUME IteratorsInv, DBPrev
             PROVE  IteratorsInv'
  OBVIOUS
<1> DEFINE p == MergingKey(merging)
<1>1. /\ ChildrenInv /\ IterTypeOK /\ MergingRight(merging) /\ UserInv
      /\ dbiter \in DBIterType /\ turn = "user" /\ dbiter.valid
      /\ UNCHANGED <<children, sequence_, merging, skipping>> /\ scan' = FALSE
      /\ expected' = Highest({v \in Visible : v.key < Key})
      /\ IF dbiter.direction = "forward"
         THEN dbiter' = [dbiter EXCEPT !.saved_key = {Key}] /\ turn' = "to_reverse" /\ UNCHANGED value_type
         ELSE turn' = "find_prev" /\ value_type' = kTypeDeletion /\ UNCHANGED dbiter
  BY DEF IteratorsInv, IterTypeOK, DBIterType, DBPrev, MergingInv
<1>2. /\ ChildrenInv' /\ All' = All /\ Seen' = Seen /\ Visible' = Visible
  BY <1>1, SameEntries
<1>3. MergingInv' /\ ScanInv' /\ MergingKey(merging)' = MergingKey(merging)
  BY <1>1, MergingMoves DEF ScanInv, MergingKey
<1>4. CASE dbiter.direction = "forward"
  <2>1. /\ merging.current # 0 /\ p \in Visible /\ Key = p.key /\ p.key \in UserKeys
    BY <1>1, <1>4, KeyFacts DEF UserInv, Key
  <2>2. /\ dbiter' \in DBIterType /\ dbiter'.saved_key = {p.key} /\ dbiter'.direction = "forward"
        /\ turn' = "to_reverse" /\ value_type' = value_type
    BY <1>1, <1>4, <2>1 DEF DBIterType
  <2>3. IterTypeOK'
    BY <1>1, <2>2 DEF IterTypeOK, DBIterType
  <2>4. UserInv' /\ FindNextInv' /\ FindPrevInv'
    BY <2>2 DEF UserInv, FindNextInv, FindPrevInv
  <2>5. ToReverseInv'
    <3>1. p.key <= p.key
      <4>1. p.key \in Nat
        BY <2>1, StoredAreTargets
      <4> QED
        BY <4>1
    <3>2. expected' = Highest({v \in Visible : v.key < p.key})
      BY <1>1, <2>1
    <3> QED
      BY <1>1, <1>2, <1>3, <2>1, <2>2, <3>1, <3>2 DEF ToReverseInv
  <2> QED
    BY <1>2, <1>3, <2>3, <2>4, <2>5 DEF IteratorsInv
<1>5. CASE dbiter.direction = "reverse"
  <2>1. PICK c \in Visible : /\ dbiter.saved_key = {c.key}
                             /\ merging.current # 0 => p.key < c.key
                             /\ \A g \in Seen : g.key < c.key => ToComeBack(merging, g)
    BY <1>1, <1>5 DEF UserInv
  <2>2. Key = c.key /\ c.key \in Nat
    BY <1>1, <1>5, <2>1, SeenFacts DEF Key, Only
  <2>3. turn' = "find_prev" /\ value_type' = kTypeDeletion /\ dbiter' = dbiter
    BY <1>1, <1>5
  <2>4. \A v \in Visible : v.key < Key <=> ToComeBack(merging, v)
    <3> SUFFICES ASSUME NEW v \in Visible, ToComeBack(merging, v)
                 PROVE  v.key < c.key
      BY <1>1, <2>1, <2>2, SeenFacts
    <3>1. merging.current # 0 /\ ~ Less(p, v)
      BY DEF ToComeBack
    <3>2. p \in Target /\ p.key \in Nat /\ v \in Target /\ v.key \in Nat
      BY <1>1, <3>1, KeyFacts, SeenFacts, StoredAreTargets
    <3>3. v.key <= p.key
      BY <3>1, <3>2, LessFacts
    <3> QED
      BY <2>1, <2>2, <3>1, <3>2, <3>3
  <2>5. {v \in Visible : v.key < Key} = {v \in Visible : ToComeBack(merging, v)}
    BY <2>4
  <2>6. merging.direction = "reverse" /\ merging' = merging
    BY <1>1, <1>5 DEF UserInv
  <2>7. expected' = Highest({v \in Visible : ToComeBack(merging, v)})
    BY <1>1, <2>5
  <2>8. FindPrevInv'
    BY <1>2, <1>5, <2>3, <2>6, <2>7 DEF FindPrevInv, ToComeBack
  <2>9. IterTypeOK'
    BY <1>1, <2>3 DEF IterTypeOK
  <2>10. UserInv' /\ FindNextInv' /\ ToReverseInv'
    BY <2>3 DEF UserInv, FindNextInv, ToReverseInv
  <2> QED
    BY <1>2, <1>3, <2>8, <2>9, <2>10 DEF IteratorsInv
<1> QED
  BY <1>1, <1>4, <1>5 DEF DBIterType

LEMMA TurnBackKeepsInv == IteratorsInv /\ TurnBack => IteratorsInv'
<1> SUFFICES ASSUME IteratorsInv, TurnBack
             PROVE  IteratorsInv'
  OBVIOUS
<1> DEFINE p == MergingKey(merging)
           m == MergingPrev(merging)
<1>1. /\ ChildrenInv /\ IterTypeOK /\ MergingRight(merging) /\ ToReverseInv
      /\ dbiter \in DBIterType /\ turn = "to_reverse" /\ ~ scan
      /\ merging.current # 0 /\ dbiter.direction = "forward"
      /\ UNCHANGED <<children, sequence_, skipping, expected, scan>> /\ merging' = m
      /\ IF ~ MergingValid(m)
         THEN /\ dbiter' = [dbiter EXCEPT !.valid = FALSE, !.saved_key = {}]
              /\ turn' = "user" /\ UNCHANGED value_type
         ELSE IF MergingKey(m).key < Only(dbiter.saved_key)
         THEN /\ dbiter' = [dbiter EXCEPT !.direction = "reverse"]
              /\ turn' = "find_prev" /\ value_type' = kTypeDeletion
         ELSE UNCHANGED <<dbiter, turn, value_type>>
  BY DEF IteratorsInv, IterTypeOK, DBIterType, TurnBack, MergingInv, ToReverseInv, ScanInv
<1>2. /\ ChildrenInv' /\ All' = All /\ Seen' = Seen /\ Visible' = Visible
  BY <1>1, SameEntries
<1>3. PICK k \in UserKeys : /\ dbiter.saved_key = {k} /\ k <= p.key
                            /\ expected = Highest({v \in Visible : v.key < k})
  BY <1>1 DEF ToReverseInv
<1>4. k \in Nat /\ Only(dbiter.saved_key) = k /\ p \in Target /\ p.key \in Nat
  BY <1>1, <1>3, KeyFacts, StoredAreTargets DEF Only
<1>5. /\ MergingRight(m) /\ m.direction = "reverse"
      /\ m.current = 0 => \A g \in Old : ~ Less(g, p)
      /\ m.current # 0 => \A g \in Old : Less(g, p) => ~ Less(MergingKey(m), g)
  BY <1>1, MergingPrevFacts
<1>6. \A v \in Visible : v \in Target /\ v.key \in Nat /\ v \in Old
  BY <1>1, SeenFacts
<1>7. \A v \in Visible : v.key < k => Less(v, p)
  BY <1>3, <1>4, <1>6, LessFacts
<1> HIDE DEF m, p
<1>8. MergingInv' /\ ScanInv'
  BY <1>1, <1>5, MergingMoves DEF ScanInv
<1>9. CASE m.current = 0
  <2>1. /\ dbiter' \in DBIterType /\ ~ dbiter'.valid /\ turn' = "user" /\ value_type' = value_type
    BY <1>1, <1>9 DEF DBIterType, MergingValid
  <2>2. {v \in Visible : v.key < k} = {}
    BY <1>5, <1>6, <1>7, <1>9
  <2>3. expected' = {}
    BY <1>1, <1>3, <2>2, OutermostFacts
  <2>4. IterTypeOK'
    BY <1>1, <2>1 DEF IterTypeOK, DBIterType
  <2>5. UserInv' /\ FindNextInv' /\ ToReverseInv' /\ FindPrevInv'
    BY <2>1, <2>3 DEF UserInv, FindNextInv, ToReverseInv, FindPrevInv
  <2> QED
    BY <1>2, <1>8, <2>4, <2>5 DEF IteratorsInv
<1>10. CASE m.current # 0 /\ MergingKey(m).key < k
  <2>1. /\ dbiter' \in DBIterType /\ dbiter'.direction = "reverse"
        /\ turn' = "find_prev" /\ value_type' = kTypeDeletion
    BY <1>1, <1>4, <1>10 DEF DBIterType, MergingValid
  <2>2. MergingKey(m) \in Target /\ MergingKey(m).key \in Nat
    BY <1>1, <1>5, <1>10, KeyFacts, StoredAreTargets
  <2>3. \A v \in Visible : ToComeBack(m, v) => v.key <= MergingKey(m).key
    BY <1>6, <2>2, LessFacts DEF ToComeBack
  <2>4. \A v \in Visible : v.key < k => ToComeBack(m, v)
    BY <1>5, <1>6, <1>7, <1>10 DEF ToComeBack
  <2>5. {v \in Visible : v.key < k} = {v \in Visible : ToComeBack(m, v)}
    BY <1>4, <1>6, <1>10, <2>2, <2>3, <2>4
  <2>6. expected = Highest({v \in Visible : ToComeBack(m, v)})
    BY <1>3, <2>5
  <2>7. FindPrevInv'
    BY <1>1, <1>2, <1>5, <2>1, <2>6 DEF FindPrevInv, ToComeBack
  <2>8. IterTypeOK'
    BY <1>1, <2>1 DEF IterTypeOK, DBIterType
  <2>9. UserInv' /\ FindNextInv' /\ ToReverseInv'
    BY <2>1 DEF UserInv, FindNextInv, ToReverseInv
  <2> QED
    BY <1>2, <1>8, <2>7, <2>8, <2>9 DEF IteratorsInv
<1>11. CASE m.current # 0 /\ ~ (MergingKey(m).key < k)
  <2>1. dbiter' = dbiter /\ turn' = "to_reverse" /\ value_type' = value_type
    BY <1>1, <1>4, <1>11 DEF MergingValid
  <2>2. k <= MergingKey(m).key
    BY <1>1, <1>4, <1>5, <1>11, KeyFacts, StoredAreTargets
  <2>3. ToReverseInv'
    BY <1>1, <1>2, <1>3, <1>11, <2>1, <2>2 DEF ToReverseInv
  <2>4. IterTypeOK'
    BY <1>1, <2>1 DEF IterTypeOK
  <2>5. UserInv' /\ FindNextInv' /\ FindPrevInv'
    BY <2>1 DEF UserInv, FindNextInv, FindPrevInv
  <2> QED
    BY <1>2, <1>8, <2>3, <2>4, <2>5 DEF IteratorsInv
<1> QED
  BY <1>9, <1>10, <1>11

LEMMA DBSeekToLastKeepsInv == IteratorsInv /\ DBSeekToLast => IteratorsInv'
<1> SUFFICES ASSUME IteratorsInv, DBSeekToLast
             PROVE  IteratorsInv'
  OBVIOUS
<1> DEFINE m == MergingSeekToLast
<1>1. /\ ChildrenInv /\ IterTypeOK /\ dbiter \in DBIterType
      /\ dbiter' = [dbiter EXCEPT !.direction = "reverse"] /\ merging' = m
      /\ turn' = "find_prev" /\ value_type' = kTypeDeletion
      /\ expected' = Highest(Visible) /\ scan' = FALSE
      /\ UNCHANGED <<children, sequence_, skipping>>
  BY DEF IteratorsInv, IterTypeOK, DBIterType, DBSeekToLast
<1>2. /\ ChildrenInv' /\ All' = All /\ Seen' = Seen /\ Visible' = Visible
  BY <1>1, SameEntries
<1>3. /\ MergingRight(m) /\ m.direction = "reverse"
      /\ m.current = 0 => Old = {}
      /\ m.current # 0 => \A g \in Old : ~ Less(MergingKey(m), g)
  <2>1. InternalKey(0, 0, 0) \in Target
    BY DEF InternalKey, Target
  <2> QED
    BY <1>1, <2>1, MergingSeekFacts
<1> HIDE DEF m
<1>4. \A v \in Visible : v \in Old
  BY <1>1, SeenFacts
<1>5. Visible = {v \in Visible : ToComeBack(m, v)}
  BY <1>3, <1>4 DEF ToComeBack
<1>6. expected' = Highest({v \in Visible : ToComeBack(m, v)})
  BY <1>1, <1>5
<1>7. dbiter' \in DBIterType /\ dbiter'.direction = "reverse"
  BY <1>1 DEF DBIterType
<1>8. FindPrevInv'
  BY <1>1, <1>2, <1>3, <1>6, <1>7 DEF FindPrevInv, ToComeBack
<1>9. IterTypeOK'
  BY <1>1, <1>7 DEF IterTypeOK, DBIterType
<1>10. UserInv' /\ FindNextInv' /\ ToReverseInv' /\ ScanInv'
  BY <1>1 DEF UserInv, FindNextInv, ToReverseInv, ScanInv
<1>11. MergingInv'
  BY <1>1, <1>3, MergingMoves
<1> QED
  BY <1>2, <1>8, <1>9, <1>10, <1>11 DEF IteratorsInv

(* The search backwards ends in order.                                     *)
LEMMA FoundPrevKeepsInv ==
  ASSUME IteratorsInv, turn = "find_prev", turn' = "user",
         UNCHANGED <<children, sequence_, merging, value_type, skipping, expected, scan>>,
         NEW it \in DBIterType, it.direction = "reverse", it.saved_key = dbiter.saved_key,
         it.saved_value = dbiter.saved_value, dbiter' = FoundPrev(it),
         value_type = kTypeDeletion => merging.current = 0,
         \A c \in Seen : dbiter.saved_key = {c.key} /\ SavedRight(merging, c, expected) =>
           /\ merging.current # 0 => MergingKey(merging).key < c.key
           /\ \A g \in Seen : ToComeBack(merging, g) => g.key # c.key
  PROVE  IteratorsInv'
<1>1. /\ ChildrenInv /\ IterTypeOK /\ MergingRight(merging) /\ FindPrevInv /\ ~ scan
  BY DEF IteratorsInv, MergingInv, ScanInv
<1>2. /\ ChildrenInv' /\ All' = All /\ Seen' = Seen /\ Visible' = Visible
  BY <1>1, SameEntries
<1>3. MergingInv' /\ ScanInv' /\ MergingKey(merging)' = MergingKey(merging)
  BY <1>1, MergingMoves DEF ScanInv, MergingKey
<1>4. FindNextInv' /\ ToReverseInv' /\ FindPrevInv'
  BY DEF FindNextInv, ToReverseInv, FindPrevInv
<1>5. CASE value_type = kTypeDeletion
  <2>1. dbiter' \in DBIterType /\ ~ dbiter'.valid
    BY <1>5 DEF FoundPrev, DBIterType
  <2>2. {v \in Visible : ToComeBack(merging, v)} = {}
    BY <1>5 DEF ToComeBack
  <2>3. expected = {}
    BY <1>1, <1>5, <2>2, OutermostFacts DEF FindPrevInv
  <2>4. IterTypeOK'
    BY <1>1, <2>1 DEF IterTypeOK, DBIterType
  <2>5. UserInv'
    BY <2>1, <2>3 DEF UserInv
  <2> QED
    BY <1>2, <1>3, <1>4, <2>4, <2>5 DEF IteratorsInv
<1>6. CASE value_type # kTypeDeletion
  <2>1. /\ dbiter' \in DBIterType /\ dbiter'.valid /\ dbiter'.direction = "reverse"
        /\ dbiter'.saved_key = dbiter.saved_key /\ dbiter'.saved_value = dbiter.saved_value
    BY <1>6 DEF FoundPrev, DBIterType
  <2>2. PICK c \in Seen : /\ dbiter.saved_key = {c.key} /\ dbiter.saved_value = c.seq
                          /\ SavedRight(merging, c, expected)
    BY <1>1, <1>6 DEF FindPrevInv
  <2>3. /\ merging.current # 0 => MergingKey(merging).key < c.key
        /\ \A g \in Seen : ToComeBack(merging, g) => g.key # c.key
    BY <2>2
  <2>4. /\ expected = {c} /\ c \in Visible
        /\ \A g \in Seen : g.key < c.key => ToComeBack(merging, g)
    BY <1>1, <2>2, <2>3, SavedFacts
  <2>5. merging.direction = "reverse"
    BY <1>1 DEF FindPrevInv
  <2>6. IterTypeOK'
    BY <1>1, <2>1 DEF IterTypeOK, DBIterType
  <2>7. UserInv'
    BY <1>2, <1>3, <2>1, <2>2, <2>3, <2>4, <2>5 DEF UserInv, ToComeBack
  <2> QED
    BY <1>2, <1>3, <1>4, <2>6, <2>7 DEF IteratorsInv
<1> QED
  BY <1>5, <1>6

LEMMA FindPrevUserEntryKeepsInv == IteratorsInv /\ FindPrevUserEntry => IteratorsInv'
<1> SUFFICES ASSUME IteratorsInv, FindPrevUserEntry
             PROVE  IteratorsInv'
  OBVIOUS
<1> DEFINE e == MergingKey(merging)
           it == ParseKey(dbiter, e)
           n == MergingPrev(merging)
           stops == Shown(e) /\ value_type # kTypeDeletion /\ e.key < Only(dbiter.saved_key)
<1>1. /\ ChildrenInv /\ IterTypeOK /\ MergingRight(merging) /\ FindPrevInv /\ ~ scan
      /\ dbiter \in DBIterType /\ turn = "find_prev" /\ dbiter.direction = "reverse"
      /\ value_type \in {kTypeDeletion, kTypeValue}
      /\ UNCHANGED <<children, sequence_, skipping, expected, scan>>
  BY DEF IteratorsInv, IterTypeOK, DBIterType, FindPrevUserEntry, MergingInv, FindPrevInv, ScanInv
<1>2. /\ ChildrenInv' /\ All' = All /\ Seen' = Seen /\ Visible' = Visible
  BY <1>1, SameEntries
<1>3. /\ it \in DBIterType /\ it.direction = "reverse" /\ it.saved_key = dbiter.saved_key
      /\ it.saved_value = dbiter.saved_value
  BY <1>1 DEF ParseKey, DBIterType
<1>4. \A c : dbiter.saved_key = {c} => Only(dbiter.saved_key) = c
  BY DEF Only
<1>5. CASE merging.current = 0
  <2>1. dbiter' = FoundPrev(dbiter) /\ turn' = "user" /\ UNCHANGED <<merging, value_type>>
    BY <1>5 DEF FindPrevUserEntry, MergingValid
  <2>2. \A c \in Seen : dbiter.saved_key = {c.key} /\ SavedRight(merging, c, expected) =>
           /\ merging.current # 0 => MergingKey(merging).key < c.key
           /\ \A g \in Seen : ToComeBack(merging, g) => g.key # c.key
    BY <1>5 DEF ToComeBack
  <2> QED
    BY <1>1, <1>5, <2>1, <2>2, FoundPrevKeepsInv
<1>6. CASE merging.current # 0
  <2>1. /\ stops => dbiter' = FoundPrev(it) /\ turn' = "user" /\ UNCHANGED <<merging, value_type>>
        /\ ~ stops => /\ merging' = n /\ turn' = turn
                      /\ value_type' = (IF Shown(e) THEN e.type ELSE value_type)
                      /\ dbiter' = (IF ~ Shown(e) THEN it
                                    ELSE IF e.type = kTypeDeletion THEN [it EXCEPT !.saved_key = {}]
                                    ELSE [it EXCEPT !.saved_key = {e.key}, !.saved_value = e.seq])
    BY <1>6 DEF FindPrevUserEntry, MergingValid
  <2>2. /\ SoughtBack(merging, expected) =>
             IF Shown(e) /\ e.type = kTypeValue THEN e \in Seen /\ SavedRight(n, e, expected)
             ELSE SoughtBack(n, expected)
        /\ \A c \in Seen : SavedRight(merging, c, expected) =>
             IF ~ Shown(e) THEN SavedRight(n, c, expected)
             ELSE IF e.key < c.key
             THEN \A g \in Seen : ToComeBack(merging, g) => g.key # c.key
             ELSE SoughtBack(merging, expected)
    BY <1>1, <1>6, FindPrevFacts
  <2>3. MergingRight(n) /\ n.direction = "reverse"
    BY <1>1, <1>6, MergingPrevFacts
  <2>4. e \in All /\ e.key \in UserKeys /\ (Shown(e) => e \in Seen)
    BY <1>1, <1>6, KeyFacts, SeenFacts
  <2>5. e \in Seen => e.seq \in Nat /\ e.type \in {kTypeDeletion, kTypeValue}
    BY <1>1, SeenFacts
  <2> HIDE DEF e, n, it
  <2>6. CASE stops
    <3>1. \A c \in Seen : dbiter.saved_key = {c.key} /\ SavedRight(merging, c, expected) =>
             /\ e.key < c.key
             /\ \A g \in Seen : ToComeBack(merging, g) => g.key # c.key
      BY <1>4, <2>2, <2>6
    <3> QED
      BY <1>1, <1>3, <2>1, <2>6, <3>1, FoundPrevKeepsInv DEF e
  <2>7. CASE ~ stops
    <3>1. dbiter' \in DBIterType /\ dbiter'.direction = "reverse" /\ turn' = "find_prev"
          /\ value_type' \in {kTypeDeletion, kTypeValue} /\ merging' = n
      <4>1. turn' = "find_prev" /\ value_type' \in {kTypeDeletion, kTypeValue} /\ merging' = n
        BY <1>1, <2>1, <2>4, <2>5, <2>7
      <4>2. CASE ~ Shown(e)
        BY <1>3, <2>1, <2>7, <4>1, <4>2
      <4>3. CASE Shown(e) /\ e.type = kTypeDeletion
        BY <1>3, <2>1, <2>7, <4>1, <4>3 DEF DBIterType
      <4>4. CASE Shown(e) /\ e.type # kTypeDeletion
        <5>1. dbiter' = [it EXCEPT !.saved_key = {e.key}, !.saved_value = e.seq]
          BY <2>1, <2>7, <4>4
        <5>2. {e.key} \in SUBSET UserKeys /\ e.seq \in Nat
          BY <2>4, <2>5, <4>4
        <5> HIDE DEF stops
        <5>3. dbiter' \in DBIterType /\ dbiter'.direction = it.direction
          BY <1>3, <5>1, <5>2 DEF DBIterType
        <5> QED
          BY <1>3, <4>1, <5>3
      <4> QED
        BY <4>2, <4>3, <4>4
    <3>2. IterTypeOK'
      BY <1>1, <3>1 DEF IterTypeOK, DBIterType
    <3>3. UserInv' /\ FindNextInv' /\ ToReverseInv' /\ ScanInv'
      BY <1>1, <3>1 DEF UserInv, FindNextInv, ToReverseInv, ScanInv
    <3>4. MergingInv'
      BY <1>1, <2>3, <3>1, MergingMoves
    <3>5. value_type = kTypeDeletion => SoughtBack(merging, expected)
      BY <1>1 DEF FindPrevInv, SoughtBack
    <3>6. value_type # kTypeDeletion =>
            \E c \in Seen : /\ dbiter.saved_key = {c.key} /\ dbiter.saved_value = c.seq
                            /\ SavedRight(merging, c, expected)
      BY <1>1 DEF FindPrevInv
    <3>7. Shown(e) => SoughtBack(merging, expected)
      BY <1>4, <2>2, <2>7, <3>5, <3>6
    <3>8. IF value_type' = kTypeDeletion THEN SoughtBack(n, expected)
          ELSE \E c \in Seen : /\ dbiter'.saved_key = {c.key} /\ dbiter'.saved_value = c.seq
                               /\ SavedRight(n, c, expected)
      <4>1. CASE ~ Shown(e)
        <5>1. value_type' = value_type /\ dbiter'.saved_key = dbiter.saved_key
              /\ dbiter'.saved_value = dbiter.saved_value
          BY <1>3, <2>1, <2>7, <4>1
        <5> QED
          BY <2>2, <3>5, <3>6, <4>1, <5>1
      <4>2. CASE Shown(e) /\ e.type = kTypeDeletion
        <5>1. value_type' = kTypeDeletion /\ e.type # kTypeValue
          BY <2>1, <2>7, <4>2 DEF kTypeDeletion, kTypeValue
        <5> QED
          BY <2>2, <3>7, <4>2, <5>1
      <4>3. CASE Shown(e) /\ e.type = kTypeValue
        <5>1. kTypeValue # kTypeDeletion
          BY DEF kTypeDeletion, kTypeValue
        <5>2. /\ value_type' = kTypeValue
              /\ dbiter' = [it EXCEPT !.saved_key = {e.key}, !.saved_value = e.seq]
          BY <2>1, <2>7, <4>3, <5>1
        <5>3. dbiter'.saved_key = {e.key} /\ dbiter'.saved_value = e.seq
          BY <1>3, <5>2 DEF DBIterType
        <5> QED
          BY <2>2, <2>4, <3>7, <4>3, <5>1, <5>2, <5>3
      <4> QED
        BY <2>4, <2>5, <4>1, <4>2, <4>3
    <3>9. FindPrevInv'
      BY <1>1, <1>2, <2>3, <3>1, <3>8 DEF FindPrevInv, SavedRight, SoughtBack, ToComeBack
    <3> QED
      BY <1>2, <3>2, <3>3, <3>4, <3>9 DEF IteratorsInv
  <2> QED
    BY <2>6, <2>7
<1> QED
  BY <1>5, <1>6

(* A write made meanwhile is newer than what the snapshot shows and than   *)
(* all that was there when the iterator was made.                          *)
LEMMA LateWriteFacts ==
  ASSUME ChildrenInv, NEW k \in UserKeys, NEW t \in {kTypeDeletion, kTypeValue}, LateWrite(k, t)
  PROVE  \E x \in Stored :
           /\ children' = [children EXCEPT ![1] = @ \cup {x}]
           /\ x.type # kTypeUnknown /\ MaxSequence < x.seq /\ x.seq <= MaxSequence + MaxLateWrites
           /\ \A e \in All : e.seq < x.seq
<1> DEFINE newest == {e.seq : e \in All}
           last == CHOOSE s \in newest \cup {MaxSequence} : \A u \in newest : u <= s
           x == InternalKey(k, last + 1, t)
<1>1. \A e \in All : e.seq \in Nat
  BY ChildTypes DEF Stored
<1>2. MaxSequence \in newest /\ MaxSequence \in Nat /\ MaxLateWrites \in Nat /\ newest \subseteq Nat
  BY <1>1, IteratorsAssumption DEF ChildrenInv
<1>3. \E s \in newest : \A u \in newest : u <= s
  <2> DEFINE R == {p \in All \X All : p[1].seq < p[2].seq}
  <2>1. IsFiniteSet(All)
    <3>1. IsFiniteSet(Children)
      BY IteratorsAssumption, FS_Interval DEF Children
    <3>2. IsFiniteSet({children[i] : i \in Children})
      <4>1. children \in Surjection(Children, {children[i] : i \in Children})
        BY DEF ChildrenInv, Surjection
      <4> QED
        BY <3>1, <4>1, FS_Surjection
    <3>3. \A i \in Children : IsFiniteSet(children[i])
      BY DEF ChildrenInv
    <3> QED
      BY <3>2, <3>3, FS_UNION DEF All
  <2>2. \A a, b \in All : <<a, b>> \in R <=> a.seq < b.seq
    OBVIOUS
  <2>3. \A a, b \in All : a # b => a.seq < b.seq \/ b.seq < a.seq
    BY <1>1, ChildTypes
  <2>4. StrictOrder(All, R)
    BY <1>1, <2>2, <2>3 DEF StrictOrder
  <2> HIDE DEF R
  <2>5. All # {}
    BY <1>2
  <2>6. PICK e \in All : \A f \in All : <<e, f>> \notin R
    BY <2>1, <2>4, <2>5, EndsFacts
  <2>7. \A f \in All : f.seq <= e.seq
    <3>1. \A f \in All : ~ (e.seq < f.seq)
      BY <2>2, <2>6
    <3> QED
      BY <1>1, <3>1
  <2> QED
    BY <2>7
<1>4. last \in newest \cup {MaxSequence} /\ \A u \in newest : u <= last
  BY <1>3
<1>5. last < MaxSequence + MaxLateWrites /\ children' = [children EXCEPT ![1] = @ \cup {x}]
  BY DEF LateWrite, All
<1>6. last \in Nat
  BY <1>2, <1>4
<1>7. x.key = k /\ x.seq = last + 1 /\ x.type = t /\ x \in Stored
  BY <1>6 DEF InternalKey, Stored
<1>8. \A e \in All : e.seq <= last
  BY <1>4
<1> HIDE DEF x, last, newest
<1>9. \A e \in All : e.seq < x.seq
  BY <1>1, <1>6, <1>7, <1>8
<1>10. MaxSequence < x.seq /\ x.seq <= MaxSequence + MaxLateWrites
  BY <1>2, <1>4, <1>5, <1>6, <1>7
<1>11. x.type # kTypeUnknown
  BY <1>7 DEF kTypeUnknown, kTypeDeletion, kTypeValue
<1> QED
  BY <1>5, <1>7, <1>9, <1>10, <1>11

LEMMA LateWriteKeepsInv ==
  ASSUME IteratorsInv, NEW k \in UserKeys, NEW t \in {kTypeDeletion, kTypeValue}, LateWrite(k, t)
  PROVE  IteratorsInv'
<1>1. /\ ChildrenInv /\ IterTypeOK /\ MergingRight(merging)
      /\ UserInv /\ FindNextInv /\ ToReverseInv /\ FindPrevInv /\ ScanInv
      /\ UNCHANGED <<sequence_, merging, dbiter, turn, value_type, skipping, expected, scan>>
  BY DEF IteratorsInv, MergingInv, LateWrite
<1>2. PICK x \in Stored :
        /\ children' = [children EXCEPT ![1] = @ \cup {x}]
        /\ x.type # kTypeUnknown /\ MaxSequence < x.seq /\ x.seq <= MaxSequence + MaxLateWrites
        /\ \A e \in All : e.seq < x.seq
  BY <1>1, LateWriteFacts
<1>3. 1 \in Children
  BY IteratorsAssumption DEF Children
<1>4. /\ DOMAIN children' = Children /\ children'[1] = children[1] \cup {x}
      /\ \A i \in Children \ {1} : children'[i] = children[i]
      /\ children' \in [Children -> SUBSET Stored]
  BY <1>1, <1>2, <1>3 DEF ChildrenInv
<1>5. All' = All \cup {x}
  BY <1>3, <1>4 DEF All
<1>6. x.seq \in Nat /\ MaxSequence \in Nat /\ sequence_ \in Nat /\ sequence_ <= MaxSequence
      /\ \A e \in All : e.seq \in Nat
  BY <1>1, <1>2, IteratorsAssumption, ChildTypes DEF Stored, ChildrenInv
<1>7. Old' = Old
  BY <1>2, <1>5, <1>6 DEF Old
<1>8. Seen' = Seen
  <2>1. Seen = {e \in All : e.seq <= sequence_ /\ e.type # kTypeUnknown}
    BY DEF Seen, All
  <2>2. Seen' = {e \in All' : e.seq <= sequence_ /\ e.type # kTypeUnknown}
    BY <1>1 DEF Seen, All
  <2> QED
    BY <1>2, <1>5, <1>6, <2>1, <2>2
<1>9. Visible' = Visible
  BY <1>8 DEF Visible
<1>10. ChildrenInv'
  <2>1. \A i \in Children : IsFiniteSet(children[i])'
    <3>1. IsFiniteSet(children[1] \cup {x})
      BY <1>1, <1>3, FS_AddElement DEF ChildrenInv
    <3> QED
      BY <1>1, <1>4, <3>1 DEF ChildrenInv
  <2>2. ASSUME NEW i \in Children, NEW j \in Children,
               NEW e \in children'[i], NEW f \in children'[j], e.seq = f.seq
        PROVE  i = j /\ e = f
    <3>1. (e = x /\ i = 1) \/ e \in children[i]
      BY <1>4
    <3>2. (f = x /\ j = 1) \/ f \in children[j]
      BY <1>4
    <3>3. (e \in children[i] => e.seq < x.seq /\ e.seq \in Nat) /\ (f \in children[j] => f.seq < x.seq /\ f.seq \in Nat)
      BY <1>2, <1>6 DEF All
    <3> QED
      BY <1>1, <1>6, <2>2, <3>1, <3>2, <3>3 DEF ChildrenInv
  <2>3. \A e \in All' : /\ e.seq <= MaxSequence + MaxLateWrites
                        /\ e.type = kTypeUnknown => e.seq <= MaxSequence
    BY <1>1, <1>2, <1>5 DEF ChildrenInv
  <2>4. \E e \in All' : e.seq = MaxSequence
    BY <1>1, <1>5 DEF ChildrenInv
  <2> QED
    BY <1>1, <1>4, <1>6, <2>1, <2>2, <2>3, <2>4 DEF ChildrenInv
<1>11. MergingInv'
  <2>1. \A i \in Children : children[i] \subseteq children'[i]
    BY <1>4
  <2>2. \A i \in Children : children'[i] \cap Old' = children[i] \cap Old
    <3>1. x \notin Old
      BY <1>2, <1>6 DEF Old
    <3> QED
      BY <1>4, <1>7, <3>1
  <2>3. merging' = merging
    BY <1>1
  <2>4. MergingKey(merging)' = MergingKey(merging)
    BY <2>3 DEF MergingKey
  <2>5. /\ OthersAfter(merging) => OthersAfter(merging)'
        /\ OthersBefore(merging) => OthersBefore(merging)'
    BY <2>2, <2>3, <2>4 DEF OthersAfter, OthersBefore
  <2>6. \A i \in Children : merging.at[i] \subseteq children'[i]
    BY <1>1, <2>1 DEF MergingRight
  <2> QED
    BY <1>1, <2>3, <2>5, <2>6 DEF MergingRight, MergingInv
<1>12. MergingKey(merging)' = MergingKey(merging)
  BY <1>1 DEF MergingKey
<1>13. \A g : (ToCome(merging, g)' <=> ToCome(merging, g)) /\ (ToComeBack(merging, g)' <=> ToComeBack(merging, g))
  BY <1>1, <1>12 DEF ToCome, ToComeBack
<1>14. IterTypeOK'
  BY <1>1 DEF IterTypeOK
<1>15. UserInv'
  BY <1>1, <1>8, <1>9, <1>12, <1>13 DEF UserInv
<1>16. FindNextInv'
  BY <1>1, <1>8, <1>9, <1>12, <1>13 DEF FindNextInv, NextRight
<1>17. ToReverseInv'
  BY <1>1, <1>9, <1>12 DEF ToReverseInv
<1>18. FindPrevInv'
  BY <1>1, <1>8, <1>9, <1>13 DEF FindPrevInv, SavedRight
<1>19. ScanInv'
  BY <1>1, <1>2, <1>5, <1>13 DEF ScanInv
<1> QED
  BY <1>10, <1>11, <1>14, <1>15, <1>16, <1>17, <1>18, <1>19 DEF IteratorsInv

LEMMA InitRight == IteratorsInit => IteratorsInv
<1> SUFFICES ASSUME IteratorsInit
             PROVE  IteratorsInv
  OBVIOUS
<1> DEFINE N == 1 .. MaxSequence
<1>1. PICK f \in Layouts :
        children = [i \in Children |-> {InternalKey(f[s].key, s, f[s].type) : s \in {t \in N : f[t].child = i}}]
  BY DEF IteratorsInit
<1>2. /\ sequence_ \in {MaxSequence - 1, MaxSequence}
      /\ merging = [at |-> [i \in Children |-> {}], current |-> 0, direction |-> "forward"]
      /\ dbiter = [direction |-> "forward", valid |-> FALSE, ok |-> TRUE,
                   saved_key |-> {}, saved_value |-> 0]
      /\ turn = "user" /\ value_type = kTypeDeletion /\ skipping = FALSE
      /\ expected = {} /\ scan = FALSE
  BY DEF IteratorsInit
<1>3. /\ MaxSequence \in Nat \ {0} /\ MaxLateWrites \in Nat /\ N \subseteq Nat
  BY IteratorsAssumption
<1>4. \A s \in N : /\ f[s].key \in UserKeys /\ f[s].child \in Children
                   /\ f[s].type \in {kTypeDeletion, kTypeValue, kTypeUnknown}
  BY DEF Layouts
<1> DEFINE entry(s) == InternalKey(f[s].key, s, f[s].type)
<1>5. \A s \in N : entry(s) \in Stored /\ entry(s).seq = s
  BY <1>3, <1>4 DEF InternalKey, Stored
<1>6. children = [i \in Children |-> {entry(s) : s \in {t \in N : f[t].child = i}}]
  BY <1>1
<1> HIDE DEF entry
<1>7. \A i \in Children : \A e \in children[i] : \E s \in N : e = entry(s) /\ f[s].child = i
  BY <1>6
<1>8. \A s \in N : entry(s) \in children[f[s].child]
  BY <1>4, <1>6
<1>9. ChildrenInv
  <2>1. children \in [Children -> SUBSET Stored]
    BY <1>5, <1>6
  <2>2. ASSUME NEW i \in Children
        PROVE  IsFiniteSet(children[i])
    <3> DEFINE M == {t \in N : f[t].child = i}
               g == [s \in M |-> entry(s)]
    <3>1. IsFiniteSet(M)
      <4>1. IsFiniteSet(N)
        BY <1>3, FS_Interval
      <4> QED
        BY <4>1, FS_Subset
    <3>2. children[i] = {entry(s) : s \in M}
      BY <1>6
    <3> HIDE DEF M
    <3>3. g \in Surjection(M, children[i])
      BY <3>2 DEF Surjection
    <3> QED
      BY <3>1, <3>3, FS_Surjection
  <2>3. ASSUME NEW i \in Children, NEW j \in Children,
               NEW e \in children[i], NEW h \in children[j], e.seq = h.seq
        PROVE  i = j /\ e = h
    <3>1. PICK s \in N : e = entry(s) /\ f[s].child = i
      BY <1>7
    <3>2. PICK u \in N : h = entry(u) /\ f[u].child = j
      BY <1>7
    <3> QED
      BY <1>5, <2>3, <3>1, <3>2
  <2>4. \A e \in All : e.seq <= MaxSequence
    <3>1. \A e \in All : e.seq \in N
      BY <1>5, <1>7 DEF All
    <3> QED
      BY <1>3, <3>1
  <2>5. \A e \in All : e.seq <= MaxSequence + MaxLateWrites
    <3>1. \A e \in All : e.seq \in Nat
      BY <2>1 DEF All, Stored
    <3> QED
      BY <1>3, <2>4, <3>1
  <2>6. \E e \in All : e.seq = MaxSequence
    <3>1. MaxSequence \in N
      BY <1>3
    <3> QED
      BY <1>4, <1>5, <1>8, <3>1 DEF All
  <2>7. sequence_ \in Nat /\ sequence_ <= MaxSequence
    BY <1>2, <1>3
  <2> QED
    BY <2>1, <2>2, <2>3, <2>4, <2>5, <2>6, <2>7 DEF ChildrenInv
<1>10. IterTypeOK
  BY <1>2 DEF IterTypeOK
<1>11. MergingInv
  BY <1>2 DEF MergingInv, MergingRight
<1>12. UserInv /\ FindNextInv /\ ToReverseInv /\ FindPrevInv /\ ScanInv
  BY <1>2 DEF UserInv, FindNextInv, ToReverseInv, FindPrevInv, ScanInv
<1> QED
  BY <1>9, <1>10, <1>11, <1>12 DEF IteratorsInv

LEMMA IteratorsHold == IteratorsSpec => []IteratorsInv
<1>1. IteratorsInit => IteratorsInv
  BY InitRight
<1>2. IteratorsInv /\ [IteratorsNext]_iteratorVars => IteratorsInv'
  <2> SUFFICES ASSUME IteratorsInv, [IteratorsNext]_iteratorVars
               PROVE  IteratorsInv'
    OBVIOUS
  <2>1. CASE DBSeekToFirst
    BY <2>1, DBSeekToFirstKeepsInv
  <2>2. CASE DBSeekToLast
    BY <2>2, DBSeekToLastKeepsInv
  <2>3. CASE DBNext
    BY <2>3, DBNextKeepsInv
  <2>4. CASE DBPrev
    BY <2>4, DBPrevKeepsInv
  <2>5. CASE \E k \in UserKeys : DBSeek(k)
    BY <2>5, DBSeekKeepsInv
  <2>6. CASE \E k \in UserKeys : \E t \in {kTypeDeletion, kTypeValue} : LateWrite(k, t)
    BY <2>6, LateWriteKeepsInv
  <2>7. CASE FindNextUserEntry
    BY <2>7, FindNextUserEntryKeepsInv
  <2>8. CASE TurnBack
    BY <2>8, TurnBackKeepsInv
  <2>9. CASE FindPrevUserEntry
    BY <2>9, FindPrevUserEntryKeepsInv
  <2>10. CASE UNCHANGED iteratorVars
    <3>1. /\ children' = children /\ sequence_' = sequence_ /\ merging' = merging /\ dbiter' = dbiter
          /\ turn' = turn /\ value_type' = value_type /\ skipping' = skipping
          /\ expected' = expected /\ scan' = scan
      BY <2>10 DEF iteratorVars
    <3>2. ChildrenInv' /\ All' = All /\ Old' = Old /\ Seen' = Seen /\ Visible' = Visible
      BY <3>1, SameEntries DEF IteratorsInv
    <3>3. MergingInv'
      BY <3>1, MergingMoves DEF IteratorsInv, MergingInv
    <3>4. IterTypeOK'
      BY <3>1 DEF IteratorsInv, IterTypeOK
    <3>5. MergingKey(merging)' = MergingKey(merging)
      BY <3>1 DEF MergingKey
    <3>6. UserInv'
      BY <3>1, <3>2, <3>5 DEF IteratorsInv, UserInv, ToComeBack
    <3>7. FindNextInv'
      BY <3>1, <3>2, <3>5 DEF IteratorsInv, FindNextInv, NextRight, ToCome
    <3>8. ToReverseInv'
      BY <3>1, <3>2, <3>5 DEF IteratorsInv, ToReverseInv
    <3>9. FindPrevInv'
      BY <3>1, <3>2, <3>5 DEF IteratorsInv, FindPrevInv, SavedRight, ToComeBack
    <3>10. ScanInv'
      BY <3>1, <3>2, <3>5 DEF IteratorsInv, ScanInv, ToCome
    <3> QED
      BY <3>2, <3>3, <3>4, <3>6, <3>7, <3>8, <3>9, <3>10 DEF IteratorsInv
  <2> QED
    BY <2>1, <2>2, <2>3, <2>4, <2>5, <2>6, <2>7, <2>8, <2>9, <2>10 DEF IteratorsNext
<1> QED
  BY <1>1, <1>2, PTL DEF IteratorsSpec

(* DBIter stands where its snapshot says, whatever calls were made in both *)
(* directions and whatever was written meanwhile, and a scan that ends     *)
(* with status OK has skipped no damaged entry (db/db_iter.cc,             *)
(* table/merger.cc).                                                       *)
THEOREM IteratorsAreRight == IteratorsSpec => []IteratorsRight
<1>1. IteratorsInv => IteratorsRight
  <2> SUFFICES ASSUME IteratorsInv
               PROVE  IteratorAtSnapshot /\ ScanTellsCorruption
    BY DEF IteratorsRight
  <2>1. UserInv /\ ScanInv /\ dbiter \in DBIterType
    BY DEF IteratorsInv, IterTypeOK, DBIterType
  <2>2. ASSUME turn = "user"
        PROVE  IF expected = {} THEN ~ dbiter.valid
               ELSE dbiter.valid /\ Key = Only(expected).key /\ Value = Only(expected).seq
    <3>1. CASE ~ dbiter.valid
      BY <2>1, <2>2, <3>1 DEF UserInv
    <3>2. CASE dbiter.valid /\ dbiter.direction = "forward"
      BY <2>1, <2>2, <3>2 DEF UserInv, Key, Value, Only
    <3>3. CASE dbiter.valid /\ dbiter.direction = "reverse"
      BY <2>1, <2>2, <3>3 DEF UserInv, Key, Value, Only
    <3> QED
      BY <2>1, <3>1, <3>2, <3>3 DEF DBIterType
  <2>3. ScanTellsCorruption
    BY <2>1 DEF ScanTellsCorruption, ScanInv, All
  <2> QED
    BY <2>2, <2>3 DEF IteratorAtSnapshot
<1> QED
  BY <1>1, IteratorsHold, PTL

=============================================================================
