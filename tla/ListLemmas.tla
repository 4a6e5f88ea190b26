----------------------------- MODULE ListLemmas -----------------------------
(***************************************************************************)
(* Lemmas about lists and the sets they hold: what append, remove(at:) and *)
(* the searches for a first match of the app do to the elements, what it   *)
(* is to put a finite set in order, and recursion over an interval.        *)
(***************************************************************************)
EXTENDS Integers, SequencesExt, SequenceTheorems, FiniteSetTheorems, WellFoundedInduction, TLAPS

(* Appending to a list adds its last element and nothing else.             *)
LEMMA AppendFacts ==
  ASSUME NEW S, NEW s \in Seq(S), NEW x \in S
  PROVE  /\ Append(s, x) \in Seq(S)
         /\ Len(Append(s, x)) = Len(s) + 1
         /\ Append(s, x)[Len(s) + 1] = x
         /\ \A k \in 1..Len(s) : Append(s, x)[k] = s[k]
         /\ ToSet(Append(s, x)) = ToSet(s) \cup {x}
  <1>1. /\ Append(s, x) \in Seq(S)
        /\ Len(Append(s, x)) = Len(s) + 1
        /\ Append(s, x)[Len(s) + 1] = x
        /\ \A k \in 1..Len(s) : Append(s, x)[k] = s[k]
    OBVIOUS
  <1>2. /\ DOMAIN s = 1..Len(s) /\ Len(s) \in Nat
        /\ DOMAIN Append(s, x) = 1..(Len(s) + 1)
    BY <1>1
  <1>3. ToSet(Append(s, x)) = ToSet(s) \cup {x}
    BY <1>1, <1>2 DEF ToSet
  <1> QED BY <1>1, <1>3

(* remove(at:) drops one element and moves the later ones down by one.     *)
LEMMA RemoveAtFacts ==
  ASSUME NEW S, NEW s \in Seq(S), NEW i \in 1..Len(s)
  PROVE  /\ RemoveAt(s, i) \in Seq(S)
         /\ Len(RemoveAt(s, i)) = Len(s) - 1
         /\ \A k \in 1..(Len(s) - 1) :
              RemoveAt(s, i)[k] = IF k < i THEN s[k] ELSE s[k + 1]
  <1> DEFINE front == SubSeq(s, 1, i - 1)
             back == SubSeq(s, i + 1, Len(s))
  <1>0. Len(s) \in Nat /\ i \in Nat
    BY LenProperties
  <1>1. /\ front \in Seq(S) /\ Len(front) = i - 1
        /\ \A k \in 1..(i - 1) : front[k] = s[k]
    OBVIOUS
  <1>2. /\ back \in Seq(S) /\ Len(back) = Len(s) - i
        /\ \A k \in 1..(Len(s) - i) : back[k] = s[i + k]
    OBVIOUS
  <1>3. /\ front \o back \in Seq(S)
        /\ Len(front \o back) = Len(s) - 1
        /\ \A k \in 1..(Len(s) - 1) :
             (front \o back)[k] = IF k <= i - 1 THEN front[k] ELSE back[k - (i - 1)]
    <2>1. /\ front \in Seq(S) /\ back \in Seq(S)
          /\ Len(front) = i - 1 /\ Len(back) = Len(s) - i
      BY <1>1, <1>2
    <2> HIDE DEF front, back
    <2>2. /\ front \o back \in Seq(S)
          /\ Len(front \o back) = Len(front) + Len(back)
          /\ \A k \in 1..(Len(front) + Len(back)) :
               (front \o back)[k] = IF k <= Len(front) THEN front[k]
                                                      ELSE back[k - Len(front)]
      BY <2>1, ConcatProperties
    <2>3. Len(front) + Len(back) = Len(s) - 1
      BY <2>1, <1>0
    <2> QED BY <2>1, <2>2, <2>3
  <1>4. RemoveAt(s, i) = front \o back
    BY DEF RemoveAt
  <1>5. ASSUME NEW k \in 1..(Len(s) - 1)
        PROVE  (front \o back)[k] = IF k < i THEN s[k] ELSE s[k + 1]
    <2>1. CASE k < i
      <3>1. k \in 1..(i - 1) BY <2>1, <1>0
      <3> HIDE DEF front, back
      <3> QED BY <2>1, <3>1, <1>0, <1>1, <1>3
    <2>2. CASE ~ (k < i)
      <3>1. k - (i - 1) \in 1..(Len(s) - i) /\ i + (k - (i - 1)) = k + 1
        BY <2>2, <1>0
      <3> HIDE DEF front, back
      <3>2. (front \o back)[k] = back[k - (i - 1)]
        BY <2>2, <1>0, <1>3
      <3>3. back[k - (i - 1)] = s[i + (k - (i - 1))]
        BY <3>1, <1>2
      <3> QED BY <2>2, <3>1, <3>2, <3>3
    <2> QED BY <2>1, <2>2
  <1> HIDE DEF front, back
  <1> QED BY <1>3, <1>4, <1>5

(* Without duplicates, removing one occurrence removes the element.        *)
LEMMA RemoveAtInjective ==
  ASSUME NEW S, NEW s \in Seq(S), IsInjective(s), NEW i \in 1..Len(s)
  PROVE  /\ ToSet(RemoveAt(s, i)) = ToSet(s) \ {s[i]}
         /\ IsInjective(RemoveAt(s, i))
  <1> DEFINE r == RemoveAt(s, i)
  <1>0. /\ Len(s) \in Nat /\ DOMAIN s = 1..Len(s) /\ i \in Nat
        /\ \A a, b \in 1..Len(s) : s[a] = s[b] => a = b
    BY DEF IsInjective
  <1>r. /\ r \in Seq(S) /\ Len(r) = Len(s) - 1
        /\ \A k \in 1..(Len(s) - 1) : r[k] = IF k < i THEN s[k] ELSE s[k + 1]
    BY RemoveAtFacts
  <1> HIDE DEF r
  <1>1. /\ Len(r) = Len(s) - 1
        /\ DOMAIN r = 1..(Len(s) - 1)
        /\ \A k \in 1..(Len(s) - 1) : r[k] = IF k < i THEN s[k] ELSE s[k + 1]
    BY <1>r
  <1>2. ToSet(r) \subseteq ToSet(s) \ {s[i]}
    <2> SUFFICES ASSUME NEW k \in 1..(Len(s) - 1)
                 PROVE  r[k] \in ToSet(s) \ {s[i]}
      BY <1>1 DEF ToSet
    <2>1. CASE k < i
      BY <2>1, <1>0, <1>1 DEF ToSet
    <2>2. CASE ~ (k < i)
      <3>1. k + 1 \in 1..Len(s) /\ k + 1 # i /\ r[k] = s[k + 1]
        BY <2>2, <1>0, <1>1
      <3> QED BY <3>1, <1>0 DEF ToSet
    <2> QED BY <2>1, <2>2
  <1>3. ToSet(s) \ {s[i]} \subseteq ToSet(r)
    <2> SUFFICES ASSUME NEW k \in 1..Len(s), s[k] # s[i]
                 PROVE  \E j \in 1..(Len(s) - 1) : r[j] = s[k]
      <3>1. \A x \in ToSet(s) : \E k \in 1..Len(s) : x = s[k]
        BY <1>0 DEF ToSet
      <3>2. \A j \in 1..(Len(s) - 1) : r[j] \in ToSet(r)
        BY <1>1 DEF ToSet
      <3> QED BY <3>1, <3>2
    <2>1. CASE k < i
      <3>1. k \in 1..(Len(s) - 1) /\ r[k] = s[k]
        BY <2>1, <1>0, <1>1
      <3> QED BY <3>1
    <2>2. CASE ~ (k < i)
      <3>1. k - 1 \in 1..(Len(s) - 1) /\ ~ (k - 1 < i) /\ (k - 1) + 1 = k
        BY <2>2, <1>0
      <3>2. r[k - 1] = s[k]
        BY <3>1, <1>1
      <3> QED BY <3>1, <3>2
    <2> QED BY <2>1, <2>2
  <1>4. IsInjective(r)
    <2> SUFFICES ASSUME NEW a \in 1..(Len(s) - 1), NEW b \in 1..(Len(s) - 1),
                        r[a] = r[b]
                 PROVE  a = b
      BY <1>1 DEF IsInjective
    <2>1. PICK x \in 1..Len(s) : r[a] = s[x] /\ x = IF a < i THEN a ELSE a + 1
      BY <1>0, <1>1
    <2>2. PICK y \in 1..Len(s) : r[b] = s[y] /\ y = IF b < i THEN b ELSE b + 1
      BY <1>0, <1>1
    <2>3. x = y
      BY <1>0, <2>1, <2>2
    <2> QED BY <1>0, <2>1, <2>2, <2>3
  <1> QED BY <1>2, <1>3, <1>4 DEF r

(* firstIndex(of:) on a list without duplicates finds the only match.      *)
LEMMA RemoveFirstIsRemoveAt ==
  ASSUME NEW S, NEW s \in Seq(S), IsInjective(s), NEW i \in 1..Len(s)
  PROVE  RemoveFirst(s, s[i]) = RemoveAt(s, i)
  <1> DEFINE I == {k \in 1..Len(s) : s[k] = s[i]}
  <1>1. I = {i}
    BY DEF IsInjective
  <1>2. Min(I) = i
    BY <1>1 DEF Min
  <1>3. SelectInSeq(s, LAMBDA v : v = s[i]) = i
    BY <1>1, <1>2 DEF SelectInSeq
  <1> QED BY <1>3 DEF RemoveFirst

(* The first index at which something holds.                               *)
LEMMA FirstIndex ==
  ASSUME NEW I \in SUBSET Nat, I # {}
  PROVE  Min(I) \in I /\ \A j \in I : Min(I) <= j
  <1> DEFINE R == OpToRel(<, Nat)
  <1>1. IsWellFoundedOn(R, Nat)
    BY NatLessThanWellFounded
  <1>2. \A x, y \in Nat : <<y, x>> \in R <=> y < x
    BY DEF OpToRel
  <1> HIDE DEF R
  <1>3. PICK n \in I : \A m \in I : ~ (<<m, n>> \in R)
    BY <1>1, WFMin
  <1>4. n \in Nat /\ \A m \in I : m \in Nat /\ ~ (m < n)
    BY <1>2, <1>3
  <1>5. \A m \in I : n <= m
    BY <1>4
  <1> QED BY <1>5 DEF Min

(* Removing a position keeps the other elements, also with duplicates.     *)
LEMMA RemoveAtElements ==
  ASSUME NEW S, NEW s \in Seq(S), NEW i \in 1..Len(s)
  PROVE  /\ ToSet(RemoveAt(s, i)) \subseteq ToSet(s)
         /\ \A x \in ToSet(s) : x # s[i] => x \in ToSet(RemoveAt(s, i))
  <1> DEFINE r == RemoveAt(s, i)
  <1>1. /\ r \in Seq(S) /\ Len(r) = Len(s) - 1
        /\ \A k \in 1..(Len(s) - 1) : r[k] = IF k < i THEN s[k] ELSE s[k + 1]
    BY RemoveAtFacts
  <1> HIDE DEF r
  <1>2. Len(s) \in Nat /\ DOMAIN s = 1..Len(s) /\ DOMAIN r = 1..(Len(s) - 1) /\ i \in Nat
    BY <1>1
  <1>3. ASSUME NEW k \in 1..(Len(s) - 1)
        PROVE  r[k] \in ToSet(s)
    <2>1. k \in 1..Len(s) /\ k + 1 \in 1..Len(s)
      BY <1>2
    <2> QED BY <1>1, <1>2, <2>1 DEF ToSet
  <1>4. ASSUME NEW k \in 1..Len(s), s[k] # s[i]
        PROVE  s[k] \in ToSet(r)
    <2>1. CASE k < i
      <3>1. k \in 1..(Len(s) - 1) /\ r[k] = s[k]
        BY <2>1, <1>1, <1>2
      <3> QED BY <3>1, <1>2 DEF ToSet
    <2>2. CASE ~ (k < i)
      <3>1. k # i
        BY <1>4
      <3>2. k - 1 \in 1..(Len(s) - 1) /\ ~ (k - 1 < i) /\ (k - 1) + 1 = k
        BY <2>2, <3>1, <1>2
      <3>3. r[k - 1] = s[k]
        BY <3>2, <1>1
      <3> QED BY <3>2, <3>3, <1>2 DEF ToSet
    <2> QED BY <2>1, <2>2
  <1> QED BY <1>2, <1>3, <1>4 DEF ToSet, r

(* What a sequence holds.                                                  *)
LEMMA RangeFacts ==
  ASSUME NEW X, NEW s \in Seq(X)
  PROVE  s \in Seq(Range(s)) /\ Range(s) \subseteq X
<1>1. Len(s) \in Nat /\ DOMAIN s = 1 .. Len(s) /\ \A i \in 1 .. Len(s) : s[i] \in X
  OBVIOUS
<1>2. \A i \in 1 .. Len(s) : s[i] \in Range(s)
  BY <1>1 DEF Range
<1> QED
  BY <1>1, <1>2, SMTT(30) DEF Range

(* A sequence holds finitely many elements.                                *)
LEMMA RangeIsFinite ==
  ASSUME NEW X, NEW s \in Seq(X)
  PROVE  IsFiniteSet(Range(s))
<1>1. Len(s) \in Nat /\ s \in [1 .. Len(s) -> Range(s)]
  BY RangeFacts
<1>2. s \in Surjection(1 .. Len(s), Range(s))
  BY <1>1 DEF Surjection, Range
<1> QED
  BY <1>1, <1>2, FS_Interval, FS_Surjection

-----------------------------------------------------------------------------
(* Finite sets in order.                                                   *)

(* A strict and total order on a set, as a set of pairs.                   *)
StrictOrder(S, R) ==
  /\ \A x \in S : <<x, x>> \notin R
  /\ \A x, y, z \in S : <<x, y>> \in R /\ <<y, z>> \in R => <<x, z>> \in R
  /\ \A x, y \in S : x # y => <<x, y>> \in R \/ <<y, x>> \in R

(* How many elements are before x.                                         *)
Below(S, R, x) == {y \in S : <<y, x>> \in R}
Rank(S, R, x) == Cardinality(Below(S, R, x))

(* Each place of s has an element of that rank, if there is one.           *)
Ranks(s, S, R) ==
  /\ s = [i \in 1 .. Cardinality(S) |-> s[i]]
  /\ \A i \in 1 .. Cardinality(S) :
       (\E x \in S : Rank(S, R, x) = i - 1) => s[i] \in S /\ Rank(S, R, s[i]) = i - 1

(* The rank of a smaller element is smaller.                               *)
LEMMA RankGrows ==
  ASSUME NEW S, IsFiniteSet(S), NEW R, StrictOrder(S, R)
  PROVE  /\ \A x \in S : Rank(S, R, x) \in 0 .. Cardinality(S) - 1
         /\ \A x, y \in S : <<x, y>> \in R => Rank(S, R, x) < Rank(S, R, y)
<1>1. Cardinality(S) \in Nat
  BY FS_CardinalityType
<1>2. ASSUME NEW x \in S
      PROVE  Rank(S, R, x) \in 0 .. Cardinality(S) - 1
  <2>1. IsFiniteSet(S \ {x}) /\ Cardinality(S \ {x}) = Cardinality(S) - 1
    BY FS_RemoveElement
  <2>2. Below(S, R, x) \in SUBSET (S \ {x})
    BY DEF Below, StrictOrder
  <2>3. IsFiniteSet(Below(S, R, x)) /\ Rank(S, R, x) <= Cardinality(S \ {x})
    BY <2>1, <2>2, FS_Subset DEF Rank
  <2>4. Rank(S, R, x) \in Nat
    BY <2>3, FS_CardinalityType DEF Rank
  <2> QED
    BY <1>1, <2>1, <2>3, <2>4
<1>3. ASSUME NEW x \in S, NEW y \in S, <<x, y>> \in R
      PROVE  Rank(S, R, x) < Rank(S, R, y)
  <2>1. IsFiniteSet(Below(S, R, y))
    BY FS_Subset DEF Below
  <2>2. Below(S, R, x) \in SUBSET Below(S, R, y)
    BY <1>3 DEF Below, StrictOrder
  <2>3. x \in Below(S, R, y) /\ x \notin Below(S, R, x)
    BY <1>3 DEF Below, StrictOrder
  <2>4. Rank(S, R, x) <= Rank(S, R, y) /\ Rank(S, R, x) # Rank(S, R, y)
    BY <2>1, <2>2, <2>3, FS_Subset DEF Rank
  <2> QED
    BY <1>2, <2>4
<1> QED
  BY <1>2, <1>3

(* Sorted by rank, each element has its place.                             *)
LEMMA RanksFacts ==
  ASSUME NEW S, IsFiniteSet(S), NEW R, StrictOrder(S, R),
         NEW s, Ranks(s, S, R)
  PROVE  /\ Cardinality(S) \in Nat
         /\ s \in [1 .. Cardinality(S) -> S]
         /\ \A x \in S : \E i \in 1 .. Cardinality(S) : s[i] = x
         /\ \A i, j \in 1 .. Cardinality(S) :
              i < j => <<s[i], s[j]>> \in R
<1> DEFINE n == Cardinality(S)
           T == 0 .. n - 1
           f == [x \in S |-> Rank(S, R, x)]
<1>1. n \in Nat
  BY FS_CardinalityType
<1>2. IsFiniteSet(T) /\ Cardinality(T) = n
  BY <1>1, FS_Interval, SMTT(30)
<1>3. f \in [S -> T]
  BY RankGrows
<1>4. ASSUME NEW x \in S, NEW y \in S, f[x] = f[y]
      PROVE  x = y
  <2>1. Rank(S, R, x) = Rank(S, R, y)
    BY <1>4
  <2>2. Rank(S, R, x) \in T /\ Rank(S, R, y) \in T
    BY RankGrows
  <2>3. ~ (Rank(S, R, x) < Rank(S, R, y)) /\ ~ (Rank(S, R, y) < Rank(S, R, x))
    BY <1>1, <2>1, <2>2
  <2> QED
    BY <2>3, RankGrows DEF StrictOrder
<1>5. f \in Injection(S, T)
  BY <1>3, <1>4 DEF Injection, IsInjective
<1>6. f \in Surjection(S, T)
  BY <1>2, <1>5, FS_Injection
<1>7. \A k \in T : \E x \in S : Rank(S, R, x) = k
  BY <1>6 DEF Surjection
<1>8. ASSUME NEW i \in 1 .. n
      PROVE  s[i] \in S /\ Rank(S, R, s[i]) = i - 1
  <2>1. i - 1 \in T
    BY <1>1
  <2> QED
    BY <1>7, <2>1 DEF Ranks
<1>9. ASSUME NEW x \in S
      PROVE  \E i \in 1 .. n : s[i] = x
  <2>1. PICK k \in T : k = Rank(S, R, x)
    BY RankGrows
  <2>2. k + 1 \in 1 .. n /\ (k + 1) - 1 = k
    BY <1>1
  <2>3. s[k + 1] \in S /\ Rank(S, R, s[k + 1]) = k
    BY <1>8, <2>2
  <2> QED
    BY <1>4, <2>1, <2>2, <2>3
<1>10. ASSUME NEW i \in 1 .. n, NEW j \in 1 .. n, i < j
       PROVE  <<s[i], s[j]>> \in R
  <2> DEFINE x == s[i]
             y == s[j]
  <2>1. x \in S /\ y \in S /\ Rank(S, R, x) = i - 1 /\ Rank(S, R, y) = j - 1
    BY <1>8
  <2>2. Rank(S, R, x) < Rank(S, R, y) /\ x # y
    BY <1>1, <1>10, <2>1
  <2> HIDE DEF x, y
  <2>3. ~ (<<y, x>> \in R)
    BY <1>1, <2>1, <2>2, RankGrows
  <2> QED
    BY <2>1, <2>2, <2>3 DEF StrictOrder, x, y
<1>11. s \in [1 .. n -> S]
  BY <1>8 DEF Ranks
<1> QED
  BY <1>1, <1>9, <1>10, <1>11

(* A finite set in order has a first and a last element.                   *)
LEMMA EndsFacts ==
  ASSUME NEW S, IsFiniteSet(S), S # {}, NEW R, StrictOrder(S, R)
  PROVE  /\ \E x \in S : \A y \in S : <<y, x>> \notin R
         /\ \E x \in S : \A y \in S : <<x, y>> \notin R
<1> DEFINE n == Cardinality(S)
           s == [i \in 1 .. n |-> CHOOSE x \in S : Rank(S, R, x) = i - 1]
<1>1. Ranks(s, S, R)
  BY DEF Ranks
<1> HIDE DEF s
<1>2. /\ n \in Nat /\ s \in [1 .. n -> S]
      /\ \A x \in S : \E i \in 1 .. n : s[i] = x
      /\ \A i, j \in 1 .. n : i < j => <<s[i], s[j]>> \in R
  BY <1>1, RanksFacts
<1>3. n # 0
  BY FS_EmptySet
<1> HIDE DEF n
<1>4. 1 \in 1 .. n /\ n \in 1 .. n /\ s[1] \in S /\ s[n] \in S
  BY <1>2, <1>3
<1>5. \A x, y \in S : <<x, y>> \in R => <<y, x>> \notin R
  BY DEF StrictOrder
<1>6. ASSUME NEW y \in S
      PROVE  <<y, s[1]>> \notin R /\ <<s[n], y>> \notin R
  <2>1. PICK i \in 1 .. n : s[i] = y
    BY <1>2
  <2>2. i = 1 \/ <<s[1], y>> \in R
    BY <1>2, <1>4, <2>1
  <2>3. i = n \/ <<y, s[n]>> \in R
    BY <1>2, <1>4, <2>1
  <2> QED
    BY <1>4, <1>5, <2>1, <2>2, <2>3
<1> QED
  BY <1>4, <1>6

-----------------------------------------------------------------------------
(* Recursion over an interval.                                             *)

(* Induction over the arguments of a function on an interval.              *)
LEMMA InductionTo ==
  ASSUME NEW N \in Nat, NEW X, NEW f, f[0] \in X,
         \A n \in 1 .. N : f[n - 1] \in X => f[n] \in X
  PROVE  \A n \in 0 .. N : f[n] \in X
<1> DEFINE I == {n \in 0 .. N : f[n] \notin X}
<1> SUFFICES ASSUME I # {}
             PROVE  FALSE
  OBVIOUS
<1>1. I \in SUBSET Nat
  OBVIOUS
<1>2. Min(I) \in I /\ \A j \in I : Min(I) <= j
  BY <1>1, FirstIndex
<1> DEFINE n == Min(I)
<1>3. n \in 1 .. N /\ f[n] \notin X
  BY <1>2
<1>4. n - 1 \in 0 .. N /\ n - 1 \notin I
  BY <1>2, <1>3
<1> QED
  BY <1>3, <1>4

(* The values of a recursion over an interval.                             *)
Iterations(N, X, x0, step) ==
  {g \in [0 .. N -> X] : g[0] = x0 /\ \A n \in 1 .. N : g[n] = step[g[n - 1]]}

(* A step taken over and over has such values.                             *)
LEMMA RecursionTo ==
  ASSUME NEW N \in Nat, NEW X, NEW x0 \in X, NEW step \in [X -> X]
  PROVE  Iterations(N, X, x0, step) # {}
<1> DEFINE P(n) == \E g \in [0 .. n -> X] : g[0] = x0 /\ \A m \in 1 .. n : g[m] = step[g[m - 1]]
           I == {n \in Nat : ~ P(n)}
<1> SUFFICES ASSUME I # {}
             PROVE  FALSE
  BY DEF Iterations
<1>1. Min(I) \in I /\ \A j \in I : Min(I) <= j
  BY FirstIndex
<1> DEFINE k == Min(I)
<1>2. k \in Nat /\ ~ P(k)
  BY <1>1
<1>3. k # 0
  <2>1. [n \in 0 .. 0 |-> x0] \in [0 .. 0 -> X] /\ [n \in 0 .. 0 |-> x0][0] = x0
    OBVIOUS
  <2>2. \A m \in 1 .. 0 : FALSE
    OBVIOUS
  <2>3. P(0)
    BY <2>1, <2>2
  <2> HIDE DEF P
  <2> QED
    BY <1>2, <2>3
<1>4. k - 1 \in Nat /\ k - 1 \notin I
  <2> HIDE DEF I
  <2> QED
    BY <1>1, <1>2, <1>3
<1>5. PICK g \in [0 .. k - 1 -> X] : g[0] = x0 /\ \A m \in 1 .. k - 1 : g[m] = step[g[m - 1]]
  BY <1>4
<1> HIDE DEF k, I
<1> DEFINE h == [m \in 0 .. k |-> IF m = k THEN step[g[k - 1]] ELSE g[m]]
<1>6. h \in [0 .. k -> X]
  <2>1. k - 1 \in 0 .. k - 1
    BY <1>4
  <2>2. step[g[k - 1]] \in X
    BY <2>1
  <2>3. \A m \in 0 .. k : m # k => m \in 0 .. k - 1
    BY <1>2
  <2> QED
    BY <2>2, <2>3
<1>7. h[0] = x0
  BY <1>2, <1>3, <1>5
<1>8. \A m \in 1 .. k : h[m] = step[h[m - 1]]
  <2> TAKE m \in 1 .. k
  <2>1. CASE m = k
    BY <1>2, <1>4, <2>1
  <2>2. CASE m # k
    <3>1. m \in 1 .. k - 1 /\ m \in 0 .. k /\ m - 1 \in 0 .. k /\ m - 1 # k
      BY <1>2, <2>2
    <3> QED
      BY <1>5, <2>2, <3>1
  <2> QED
    BY <2>1, <2>2
<1>9. P(k)
  <2> HIDE DEF h
  <2> QED
    BY <1>6, <1>7, <1>8
<1> QED
  BY <1>2, <1>9

=============================================================================
