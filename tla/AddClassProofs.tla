--------------------------- MODULE AddClassProofs ---------------------------
(***************************************************************************)
(* Proofs about the Add Course tab and what belongs to it and about the    *)
(* map, for every set of answers, courses, reviews and reminders and for   *)
(* any buildings and any number of taps.                                   *)
(***************************************************************************)
EXTENDS SectionView, CourseSearch, Reviews, Notifications, Directions, ListLemmas

-----------------------------------------------------------------------------
(* The page of a course.                                                   *)

(* The courses the buttons can pass.                                       *)
Shown == {CourseOf(a) : a \in {b \in Answers : b.meetings # <<>>}}

(* A course of a section of which only the seats change.                   *)
Stable(c) == \A a \in AnswersTo(c.sectionID) : a.meetings = c.meeting

(* What is stored of a section was an answer to a request for it, and the  *)
(* process has not survived one without meetings.                          *)
AnswersKept ==
  /\ server \in [Sections -> Answers] /\ \A s \in Sections : server[s].id = s
  /\ fetches \in [Sections -> SUBSET (Answers \cup {Asked})]
  /\ \A s \in Sections : fetches[s] \subseteq AnswersTo(s) \cup {Asked}
  /\ sections \in [Sections -> {<<>>} \cup {<<a>> : a \in Answers}]
  /\ \A s \in Sections : sections[s] # <<>> =>
       sections[s][1].id = s /\ (~ trapped => sections[s][1].meetings # <<>>)

(* What is filed was shown, and is filed under a day of its own.           *)
FiledWasShown ==
  \A day \in Day : \A c \in ToSet(currSchedule[day]) : c \in Shown /\ day \in CourseDays(c)

(* Two positions of a day with one id would need two deletions.            *)
StableFiledOnce ==
  \A day \in Day : \A i, j \in 1..Len(currSchedule[day]) :
    Stable(currSchedule[day][i])
      /\ currSchedule[day][i].sectionID = currSchedule[day][j].sectionID => i = j

SectionInv ==
  /\ TypeOK
  /\ AnswersKept
  /\ ListedIsFiled
  /\ FiledWasShown
  /\ StableFiledOnce
  /\ StableFiledIsListed

LEMMA DaysInWeek == \A days : LectureDays(days) \subseteq Day
  BY DEF LectureDays, Day

(* A version of a section that is stable is its only version.              *)
LEMMA StableIsOnly ==
  ASSUME NEW c \in Shown, NEW d \in Shown, c.sectionID = d.sectionID, Stable(c)
  PROVE  c = d
  <1>1. PICK a \in Answers : c = CourseOf(a)
    BY DEF Shown
  <1>2. PICK b \in Answers : d = CourseOf(b)
    BY DEF Shown
  <1>3. a \in AnswersTo(c.sectionID) /\ b \in AnswersTo(c.sectionID)
    BY <1>1, <1>2 DEF AnswersTo, CourseOf
  <1>4. a.meetings = b.meetings /\ a.id = b.id
    BY <1>3 DEF Stable, AnswersTo
  <1> QED BY <1>1, <1>2, <1>4 DEF CourseOf

(* The course behind a button that is shown.                               *)
LEMMA ButtonCourse ==
  ASSUME SectionInv, NEW s \in Sections, ButtonShown(s)
  PROVE  /\ CourseOf(sections[s][1]) \in Shown
         /\ CourseOf(sections[s][1]) \in Courses
         /\ CourseOf(sections[s][1]).sectionID = s
         /\ s \in SectionIDs
  <1>1. PICK a \in Answers : sections[s] = <<a>>
    BY DEF SectionInv, AnswersKept, ButtonShown
  <1>2. a.id = s /\ a.meetings # <<>>
    BY <1>1 DEF SectionInv, AnswersKept, ButtonShown, Running
  <1>3. CourseOf(a) \in Shown /\ CourseOf(a).sectionID = s
    BY <1>2 DEF Shown, CourseOf
  <1>4. CourseOf(a) \in Courses
    BY <1>3, AnswersAssumption DEF Shown
  <1> QED BY <1>1, <1>3, <1>4 DEF SectionIDs

(* quickDelete removes a position of the section, or there is none.        *)
LEMMA QuickDeletePosition ==
  ASSUME TypeOK, NEW day \in Day, NEW course \in Courses
  PROVE  \/ /\ \A k \in 1..Len(currSchedule[day]) :
                 currSchedule[day][k].sectionID # course.sectionID
            /\ quickDelete(day, course) = currSchedule[day]
         \/ \E i \in 1..Len(currSchedule[day]) :
              /\ currSchedule[day][i].sectionID = course.sectionID
              /\ quickDelete(day, course) = RemoveAt(currSchedule[day], i)
  <1> DEFINE s == currSchedule[day]
             I == {k \in 1..Len(s) : s[k].sectionID = course.sectionID}
  <1>1. s \in Seq(Courses) /\ Len(s) \in Nat
    BY DEF TypeOK
  <1>2. CASE I = {}
    <2>1. \A k \in 1..Len(s) : s[k].sectionID # course.sectionID
      BY <1>2
    <2>2. quickDelete(day, course) = s
      BY <2>1 DEF quickDelete, RemoveFirstMatch
    <2> QED BY <2>1, <2>2
  <1>3. CASE I # {}
    <2>1. I \in SUBSET Nat
      BY <1>1
    <2>2. Min(I) \in I
      BY <1>3, <2>1, FirstIndex
    <2>3. SelectInSeq(s, LAMBDA c : c.sectionID = course.sectionID) = Min(I)
      BY <1>3 DEF SelectInSeq
    <2>4. \E k \in 1..Len(s) : s[k].sectionID = course.sectionID
      BY <1>3
    <2>5. quickDelete(day, course) = RemoveAt(s, Min(I))
      BY <2>3, <2>4 DEF quickDelete, RemoveFirstMatch
    <2> QED BY <2>2, <2>5
  <1> QED BY <1>2, <1>3

(* Taking a listed section out of currClasses.                             *)
LEMMA UnlistFacts ==
  ASSUME TypeOK, IsInjective(currClasses), NEW s \in ToSet(currClasses)
  PROVE  /\ RemoveFirst(currClasses, s) \in Seq(SectionIDs)
         /\ ToSet(RemoveFirst(currClasses, s)) = ToSet(currClasses) \ {s}
         /\ IsInjective(RemoveFirst(currClasses, s))
  <1>1. PICK list \in Seq(SectionIDs) : list = currClasses
    BY DEF TypeOK
  <1>2. DOMAIN list = 1..Len(list)
    OBVIOUS
  <1>3. PICK i \in 1..Len(list) : list[i] = s
    BY <1>1, <1>2 DEF ToSet
  <1>4. IsInjective(list)
    BY <1>1
  <1>5. RemoveFirst(list, s) = RemoveAt(list, i)
    BY <1>3, <1>4, RemoveFirstIsRemoveAt
  <1> QED BY <1>1, <1>3, <1>4, <1>5, RemoveAtFacts, RemoveAtInjective

(* The accepting branch of addToSchedule.                                  *)
filed(course) ==
  /\ course.sectionID \notin ToSet(currClasses)
  /\ currSchedule' = fileUnder(course)
  /\ currClasses' = Append(currClasses, course.sectionID)

LEMMA FilingKeepsLists ==
  ASSUME SectionInv, NEW course \in Shown \cap Courses, filed(course)
  PROVE  /\ currSchedule' \in [Day -> Seq(Courses)]
         /\ currClasses' \in Seq(SectionIDs)
         /\ ListedIsFiled' /\ FiledWasShown' /\ StableFiledOnce' /\ StableFiledIsListed'
  <1> DEFINE id == course.sectionID
  <1>0. /\ currClasses \in Seq(SectionIDs) /\ id \in SectionIDs
        /\ id \notin ToSet(currClasses) /\ IsInjective(currClasses)
        /\ \A day \in Day : currSchedule[day] \in Seq(Courses)
    BY DEF SectionInv, TypeOK, SectionIDs, filed, ListedIsFiled
  <1>1. /\ currClasses' \in Seq(SectionIDs)
        /\ ToSet(currClasses') = ToSet(currClasses) \cup {id}
        /\ IsInjective(currClasses')
    <2>1. PICK list \in Seq(SectionIDs) : list = currClasses
      BY <1>0
    <2>2. /\ Append(list, id) \in Seq(SectionIDs)
          /\ Len(Append(list, id)) = Len(list) + 1
          /\ Append(list, id)[Len(list) + 1] = id
          /\ \A k \in 1..Len(list) : Append(list, id)[k] = list[k]
          /\ ToSet(Append(list, id)) = ToSet(list) \cup {id}
      BY <1>0, AppendFacts
    <2> DEFINE r == Append(list, id)
    <2> HIDE DEF r
    <2>3. /\ r \in Seq(SectionIDs) /\ Len(r) = Len(list) + 1 /\ r[Len(list) + 1] = id
          /\ \A k \in 1..Len(list) : r[k] = list[k]
      BY <2>2 DEF r
    <2>4. /\ DOMAIN r = 1..(Len(list) + 1) /\ DOMAIN list = 1..Len(list) /\ Len(list) \in Nat
          /\ \A k \in 1..Len(list) : list[k] # id
          /\ \A k, j \in 1..Len(list) : list[k] = list[j] => k = j
      BY <1>0, <2>1, <2>3 DEF ToSet, IsInjective
    <2>5. IsInjective(r)
      <3> SUFFICES ASSUME NEW k \in 1..(Len(list) + 1), NEW j \in 1..(Len(list) + 1), r[k] = r[j]
                   PROVE  k = j
        BY <2>4 DEF IsInjective
      <3>1. k \in 1..Len(list) \/ k = Len(list) + 1
        BY <2>4
      <3>2. j \in 1..Len(list) \/ j = Len(list) + 1
        BY <2>4
      <3> QED BY <2>3, <2>4, <3>1, <3>2
    <2> QED BY <2>1, <2>2, <2>5 DEF filed, r
  <1>2. ASSUME NEW day \in Day
        PROVE  /\ currSchedule'[day] \in Seq(Courses)
               /\ \/ /\ day \in CourseDays(course)
                     /\ Len(currSchedule'[day]) = Len(currSchedule[day]) + 1
                     /\ currSchedule'[day][Len(currSchedule[day]) + 1] = course
                     /\ \A k \in 1..Len(currSchedule[day]) : currSchedule'[day][k] = currSchedule[day][k]
                     /\ ToSet(currSchedule'[day]) = ToSet(currSchedule[day]) \cup {course}
                  \/ day \notin CourseDays(course) /\ currSchedule'[day] = currSchedule[day]
    <2>1. currSchedule'[day] = IF day \in CourseDays(course)
                                 THEN Append(currSchedule[day], course)
                                 ELSE currSchedule[day]
      BY DEF filed, fileUnder
    <2> QED BY <1>0, <2>1, AppendFacts
  <1>3. currSchedule' \in [Day -> Seq(Courses)]
    BY <1>2 DEF filed, fileUnder
  <1>4. ASSUME NEW day \in Day, NEW c \in ToSet(currSchedule'[day])
        PROVE  c \in ToSet(currSchedule[day]) \/ (c = course /\ day \in CourseDays(course))
    BY <1>2, <1>4
  <1>5. FiledWasShown'
    <2>1. FiledWasShown
      BY DEF SectionInv
    <2> QED BY <1>4, <2>1 DEF FiledWasShown
  <1>6. ListedIsFiled'
    <2>1. \A day \in Day : ToSet(currSchedule[day]) \subseteq ToSet(currSchedule'[day])
      BY <1>2
    <2>2. \A day \in CourseDays(course) : course \in ToSet(currSchedule'[day])
      BY <1>2, DaysInWeek DEF CourseDays
    <2>3. ASSUME NEW s \in ToSet(currClasses')
          PROVE  \E c \in Courses : /\ c.sectionID = s
                                    /\ \A day \in CourseDays(c) : c \in ToSet(currSchedule'[day])
      <3>1. CASE s = id
        BY <2>2, <3>1
      <3>2. CASE s \in ToSet(currClasses)
        <4>1. PICK c \in Courses : /\ c.sectionID = s
                                   /\ \A day \in CourseDays(c) : c \in ToSet(currSchedule[day])
          BY <3>2 DEF SectionInv, ListedIsFiled
        <4> QED BY <2>1, <4>1, DaysInWeek DEF CourseDays
      <3> QED BY <1>1, <3>1, <3>2
    <2> QED BY <1>1, <2>3 DEF ListedIsFiled
  <1>7. StableFiledIsListed'
    <2> SUFFICES ASSUME NEW day \in Day, NEW c \in ToSet(currSchedule'[day]), Stable(c)
                 PROVE  c.sectionID \in ToSet(currClasses')
      BY DEF StableFiledIsListed, Stable, Listed
    <2>1. CASE c \in ToSet(currSchedule[day])
      BY <1>1, <2>1 DEF SectionInv, StableFiledIsListed, Stable, Listed
    <2>2. CASE c = course
      BY <1>1, <2>2
    <2> QED BY <1>4, <2>1, <2>2
  <1>8. ASSUME NEW day \in Day, NEW k \in 1..Len(currSchedule[day]),
               currSchedule[day][k].sectionID = id
        PROVE  ~ Stable(currSchedule[day][k]) /\ ~ Stable(course)
    <2>1. currSchedule[day][k] \in ToSet(currSchedule[day])
      BY <1>0 DEF ToSet
    <2>2. ~ Stable(currSchedule[day][k])
      BY <1>0, <1>8, <2>1 DEF SectionInv, StableFiledIsListed, Stable, Listed
    <2>3. currSchedule[day][k] \in Shown
      BY <2>1 DEF SectionInv, FiledWasShown
    <2>4. Stable(course) => course = currSchedule[day][k]
      BY <1>8, <2>3, StableIsOnly
    <2> QED BY <2>2, <2>4
  <1>9. StableFiledOnce'
    <2> SUFFICES ASSUME NEW day \in Day,
                        NEW i \in 1..Len(currSchedule'[day]), NEW j \in 1..Len(currSchedule'[day]),
                        Stable(currSchedule'[day][i]),
                        currSchedule'[day][i].sectionID = currSchedule'[day][j].sectionID
                 PROVE  i = j
      BY DEF StableFiledOnce, Stable
    <2>1. CASE currSchedule'[day] = currSchedule[day]
      BY <2>1 DEF SectionInv, StableFiledOnce
    <2>2. CASE currSchedule'[day] # currSchedule[day]
      <3> DEFINE n == Len(currSchedule[day])
      <3>1. /\ n \in Nat /\ Len(currSchedule'[day]) = n + 1
            /\ currSchedule'[day][n + 1] = course
            /\ \A k \in 1..n : currSchedule'[day][k] = currSchedule[day][k]
        BY <1>0, <1>2, <2>2
      <3>2. (i \in 1..n \/ i = n + 1) /\ (j \in 1..n \/ j = n + 1)
        BY <3>1
      <3>3. CASE i \in 1..n /\ j \in 1..n
        BY <3>1, <3>3 DEF SectionInv, StableFiledOnce
      <3>4. CASE i \in 1..n /\ j = n + 1
        BY <1>8, <3>1, <3>4
      <3>5. CASE i = n + 1 /\ j \in 1..n
        BY <1>8, <3>1, <3>5
      <3> QED BY <3>2, <3>3, <3>4, <3>5
    <2> QED BY <2>1, <2>2
  <1> QED BY <1>1, <1>3, <1>5, <1>6, <1>7, <1>9

LEMMA RemovingKeepsLists ==
  ASSUME SectionInv, NEW course \in Shown \cap Courses,
         course.sectionID \in ToSet(currClasses), removeFromSchedule(course)
  PROVE  /\ currSchedule' \in [Day -> Seq(Courses)]
         /\ currClasses' \in Seq(SectionIDs)
         /\ ListedIsFiled' /\ FiledWasShown' /\ StableFiledOnce' /\ StableFiledIsListed'
  <1> DEFINE id == course.sectionID
  <1>0. /\ TypeOK /\ IsInjective(currClasses)
        /\ \A day \in Day : currSchedule[day] \in Seq(Courses)
    BY DEF SectionInv, TypeOK, ListedIsFiled
  <1>1. /\ currClasses' \in Seq(SectionIDs)
        /\ ToSet(currClasses') = ToSet(currClasses) \ {id}
        /\ IsInjective(currClasses')
    BY <1>0, UnlistFacts DEF removeFromSchedule
  <1>2. ASSUME NEW day \in Day
        PROVE  \/ /\ currSchedule'[day] = currSchedule[day]
                  /\ day \notin CourseDays(course)
                       \/ \A k \in 1..Len(currSchedule[day]) : currSchedule[day][k].sectionID # id
               \/ \E i \in 1..Len(currSchedule[day]) :
                    /\ currSchedule[day][i].sectionID = id
                    /\ currSchedule'[day] = RemoveAt(currSchedule[day], i)
    <2>1. currSchedule'[day] = IF day \in CourseDays(course) THEN quickDelete(day, course)
                                                             ELSE currSchedule[day]
      BY DEF removeFromSchedule
    <2>2. CASE day \in CourseDays(course)
      BY <1>0, <2>1, <2>2, QuickDeletePosition
    <2>3. CASE day \notin CourseDays(course)
      BY <2>1, <2>3
    <2> QED BY <2>2, <2>3
  <1>3. ASSUME NEW day \in Day
        PROVE  /\ currSchedule'[day] \in Seq(Courses)
               /\ ToSet(currSchedule'[day]) \subseteq ToSet(currSchedule[day])
               /\ \A c \in ToSet(currSchedule[day]) :
                    c.sectionID # id => c \in ToSet(currSchedule'[day])
    <2>1. CASE currSchedule'[day] = currSchedule[day]
      BY <1>0, <2>1
    <2>2. CASE currSchedule'[day] # currSchedule[day]
      <3>1. PICK list \in Seq(Courses) : list = currSchedule[day]
        BY <1>0
      <3>2. PICK i \in 1..Len(list) : list[i].sectionID = id /\ currSchedule'[day] = RemoveAt(list, i)
        BY <1>2, <2>2, <3>1
      <3>3. RemoveAt(list, i) \in Seq(Courses)
        BY RemoveAtFacts
      <3>4. /\ ToSet(RemoveAt(list, i)) \subseteq ToSet(list)
            /\ \A x \in ToSet(list) : x # list[i] => x \in ToSet(RemoveAt(list, i))
        BY RemoveAtElements
      <3> QED BY <3>1, <3>2, <3>3, <3>4
    <2> QED BY <2>1, <2>2
  <1>4. currSchedule' \in [Day -> Seq(Courses)]
    BY <1>3 DEF removeFromSchedule
  <1>5. FiledWasShown'
    BY <1>3 DEF SectionInv, FiledWasShown
  <1>6. ListedIsFiled'
    <2>1. ASSUME NEW s \in ToSet(currClasses')
          PROVE  \E c \in Courses : /\ c.sectionID = s
                                    /\ \A day \in CourseDays(c) : c \in ToSet(currSchedule'[day])
      <3>1. s \in ToSet(currClasses) /\ s # id
        BY <1>1
      <3>2. PICK c \in Courses : /\ c.sectionID = s
                                 /\ \A day \in CourseDays(c) : c \in ToSet(currSchedule[day])
        BY <3>1 DEF SectionInv, ListedIsFiled
      <3>3. \A day \in CourseDays(c) : day \in Day
        BY DaysInWeek DEF CourseDays
      <3> QED BY <1>3, <3>1, <3>2, <3>3
    <2> QED BY <1>1, <2>1 DEF ListedIsFiled
  <1>7. StableFiledIsListed'
    <2> SUFFICES ASSUME NEW day \in Day, NEW c \in ToSet(currSchedule'[day]), Stable(c)
                 PROVE  c.sectionID \in ToSet(currClasses')
      BY DEF StableFiledIsListed, Stable, Listed
    <2>1. c \in ToSet(currSchedule[day])
      BY <1>3
    <2>2. c.sectionID \in ToSet(currClasses)
      BY <2>1 DEF SectionInv, StableFiledIsListed, Stable, Listed
    <2>3. c.sectionID # id
      <3> SUFFICES ASSUME c.sectionID = id PROVE FALSE
        OBVIOUS
      <3>1. c \in Shown /\ day \in CourseDays(c)
        BY <2>1 DEF SectionInv, FiledWasShown
      <3>2. c = course
        BY <3>1, StableIsOnly
      <3>3. PICK list \in Seq(Courses) : list = currSchedule[day]
        BY <1>0
      <3>4. DOMAIN list = 1..Len(list) /\ Len(list) \in Nat
        OBVIOUS
      <3>5. PICK k \in 1..Len(list) : list[k] = c
        BY <2>1, <3>3, <3>4 DEF ToSet
      <3>6. PICK i \in 1..Len(list) : list[i].sectionID = id /\ currSchedule'[day] = RemoveAt(list, i)
        BY <1>2, <3>1, <3>2, <3>3, <3>5
      <3>7. \A j \in 1..Len(list) : list[j].sectionID = id => j = k
        BY <3>3, <3>5 DEF SectionInv, StableFiledOnce
      <3>8. i = k
        BY <3>6, <3>7
      <3>9. PICK short \in Seq(Courses) : short = RemoveAt(list, i)
        BY RemoveAtFacts
      <3>10. /\ Len(short) = Len(list) - 1
             /\ \A j \in 1..(Len(list) - 1) : short[j] = IF j < i THEN list[j] ELSE list[j + 1]
        BY <3>9, RemoveAtFacts
      <3>11. DOMAIN short = 1..(Len(list) - 1)
        BY <3>10
      <3>12. PICK j \in 1..(Len(list) - 1) : short[j] = c
        BY <3>6, <3>9, <3>11 DEF ToSet
      <3>13. PICK m \in 1..Len(list) : list[m] = c /\ m # i
        <4>1. CASE j < i
          BY <3>4, <3>10, <3>12, <4>1
        <4>2. CASE ~ (j < i)
          <5>1. j + 1 \in 1..Len(list) /\ j + 1 # i
            BY <3>4, <4>2
          <5> QED BY <3>10, <3>12, <4>2, <5>1
        <4> QED BY <4>1, <4>2
      <3> QED BY <3>7, <3>8, <3>13
    <2> QED BY <1>1, <2>2, <2>3
  <1>8. StableFiledOnce'
    <2> SUFFICES ASSUME NEW day \in Day,
                        NEW a \in 1..Len(currSchedule'[day]), NEW b \in 1..Len(currSchedule'[day]),
                        Stable(currSchedule'[day][a]),
                        currSchedule'[day][a].sectionID = currSchedule'[day][b].sectionID
                 PROVE  a = b
      BY DEF StableFiledOnce, Stable
    <2>1. CASE currSchedule'[day] = currSchedule[day]
      BY <2>1 DEF SectionInv, StableFiledOnce
    <2>2. CASE currSchedule'[day] # currSchedule[day]
      <3>1. PICK list \in Seq(Courses) : list = currSchedule[day]
        BY <1>0
      <3>2. PICK i \in 1..Len(list) : currSchedule'[day] = RemoveAt(list, i)
        BY <1>2, <2>2, <3>1
      <3>3. PICK short \in Seq(Courses) : short = RemoveAt(list, i)
        BY RemoveAtFacts
      <3>4. /\ Len(short) = Len(list) - 1 /\ Len(list) \in Nat
            /\ \A j \in 1..(Len(list) - 1) : short[j] = IF j < i THEN list[j] ELSE list[j + 1]
        <4>1. Len(list) \in Nat
          OBVIOUS
        <4> QED BY <3>3, <4>1, RemoveAtFacts
      <3>5. /\ a \in 1..(Len(list) - 1) /\ b \in 1..(Len(list) - 1)
            /\ Stable(short[a]) /\ short[a].sectionID = short[b].sectionID
        BY <3>2, <3>3, <3>4
      <3>6. PICK x \in 1..Len(list) : short[a] = list[x] /\ x = IF a < i THEN a ELSE a + 1
        BY <3>4, <3>5
      <3>7. PICK y \in 1..Len(list) : short[b] = list[y] /\ y = IF b < i THEN b ELSE b + 1
        BY <3>4, <3>5
      <3>8. x = y
        BY <3>1, <3>5, <3>6, <3>7 DEF SectionInv, StableFiledOnce
      <3>9. i \in Nat /\ a \in Nat /\ b \in Nat
        BY <3>4, <3>5
      <3> QED BY <3>6, <3>7, <3>8, <3>9
    <2> QED BY <2>1, <2>2
  <1> QED BY <1>1, <1>4, <1>5, <1>6, <1>7, <1>8

(* Launched, with nothing in the schedule.                                 *)
LEMMA NothingFiled ==
  ASSUME currSchedule = [day \in Day |-> <<>>], currClasses = <<>>
  PROVE  /\ currSchedule \in [Day -> Seq(Courses)]
         /\ currClasses \in Seq(SectionIDs)
         /\ ListedIsFiled /\ FiledWasShown /\ StableFiledOnce /\ StableFiledIsListed
  <1>1. /\ \A S : <<>> \in Seq(S)
        /\ ToSet(<<>>) = {} /\ IsInjective(<<>>)
    BY DEF ToSet, IsInjective
  <1>2. currSchedule \in [Day -> Seq(Courses)] /\ currClasses \in Seq(SectionIDs)
    BY <1>1
  <1>3. \A day \in Day : ToSet(currSchedule[day]) = {} /\ Len(currSchedule[day]) = 0
    BY <1>1
  <1>4. StableFiledOnce
    BY <1>3 DEF StableFiledOnce
  <1> QED BY <1>1, <1>2, <1>3, <1>4 DEF ListedIsFiled, FiledWasShown, StableFiledIsListed

LEMMA SectionStep ==
  ASSUME SectionInv, [SectionNext]_sectionVars
  PROVE  SectionInv'
  <1>0. /\ TypeOK /\ AnswersKept /\ ListedIsFiled /\ FiledWasShown
        /\ StableFiledOnce /\ StableFiledIsListed
    BY DEF SectionInv
  <1>1. ASSUME UNCHANGED <<currSchedule, currClasses>>
        PROVE  /\ ListedIsFiled' /\ FiledWasShown' /\ StableFiledOnce' /\ StableFiledIsListed'
               /\ currSchedule' \in [Day -> Seq(Courses)] /\ currClasses' \in Seq(SectionIDs)
    BY <1>0, <1>1 DEF TypeOK, ListedIsFiled, FiledWasShown, StableFiledOnce, StableFiledIsListed, Listed
  <1>2. ASSUME UNCHANGED vars, AnswersKept'
        PROVE  SectionInv'
    BY <1>0, <1>1, <1>2 DEF SectionInv, TypeOK, vars
  <1>3. ASSUME NEW s \in Sections, serverChanges(s)
        PROVE  SectionInv'
    BY <1>0, <1>2, <1>3 DEF serverChanges, AnswersKept, AnswersTo, vars
  <1>4. ASSUME NEW s \in Sections, serverAnswers(s)
        PROVE  SectionInv'
    BY <1>0, <1>2, <1>4 DEF serverAnswers, AnswersKept, AnswersTo, vars
  <1>5. ASSUME NEW s \in Sections, fetchSectionsFails(s)
        PROVE  SectionInv'
    BY <1>0, <1>2, <1>5 DEF fetchSectionsFails, AnswersKept, vars
  <1>6. ASSUME NEW s \in Sections, fetchSections(s)
        PROVE  SectionInv'
    <2>1. PICK a \in fetches[s] \ {Asked} :
            /\ sections' = [sections EXCEPT ![s] = <<a>>]
            /\ fetches' = [fetches EXCEPT ![s] = @ \ {a}]
            /\ trapped' = (a.meetings = <<>>)
      BY <1>6 DEF fetchSections
    <2>2. a \in Answers /\ a.id = s
      BY <1>0, <2>1 DEF AnswersKept, AnswersTo
    <2>3. ~ trapped /\ UNCHANGED <<currSchedule, currClasses, addFailed, server, page>>
      BY <1>6 DEF fetchSections
    <2>4. AnswersKept'
      <3>1. /\ fetches' \in [Sections -> SUBSET (Answers \cup {Asked})]
            /\ \A t \in Sections : fetches'[t] \subseteq fetches[t]
        BY <1>0, <2>1 DEF AnswersKept
      <3>2. sections' \in [Sections -> {<<>>} \cup {<<b>> : b \in Answers}]
        BY <1>0, <2>1, <2>2 DEF AnswersKept
      <3>3. ASSUME NEW t \in Sections, sections'[t] # <<>>
            PROVE  sections'[t][1].id = t /\ (~ trapped' => sections'[t][1].meetings # <<>>)
        <4>1. CASE t = s
          <5>1. sections'[t] = <<a>>
            BY <1>0, <2>1, <4>1 DEF AnswersKept
          <5>2. sections'[t][1] = a
            BY <5>1
          <5>3. ~ trapped' => a.meetings # <<>>
            BY <2>1, Zenon
          <5> QED BY <2>2, <4>1, <5>2, <5>3
        <4>2. CASE t # s
          <5>1. sections'[t] = sections[t]
            BY <1>0, <2>1, <4>2 DEF AnswersKept
          <5> QED BY <1>0, <2>3, <3>3, <5>1 DEF AnswersKept
        <4> QED BY <4>1, <4>2
      <3> QED BY <1>0, <2>3, <3>1, <3>2, <3>3 DEF AnswersKept
    <2>5. trapped' \in BOOLEAN
      BY <2>1
    <2> QED BY <1>0, <1>1, <2>3, <2>4, <2>5 DEF SectionInv, TypeOK
  <1>7. ASSUME NEW s \in Sections, addCourse(s)
        PROVE  SectionInv'
    <2> DEFINE course == CourseOf(sections[s][1])
    <2>1. course \in Shown \cap Courses /\ course.sectionID = s
      BY <1>7, ButtonCourse DEF addCourse
    <2> HIDE DEF course
    <2>2. addToSchedule(course) /\ s \notin ToSet(currClasses) /\ ~ trapped
      BY <1>7 DEF addCourse, course, ButtonShown, Running
    <2>3. UNCHANGED svars
      BY <1>7 DEF addCourse
    <2>4. AnswersKept'
      BY <1>0, <2>2, <2>3 DEF AnswersKept, svars
    <2>5. CASE UNCHANGED <<currSchedule, currClasses>> /\ addFailed' \in BOOLEAN /\ trapped' \in BOOLEAN
      BY <1>1, <2>4, <2>5 DEF SectionInv, TypeOK
    <2>6. CASE filed(course) /\ addFailed' \in BOOLEAN /\ trapped' \in BOOLEAN
      BY <2>1, <2>4, <2>6, FilingKeepsLists DEF SectionInv, TypeOK
    <2> QED BY <1>0, <2>1, <2>2, <2>5, <2>6 DEF addToSchedule, filed, TypeOK
  <1>8. ASSUME NEW s \in Sections, deleteCourse(s)
        PROVE  SectionInv'
    <2> DEFINE course == CourseOf(sections[s][1])
    <2>1. course \in Shown \cap Courses /\ course.sectionID = s
      BY <1>8, ButtonCourse DEF deleteCourse
    <2> HIDE DEF course
    <2>2. removeFromSchedule(course) /\ s \in ToSet(currClasses)
      BY <1>8 DEF deleteCourse, course
    <2>3. UNCHANGED svars /\ UNCHANGED <<addFailed, trapped>>
      BY <1>8, <2>2 DEF deleteCourse, removeFromSchedule
    <2>4. AnswersKept'
      BY <1>0, <2>3 DEF AnswersKept, svars
    <2> QED BY <1>0, <2>1, <2>2, <2>3, <2>4, RemovingKeepsLists DEF SectionInv, TypeOK
  <1>9. CASE \/ openPage \/ fetchCourseInfo \/ fetchCourseInfoFails
             \/ closePage \/ hidePage \/ showPage
    <2>1. CASE openPage
      BY <1>0, <1>2, <2>1 DEF openPage, AnswersKept, vars
    <2>2. CASE fetchCourseInfo
      BY <1>0, <1>2, <2>2 DEF fetchCourseInfo, AnswersKept, vars
    <2>3. CASE fetchCourseInfoFails
      BY <1>0, <1>2, <2>3 DEF fetchCourseInfoFails, AnswersKept, vars
    <2>4. CASE closePage
      BY <1>0, <1>2, <2>4 DEF closePage, AnswersKept, vars, Nothing
    <2>5. CASE hidePage
      BY <1>0, <1>2, <2>5 DEF hidePage, AnswersKept, vars
    <2>6. CASE showPage
      BY <1>0, <1>2, <2>6 DEF showPage, AnswersKept, vars
    <2> QED BY <1>9, <2>1, <2>2, <2>3, <2>4, <2>5, <2>6
  <1>10. CASE dismissAlert
    <2>1. AnswersKept'
      BY <1>0, <1>10 DEF dismissAlert, AnswersKept, svars
    <2> QED BY <1>0, <1>1, <1>10, <2>1 DEF dismissAlert, SectionInv, TypeOK
  <1>11. CASE relaunch
    <2>1. AnswersKept'
      BY <1>0, <1>11 DEF relaunch, AnswersKept, Nothing
    <2>2. /\ currSchedule' = [day \in Day |-> <<>>] /\ currClasses' = <<>>
          /\ addFailed' = FALSE /\ trapped' = FALSE
      BY <1>11 DEF relaunch
    <2>3. /\ currSchedule' \in [Day -> Seq(Courses)]
          /\ currClasses' \in Seq(SectionIDs)
          /\ ListedIsFiled' /\ FiledWasShown' /\ StableFiledOnce' /\ StableFiledIsListed'
      <3>1. /\ \A S : <<>> \in Seq(S)
            /\ ToSet(<<>>) = {} /\ IsInjective(<<>>)
        BY DEF ToSet, IsInjective
      <3>2. currSchedule' \in [Day -> Seq(Courses)] /\ currClasses' \in Seq(SectionIDs)
        BY <2>2, <3>1
      <3>3. \A day \in Day : ToSet(currSchedule'[day]) = {} /\ Len(currSchedule'[day]) = 0
        BY <2>2, <3>1
      <3>4. StableFiledOnce'
        BY <3>3 DEF StableFiledOnce
      <3> QED BY <2>2, <3>1, <3>2, <3>3, <3>4 DEF ListedIsFiled, FiledWasShown, StableFiledIsListed
    <2> QED BY <2>1, <2>2, <2>3 DEF SectionInv, TypeOK
  <1>12. CASE UNCHANGED sectionVars
    <2>1. AnswersKept'
      BY <1>0, <1>12 DEF AnswersKept, sectionVars
    <2> QED BY <1>2, <1>12, <2>1 DEF sectionVars, vars
  <1> QED BY <1>3, <1>4, <1>5, <1>6, <1>7, <1>8, <1>9, <1>10, <1>11, <1>12 DEF SectionNext

LEMMA SectionInvHolds == SectionSpec => []SectionInv
  <1>1. SectionInit => SectionInv
    <2> SUFFICES ASSUME SectionInit PROVE SectionInv
      OBVIOUS
    <2>1. AnswersKept
      BY DEF SectionInit, AnswersKept, Nothing
    <2> QED BY <2>1, NothingFiled DEF SectionInit, Init, SectionInv, TypeOK
  <1> QED BY <1>1, SectionStep, PTL DEF SectionSpec

(* However the answers change and arrive, a section with a checkmark is    *)
(* filed, in one of its versions, under all the days of that version.      *)
THEOREM ListedStaysFiled == SectionSpec => []ListedIsFiled
  <1>1. SectionInv => ListedIsFiled
    BY DEF SectionInv
  <1> QED BY <1>1, SectionInvHolds, PTL

(* What is filed of a section of which only the seats change is listed,    *)
(* and so can be deleted.                                                  *)
THEOREM StableFiledStaysListed == SectionSpec => []StableFiledIsListed
  <1>1. SectionInv => StableFiledIsListed
    BY DEF SectionInv
  <1> QED BY <1>1, SectionInvHolds, PTL

(* deleteCourse builds a CourseData of what is shown; that it names the    *)
(* section of the button rests on the answers being kept by their ids.     *)
THEOREM DeleteTakesItsSection == SectionSpec => DeletesOnlyItsSection
  <1>1. ASSUME SectionInv, NEW s \in Sections, deleteCourse(s), NEW day \in Day
        PROVE  \/ currSchedule'[day] = currSchedule[day]
               \/ \E i \in DOMAIN currSchedule[day] :
                    /\ currSchedule[day][i].sectionID = s
                    /\ currSchedule'[day] = RemoveAt(currSchedule[day], i)
    <2>1. PICK course \in Courses : course = CourseOf(sections[s][1]) /\ course.sectionID = s
      BY <1>1, ButtonCourse DEF deleteCourse
    <2>2. currSchedule'[day] = IF day \in CourseDays(course) THEN quickDelete(day, course)
                               ELSE currSchedule[day]
      BY <1>1, <2>1 DEF deleteCourse, removeFromSchedule
    <2>3. DOMAIN currSchedule[day] = 1..Len(currSchedule[day])
      BY <1>1 DEF SectionInv, TypeOK
    <2>4. CASE day \notin CourseDays(course)
      BY <2>2, <2>4
    <2>5. CASE day \in CourseDays(course)
      <3>1. TypeOK
        BY <1>1 DEF SectionInv
      <3> QED BY <2>1, <2>2, <2>3, <2>5, <3>1, QuickDeletePosition
    <2> QED BY <2>4, <2>5
  <1>2. SectionInv => [\A s \in Sections : deleteCourse(s) =>
                        \A day \in Day :
                          \/ currSchedule'[day] = currSchedule[day]
                          \/ \E i \in DOMAIN currSchedule[day] :
                               /\ currSchedule[day][i].sectionID = s
                               /\ currSchedule'[day] = RemoveAt(currSchedule[day], i)]_sectionVars
    BY <1>1
  <1> QED BY <1>2, SectionInvHolds, PTL DEF DeletesOnlyItsSection

-----------------------------------------------------------------------------
(* The lists with a search field.                                          *)

(* What the filter found matches the text it was called with, and holds    *)
(* all that matches and has not left the list; it has seen every text      *)
(* typed for a course.  Answers on their way are lists of entries.         *)
SearchInv ==
  /\ listed \subseteq Entries /\ fetched \subseteq Entries
  /\ requests \subseteq {Requested} \cup SUBSET Entries
  /\ since \subseteq fetched
  /\ filtered \subseteq Matching(Entries, heard)
  /\ Matching(since, heard) \subseteq filtered
  /\ view = "courses" => heard = search

LEMMA SearchInvHolds == SearchSpec => []SearchInv
  <1>1. SearchInit => SearchInv
    BY DEF SearchInit, SearchInv, Matching
  <1>2. SearchInv /\ [SearchNext]_searchVars => SearchInv'
    <2> SUFFICES ASSUME SearchInv, [SearchNext]_searchVars PROVE SearchInv'
      OBVIOUS
    <2>1. CASE UNCHANGED searchVars
      BY <2>1 DEF searchVars, SearchInv, Matching
    <2>2. CASE campusChanges
      BY <2>2 DEF campusChanges, SearchInv, Matching
    <2>3. CASE listAppears
      BY <2>3 DEF listAppears, SearchInv, Matching
    <2>4. CASE fetchEnds
      BY <2>4 DEF fetchEnds, SearchInv, Matching
    <2>5. CASE listAnswered
      BY <2>5 DEF listAnswered, SearchInv, Matching
    <2>6. CASE fetchCourses
      <3>1. PICK answer \in requests \ {Requested} :
              fetched' = answer /\ requests' = requests \ {answer} /\ since' = since \cap answer
        BY <2>6 DEF fetchCourses
      <3>2. UNCHANGED <<view, listed, filtered, search, heard>>
        BY <2>6 DEF fetchCourses
      <3> QED BY <3>1, <3>2 DEF SearchInv, Matching
    <2>7. ASSUME NEW k \in Keywords, typeKeyword(k)
          PROVE  SearchInv'
      <3>1. UNCHANGED <<view, listed, fetched>> /\ search' = k
            /\ requests' \subseteq requests \cup {Requested}
        BY <2>7 DEF typeKeyword
      <3>2. CASE preformSearch(k)
        BY <3>1, <3>2 DEF preformSearch, SearchInv, Matching
      <3>3. CASE UNCHANGED <<filtered, heard, since>> /\ ~ (HasList(search) /\ HasList(k))
        BY <3>1, <3>3 DEF HasList, SearchInv, Matching
      <3> QED BY <2>7, <3>2, <3>3 DEF typeKeyword
    <2> QED BY <2>1, <2>2, <2>3, <2>4, <2>5, <2>6, <2>7 DEF SearchNext
  <1> QED BY <1>1, <1>2, PTL DEF SearchSpec

(* Whatever is typed and in whatever order lists come and go, the rows     *)
(* match the text heard last, and what matches and stays is among them.    *)
THEOREM RowsAreRight == SearchSpec => []RowsMatchSearch
  <1>1. SearchInv => RowsMatchSearch
    <2> SUFFICES ASSUME SearchInv PROVE RowsMatchSearch
      OBVIOUS
    <2>1. CASE filtered = {}
      BY <2>1 DEF SearchInv, RowsMatchSearch, rows, Matching
    <2>2. CASE filtered # {}
      BY <2>2 DEF SearchInv, RowsMatchSearch, rows
    <2> QED BY <2>1, <2>2
  <1> QED BY <1>1, SearchInvHolds, PTL

-----------------------------------------------------------------------------
(* The reminders.                                                          *)

(* A minute begins at its first tick and ends before the next one.         *)
LEMMA MinuteFacts ==
  ASSUME NEW t \in Nat
  PROVE  /\ MinuteOf(t) \in Nat
         /\ MinuteOf(t) * Ticks <= t /\ t < MinuteOf(t) * Ticks + Ticks
  <1>1. Ticks \in Nat /\ Ticks > 0
    BY NotificationsAssumption
  <1> QED BY <1>1 DEF MinuteOf

LEMMA LaterMinute ==
  ASSUME NEW m \in Nat, NEW n \in Nat, m < n
  PROVE  m * Ticks + Ticks <= n * Ticks
  <1>1. Ticks \in Nat
    BY NotificationsAssumption
  <1>2. PICK k \in Nat : n = m + 1 + k
    <2>1. n - m - 1 \in Nat /\ n = m + 1 + (n - m - 1)
      OBVIOUS
    <2> QED BY <2>1
  <1>3. k * Ticks \in Nat /\ m * Ticks \in Nat
    BY <1>1
  <1>4. (m + 1 + k) * Ticks = m * Ticks + Ticks + k * Ticks
    BY <1>1
  <1> QED BY <1>2, <1>3, <1>4, <1>1

LEMMA FirstTickOfMinute ==
  ASSUME NEW m \in Nat
  PROVE  m * Ticks \in Nat /\ MinuteOf(m * Ticks) = m
  <1>1. Ticks \in Nat /\ Ticks > 0 /\ m * Ticks \in Nat
    BY NotificationsAssumption
  <1>2. PICK q \in Nat : q = MinuteOf(m * Ticks)
    BY <1>1, MinuteFacts
  <1>3. q * Ticks <= m * Ticks /\ m * Ticks < q * Ticks + Ticks /\ q * Ticks \in Nat
    BY <1>1, <1>2, MinuteFacts
  <1>4. ~ (q < m)
    <2>1. q < m => q * Ticks + Ticks <= m * Ticks
      BY LaterMinute
    <2> QED BY <1>1, <1>3, <2>1
  <1>5. ~ (m < q)
    <2>1. m < q => m * Ticks + Ticks <= q * Ticks
      BY LaterMinute
    <2> QED BY <1>1, <1>3, <2>1
  <1> QED BY <1>1, <1>2, <1>4, <1>5

Request == [at : Nat, date : Nat, from : {"settings", "bell"}, minute : Nat, accepted : BOOLEAN]

(* What holds of a request r, delivered at the ticks d, at time n: the     *)
(* center delivers it at the first tick of its minute, if that comes after *)
(* the request.                                                            *)
RequestKept(r, d, n) ==
  /\ r.at <= n
  /\ r.minute = MinuteOf(r.date)
  /\ r.from = "bell" => r.date = r.at + Ticks
  /\ \A t \in d : t = r.minute * Ticks /\ r.at < t
  /\ r.accepted /\ r.at < r.minute * Ticks /\ r.minute * Ticks <= n => r.minute * Ticks \in d

RemindersInv ==
  /\ now \in Nat /\ date \in Nat
  /\ added \in Seq(Request) /\ delivered \in Seq(SUBSET Nat)
  /\ Len(delivered) = Len(added)
  /\ \A i \in 1..Len(added) : RequestKept(added[i], delivered[i], now)

LEMMA TickKeepsRequest ==
  ASSUME NEW r \in Request, NEW d \in SUBSET Nat, NEW n \in Nat, RequestKept(r, d, n)
  PROVE  RequestKept(r, d \cup (IF Due(r, n + 1) THEN {n + 1} ELSE {}), n + 1)
  <1>1. PICK m \in Nat : m = r.minute * Ticks
    BY NotificationsAssumption DEF Request
  <1>2. r.at \in Nat /\ r.accepted \in BOOLEAN
    BY DEF Request
  <1> DEFINE e == d \cup (IF Due(r, n + 1) THEN {n + 1} ELSE {})
  <1>3. \A t \in e : t \in d \/ (t = n + 1 /\ Due(r, n + 1))
    OBVIOUS
  <1>4. Due(r, n + 1) <=> r.accepted /\ n + 1 = m /\ r.at < n + 1
    BY <1>1 DEF Due
  <1>5. \A t \in e : t = m /\ r.at < t
    BY <1>1, <1>3, <1>4 DEF RequestKept
  <1>6. ASSUME r.accepted, r.at < m, m <= n + 1
        PROVE  m \in e
    <2>1. CASE m <= n
      BY <1>1, <1>6, <2>1 DEF RequestKept
    <2>2. CASE m = n + 1
      BY <1>4, <1>6, <2>2
    <2> QED BY <1>6, <2>1, <2>2
  <1>7. r.at <= n + 1
    BY <1>2 DEF RequestKept
  <1> HIDE DEF e
  <1>8. RequestKept(r, e, n + 1)
    BY <1>1, <1>5, <1>6, <1>7 DEF RequestKept
  <1> QED BY <1>8 DEF e

LEMMA PushKeepsInv ==
  ASSUME RemindersInv, NEW t \in Nat, NEW from \in {"settings", "bell"},
         from = "bell" => t = now + Ticks, pushNotification(t, from)
  PROVE  RemindersInv'
  <1> DEFINE r == [at |-> now, date |-> t, from |-> from,
                   minute |-> TriggerMinute(t), accepted |-> permission = "granted"]
  <1>1. r \in Request
    <2>1. TriggerMinute(t) \in Nat
      BY MinuteFacts DEF TriggerMinute
    <2>2. (permission = "granted") \in BOOLEAN
      OBVIOUS
    <2> QED BY <2>1, <2>2 DEF RemindersInv, Request
  <1>2. /\ r.at = now /\ r.minute = MinuteOf(t) /\ r.date = t /\ r.from = from
        /\ now \in Nat /\ r.minute * Ticks \in Nat
    BY <1>1, NotificationsAssumption DEF TriggerMinute, RemindersInv, Request
  <1>3. /\ added' = Append(added, r) /\ delivered' = Append(delivered, {})
        /\ now' = now /\ date' = date
    BY DEF pushNotification
  <1> HIDE DEF r
  <1>4. RequestKept(r, {}, now)
    BY <1>2 DEF RequestKept
  <1>5. /\ added' \in Seq(Request) /\ delivered' \in Seq(SUBSET Nat)
        /\ Len(added') = Len(added) + 1 /\ Len(delivered') = Len(added')
        /\ added'[Len(added) + 1] = r /\ delivered'[Len(added) + 1] = {}
        /\ \A i \in 1..Len(added) : added'[i] = added[i] /\ delivered'[i] = delivered[i]
    BY <1>1, <1>3 DEF RemindersInv
  <1>6. Len(added) \in Nat
    BY DEF RemindersInv
  <1>7. \A i \in 1..Len(added') : i \in 1..Len(added) \/ i = Len(added) + 1
    BY <1>5, <1>6
  <1>8. ASSUME NEW i \in 1..Len(added')
        PROVE  RequestKept(added'[i], delivered'[i], now')
    <2>1. CASE i \in 1..Len(added)
      BY <1>3, <1>5, <2>1 DEF RemindersInv
    <2>2. CASE i = Len(added) + 1
      BY <1>3, <1>4, <1>5, <2>2
    <2> QED BY <1>7, <2>1, <2>2
  <1> QED BY <1>3, <1>5, <1>8 DEF RemindersInv

LEMMA TickKeepsInv ==
  ASSUME RemindersInv, tick
  PROVE  RemindersInv'
  <1>1. /\ now \in Nat /\ now' = now + 1 /\ added' = added /\ date' = date
        /\ DOMAIN added = 1..Len(added) /\ Len(added) \in Nat
        /\ DOMAIN delivered = 1..Len(added)
    BY DEF RemindersInv, tick
  <1>2. delivered' = [i \in 1..Len(added) |->
                        delivered[i] \cup (IF Due(added[i], now + 1) THEN {now + 1} ELSE {})]
    BY <1>1 DEF tick
  <1>3. ASSUME NEW i \in 1..Len(added)
        PROVE  delivered'[i] \in SUBSET Nat /\ RequestKept(added[i], delivered'[i], now + 1)
    <2>1. /\ added[i] \in Request /\ delivered[i] \in SUBSET Nat
          /\ RequestKept(added[i], delivered[i], now)
      BY <1>1 DEF RemindersInv
    <2>2. RequestKept(added[i], delivered[i] \cup (IF Due(added[i], now + 1) THEN {now + 1} ELSE {}),
                      now + 1)
      BY <1>1, <2>1, TickKeepsRequest
    <2>3. delivered'[i] = delivered[i] \cup (IF Due(added[i], now + 1) THEN {now + 1} ELSE {})
      BY <1>2
    <2> QED BY <1>1, <2>1, <2>2, <2>3
  <1>4. delivered' \in Seq(SUBSET Nat) /\ Len(delivered') = Len(added)
    <2>1. delivered' \in [1..Len(added) -> SUBSET Nat]
      BY <1>2, <1>3
    <2> QED BY <1>1, <2>1
  <1> QED BY <1>1, <1>3, <1>4 DEF RemindersInv

LEMMA RemindersInvHolds == NotificationsSpec => []RemindersInv
  <1>1. NotificationsInit => RemindersInv
    BY NotificationsAssumption DEF NotificationsInit, RemindersInv
  <1>2. RemindersInv /\ [NotificationsNext]_notifyVars => RemindersInv'
    <2> SUFFICES ASSUME RemindersInv, [NotificationsNext]_notifyVars PROVE RemindersInv'
      OBVIOUS
    <2>1. CASE getPersission \/ UNCHANGED notifyVars
      BY <2>1 DEF getPersission, notifyVars, RemindersInv
    <2>2. CASE pickDate
      BY <2>2, NotificationsAssumption DEF pickDate, RemindersInv
    <2>3. CASE scheduleReminder
      BY <2>3, PushKeepsInv DEF scheduleReminder, RemindersInv
    <2>4. CASE addNotification
      <3>1. now + Ticks \in Nat
        BY NotificationsAssumption DEF RemindersInv
      <3> QED BY <2>4, <3>1, PushKeepsInv DEF addNotification
    <2>5. CASE tick
      BY <2>5, TickKeepsInv
    <2> QED BY <2>1, <2>2, <2>3, <2>4, <2>5 DEF NotificationsNext
  <1> QED BY <1>1, <1>2, PTL DEF NotificationsSpec

(* A reminder for a later minute comes in that minute and in no other, and *)
(* a bell rings within its 60 seconds, although the trigger drops seconds. *)
THEOREM RemindersKeepTime == NotificationsSpec => []RemindersRight
  <1>1. ASSUME RemindersInv, NEW i \in DOMAIN added
        PROVE  LET r == added[i]
               IN  /\ \A t \in delivered[i] : MinuteOf(t) = MinuteOf(r.date)
                   /\ (r.accepted /\ MinuteOf(r.at) < MinuteOf(r.date)
                        /\ MinuteOf(r.date) < MinuteOf(now)) => delivered[i] # {}
                   /\ (r.from = "bell" /\ r.accepted /\ now >= r.at + Ticks) =>
                        \E t \in delivered[i] : r.at < t /\ t <= r.at + Ticks
    <2>0. PICK r \in Request : r = added[i] /\ RequestKept(r, delivered[i], now)
      BY <1>1 DEF RemindersInv
    <2>1. now \in Nat /\ r.at \in Nat /\ r.date \in Nat /\ Ticks \in Nat
      BY <1>1, NotificationsAssumption DEF RemindersInv, Request
    <2>2. PICK m \in Nat : m = MinuteOf(r.date) /\ m = r.minute
      BY <2>0, <2>1, MinuteFacts DEF RequestKept
    <2>3. PICK p \in Nat : p = m * Ticks /\ MinuteOf(p) = m
      BY FirstTickOfMinute
    <2>4. p <= r.date /\ r.date < p + Ticks
      BY <2>1, <2>2, <2>3, MinuteFacts
    <2>5. /\ \A t \in delivered[i] : t = p
          /\ (r.accepted /\ r.at < p /\ p <= now) => p \in delivered[i]
          /\ r.from = "bell" => r.date = r.at + Ticks
      BY <2>0, <2>2, <2>3 DEF RequestKept
    <2>6. ASSUME r.accepted, MinuteOf(r.at) < m, m < MinuteOf(now)
          PROVE  p \in delivered[i]
      <3>1. PICK a \in Nat : a = MinuteOf(r.at)
        BY <2>1, MinuteFacts
      <3>2. PICK n \in Nat : n = MinuteOf(now)
        BY <2>1, MinuteFacts
      <3>3. PICK x \in Nat : x = a * Ticks /\ r.at < x + Ticks
        BY <2>1, <3>1, MinuteFacts
      <3>4. PICK y \in Nat : y = n * Ticks /\ y <= now
        BY <2>1, <3>2, MinuteFacts
      <3>5. x + Ticks <= p
        BY <2>3, <2>6, <3>1, <3>3, LaterMinute
      <3>6. p + Ticks <= y
        BY <2>3, <2>6, <3>2, <3>4, LaterMinute
      <3> QED BY <2>1, <2>5, <2>6, <3>3, <3>4, <3>5, <3>6
    <2>7. ASSUME r.from = "bell", r.accepted, now >= r.at + Ticks
          PROVE  p \in delivered[i] /\ r.at < p /\ p <= r.at + Ticks
      <3>1. r.date = r.at + Ticks
        BY <2>5, <2>7
      <3>2. r.at < p /\ p <= r.at + Ticks /\ p <= now
        BY <2>1, <2>4, <2>7, <3>1
      <3> QED BY <2>5, <2>7, <3>2
    <2> QED BY <2>0, <2>2, <2>3, <2>5, <2>6, <2>7
  <1>2. RemindersInv => RemindersRight
    BY <1>1 DEF RemindersRight, RemindersOnTime, BellRings
  <1> QED BY <1>2, RemindersInvHolds, PTL

-----------------------------------------------------------------------------
(* The reviews.                                                            *)

NoName == ""

LEMMA ReviewConstants ==
  /\ UppercasedPath \in [TypedNames -> Seq(STRING)]
  /\ NoPage \notin ReviewCourses /\ NoName \notin TypedNames
  /\ MaxReviews \in Nat /\ MaxObservers \in Nat
  BY ReviewsAssumption, Zenon DEF NoName

ReviewTypes ==
  /\ database \in [ReviewCourses -> SUBSET Children]
  /\ form \in [course : TypedNames \cup {NoName}, reviewText : Texts \cup {0}]
  /\ observers \in Nat
  /\ reviews \in [Children -> Nat]
  /\ events \in Seq(SUBSET Children)
  /\ reviewPage = NoPage => observers = 0
  /\ reviewPage # NoPage => reviewPage \in ReviewCourses

(* The last snapshot on its way is the database, each was, and when none   *)
(* is on its way the page shows all.                                       *)
SnapshotsRight ==
  /\ observers = 0 => events = <<>> /\ reviews = NoReviews
  /\ observers > 0 =>
       /\ \A i \in 1..Len(events) : events[i] \subseteq database[reviewPage]
       /\ \A r \in Children : reviews[r] > 0 => r \in database[reviewPage]
       /\ events # <<>> => events[Len(events)] = database[reviewPage]
       /\ events = <<>> => \A r \in database[reviewPage] : reviews[r] > 0

(* A text typed here is in the database once, and not while the form holds *)
(* it.                                                                     *)
TextsOnce ==
  /\ \A r, q \in Written : r.text \in Texts /\ r.text = q.text => r = q
  /\ form.reviewText # 0 => \A r \in Written : r.text # form.reviewText

StrangeNames == \E n \in filedUnder : Len(UppercasedPath[n]) # 1

(* What is no review was filed under a name with a slash.                  *)
OthersHaveNames == (reviewTrap \/ \E r \in Written : r.fields = "other") => StrangeNames

ReviewsInv == ReviewTypes /\ SnapshotsRight /\ TextsOnce /\ OthersHaveNames

(* What setValue leaves in the database.                                   *)
Stored(path, review) == IF Len(path) = 1 THEN review ELSE [review EXCEPT !.fields = "other"]

LEMMA StoredFacts ==
  ASSUME NEW path \in Seq(STRING \cup ReviewCourses), NEW review \in Children
  PROVE  /\ Stored(path, review) \in Children
         /\ Stored(path, review).text = review.text
         /\ Stored(path, review).fields = "other" => review.fields = "other" \/ Len(path) # 1
  BY DEF Stored, Children

LEMMA SetValueFacts ==
  ASSUME ReviewsInv, NEW path \in Seq(STRING \cup ReviewCourses), path # <<>>, NEW review \in Children,
         SetValue(path, review), UNCHANGED <<reviewPage, observers, reviews>>
  PROVE  /\ database' \in [ReviewCourses -> SUBSET Children]
         /\ events' \in Seq(SUBSET Children)
         /\ SnapshotsRight'
         /\ Written' \subseteq Written \cup {Stored(path, review)}
  <1>0. ReviewTypes /\ SnapshotsRight
    BY DEF ReviewsInv
  <1>1. CASE path[1] \notin ReviewCourses
    <2>1. UNCHANGED <<database, events>>
      BY <1>1 DEF SetValue
    <2> QED BY <1>0, <2>1 DEF ReviewTypes, SnapshotsRight, Written
  <1>2. CASE path[1] \in ReviewCourses
    <2>1. PICK c \in ReviewCourses : c = path[1]
      BY <1>2
    <2>2. PICK x \in Children : x = Stored(path, review)
      BY StoredFacts
    <2>3. database' = [database EXCEPT ![c] = @ \cup {x}] /\ events' = Notified(c)
      BY <1>2, <2>1, <2>2 DEF SetValue, Stored
    <2>4. /\ database' \in [ReviewCourses -> SUBSET Children]
          /\ database'[c] = database[c] \cup {x}
          /\ \A d \in ReviewCourses : d # c => database'[d] = database[d]
      BY <1>0, <2>3 DEF ReviewTypes
    <2>5. Written' \subseteq Written \cup {x}
      BY <1>0, <2>4 DEF Written, ReviewTypes
    <2>6. events' \in Seq(SUBSET Children) /\ SnapshotsRight'
      <3>1. CASE reviewPage # c
        <4>1. events' = events
          BY <2>3, <3>1 DEF Notified
        <4>2. observers > 0 => database'[reviewPage] = database[reviewPage]
          BY <1>0, <2>4, <3>1 DEF ReviewTypes
        <4> QED BY <1>0, <4>1, <4>2 DEF ReviewTypes, SnapshotsRight
      <3>2. CASE reviewPage = c
        <4> DEFINE new == [o \in 1..observers |-> database'[c]]
        <4>1. events' = events \o new
          BY <2>3, <3>2 DEF Notified
        <4>2. new \in Seq(SUBSET Children) /\ Len(new) = observers /\ observers \in Nat
          BY <1>0, <2>4 DEF ReviewTypes
        <4>3. \A o \in 1..observers : new[o] = database'[c]
          OBVIOUS
        <4> HIDE DEF new
        <4>4. /\ events' \in Seq(SUBSET Children)
              /\ Len(events') = Len(events) + observers
              /\ \A i \in 1..Len(events') :
                   events'[i] = IF i <= Len(events) THEN events[i] ELSE new[i - Len(events)]
          BY <1>0, <4>1, <4>2, ConcatProperties DEF ReviewTypes
        <4>5. CASE observers = 0
          <5>1. events = <<>> /\ reviews = NoReviews
            BY <1>0, <4>5 DEF SnapshotsRight
          <5>2. Len(events') = 0
            BY <4>4, <4>5, <5>1
          <5>3. events' = <<>>
            BY <4>4, <5>2, EmptySeq
          <5> QED BY <4>4, <4>5, <5>1, <5>3 DEF SnapshotsRight
        <4>6. CASE observers > 0
          <5>1. Len(events) \in Nat
            BY <1>0 DEF ReviewTypes
          <5>2. ASSUME NEW i \in 1..Len(events')
                PROVE  /\ events'[i] \subseteq database'[c]
                       /\ i = Len(events') => events'[i] = database'[c]
            <6>1. CASE i <= Len(events)
              <7>1. i \in 1..Len(events) /\ i # Len(events')
                BY <4>2, <4>4, <4>6, <5>1, <6>1
              <7>2. events'[i] = events[i] /\ events[i] \subseteq database[c]
                BY <1>0, <3>2, <4>4, <4>6, <6>1, <7>1 DEF SnapshotsRight
              <7> QED BY <2>4, <7>1, <7>2
            <6>2. CASE ~ (i <= Len(events))
              <7>1. i - Len(events) \in 1..observers
                BY <4>2, <4>4, <5>1, <6>2
              <7> QED BY <4>3, <4>4, <6>2, <7>1
            <6> QED BY <6>1, <6>2
          <5>3. Len(events') \in 1..Len(events')
            BY <4>2, <4>4, <4>6, <5>1
          <5>4. events' # <<>>
            BY <5>3
          <5>5. \A r \in Children : reviews'[r] > 0 => r \in database'[reviewPage']
            BY <1>0, <2>4, <3>2, <4>6 DEF SnapshotsRight
          <5>6. observers' = observers /\ reviewPage' = c /\ observers # 0
            BY <3>2, <4>6
          <5> QED BY <4>4, <5>2, <5>3, <5>4, <5>5, <5>6 DEF SnapshotsRight
        <4> QED BY <4>2, <4>5, <4>6
      <3> QED BY <3>1, <3>2
    <2> QED BY <2>2, <2>4, <2>5, <2>6
  <1> QED BY <1>1, <1>2

(* A text that is nowhere has no copies, and one that is somewhere has one.*)
LEMMA CopiesFacts ==
  ASSUME TextsOnce, NEW t \in Texts
  PROVE  /\ Copies(t) \in {0, 1}
         /\ Copies(t) = 0 => \A r \in Written : r.text # t
  <1> DEFINE C == {r \in Written : r.text = t}
  <1>1. CASE C = {}
    <2>1. Cardinality(C) = 0
      BY <1>1, FS_EmptySet
    <2> QED BY <1>1, <2>1 DEF Copies
  <1>2. CASE C # {}
    <2>1. PICK r \in C : TRUE
      BY <1>2
    <2>2. C = {r}
      BY <2>1 DEF TextsOnce
    <2>3. Cardinality(C) = 1
      BY <2>2, FS_Singleton
    <2> QED BY <2>3 DEF Copies
  <1> QED BY <1>1, <1>2

LEMMA ReviewsStep ==
  ASSUME ReviewsInv, [ReviewsNext]_reviewVars
  PROVE  ReviewsInv'
  <1>0. ReviewTypes /\ SnapshotsRight /\ TextsOnce /\ OthersHaveNames
    BY DEF ReviewsInv
  <1>a. form.reviewText \in Texts \cup {0} /\ Texts \subseteq Nat \ {0} /\ 0 \notin Texts
    BY <1>0, ReviewConstants DEF ReviewTypes, Texts
  <1>b. \A c \in ReviewCourses : database[c] \subseteq Children /\ database[c] \subseteq Written
    BY <1>0 DEF ReviewTypes, Written
  (* What a step must show when it leaves the database alone.              *)
  <1>c. ASSUME UNCHANGED database
        PROVE  Written' = Written
    BY <1>c DEF Written
  <1>1. CASE typeReview
    <2>1. UNCHANGED <<database, submitted, reviewPage, observers, events, reviews, reviewTrap, filedUnder>>
      BY <1>1, Zenon DEF typeReview
    <2>2. \/ \E n \in TypedNames \cup {NoName} : form' = [form EXCEPT !.course = n]
          \/ \E t \in Texts : Copies(t) = 0 /\ form' = [form EXCEPT !.reviewText = t]
      BY <1>1, Zenon DEF typeReview, NoName
    <2>3. form' \in [course : TypedNames \cup {NoName}, reviewText : Texts \cup {0}]
      BY <1>0, <2>2 DEF ReviewTypes
    <2>4. form'.reviewText = form.reviewText \/ \A r \in Written : r.text # form'.reviewText
      <3>1. CASE \E n \in TypedNames \cup {NoName} : form' = [form EXCEPT !.course = n]
        BY <1>0, <3>1 DEF ReviewTypes
      <3>2. CASE \E t \in Texts : Copies(t) = 0 /\ form' = [form EXCEPT !.reviewText = t]
        <4>1. PICK t \in Texts : Copies(t) = 0 /\ form' = [form EXCEPT !.reviewText = t]
          BY <3>2
        <4>2. form'.reviewText = t
          BY <1>0, <4>1 DEF ReviewTypes
        <4> QED BY <1>0, <4>1, <4>2, CopiesFacts
      <3> QED BY <2>2, <3>1, <3>2
    <2>5. TextsOnce'
      BY <1>0, <1>c, <2>1, <2>4 DEF TextsOnce
    <2>6. SnapshotsRight' /\ OthersHaveNames'
      BY <1>0, <1>c, <2>1 DEF SnapshotsRight, OthersHaveNames, StrangeNames
    <2> QED BY <1>0, <2>1, <2>3, <2>5, <2>6 DEF ReviewsInv, ReviewTypes
  <1>2. CASE upload
    <2>1. /\ form.reviewText # 0 /\ form.course # NoName
          /\ NewReview.times \in Texts /\ filedUnder' = filedUnder \cup {form.course}
          /\ UNCHANGED <<reviewPage, observers, reviews>>
      BY <1>2, Zenon DEF upload, FormFilled, NoName
    <2>2. form.course \in TypedNames /\ form.reviewText \in Texts
      BY <1>0, <1>a, <2>1 DEF ReviewTypes
    <2>3. PICK path \in Seq(STRING \cup ReviewCourses) : path = UppercasedPath[form.course]
      <3>1. UppercasedPath[form.course] \in Seq(STRING)
        BY <2>2, ReviewConstants
      <3> QED BY <3>1
    <2>4. CASE path = <<>>
      <3>1. reviewTrap' = TRUE /\ UNCHANGED <<database, events, form, submitted>>
        BY <1>2, <2>3, <2>4, Zenon DEF upload
      <3>2. Len(path) # 1
        BY <2>4
      <3>3. StrangeNames'
        BY <2>1, <2>3, <3>2 DEF StrangeNames
      <3> QED BY <1>0, <1>c, <2>1, <3>1, <3>3
              DEF ReviewsInv, ReviewTypes, SnapshotsRight, TextsOnce, OthersHaveNames
    <2>5. CASE path # <<>>
      <3>1. SetValue(path, NewReview) /\ form' = ClearedForm /\ reviewTrap' = reviewTrap
        BY <1>2, <2>3, <2>5, Zenon DEF upload
      <3>2. /\ NewReview \in Children /\ NewReview.text = form.reviewText
            /\ NewReview.fields = "strings"
        BY <2>1, <2>2 DEF NewReview, Children
      <3>3. PICK x \in Children :
              /\ x = Stored(path, NewReview) /\ x.text = form.reviewText
              /\ x.fields = "other" => Len(path) # 1
        BY <3>2, StoredFacts
      <3>4. /\ database' \in [ReviewCourses -> SUBSET Children]
            /\ events' \in Seq(SUBSET Children)
            /\ SnapshotsRight' /\ Written' \subseteq Written \cup {x}
        BY <2>1, <2>5, <3>1, <3>2, <3>3, SetValueFacts
      <3>5. form' \in [course : TypedNames \cup {NoName}, reviewText : Texts \cup {0}]
            /\ form'.reviewText = 0
        <4>1. form' = [course |-> NoName, reviewText |-> 0]
          BY <3>1, Zenon DEF ClearedForm, NoName
        <4> QED BY <4>1
      <3>6. TextsOnce'
        <4>1. \A r \in Written : r.text # x.text
          BY <1>0, <2>1, <3>3 DEF TextsOnce
        <4> QED BY <1>0, <3>4, <3>5, <4>1 DEF TextsOnce
      <3>7. StrangeNames => StrangeNames'
        BY <2>1 DEF StrangeNames
      <3>8. x.fields = "other" => StrangeNames'
        BY <2>1, <2>3, <3>3 DEF StrangeNames
      <3>9. OthersHaveNames'
        BY <1>0, <3>1, <3>4, <3>7, <3>8 DEF OthersHaveNames
      <3> QED BY <1>0, <2>1, <3>4, <3>5, <3>6, <3>9 DEF ReviewsInv, ReviewTypes
    <2> QED BY <2>4, <2>5
  <1>3. ASSUME NEW c \in ReviewCourses, reviewElsewhere(c)
        PROVE  ReviewsInv'
    <2>1. PICK t \in Elsewhere :
            SetValue(<<c>>, [text |-> t, times |-> 1, fields |-> "strings"])
      BY <1>3 DEF reviewElsewhere
    <2>2. UNCHANGED <<form, submitted, reviewPage, observers, reviews, reviewTrap, filedUnder>>
      BY <1>3 DEF reviewElsewhere
    <2>3. PICK n \in Texts : t = -n
      BY DEF Elsewhere
    <2>4. MaxReviews >= 1 /\ n >= 1 /\ n \in Nat
      BY ReviewConstants DEF Texts
    <2> DEFINE review == [text |-> t, times |-> 1, fields |-> "strings"]
    <2>5. review \in Children /\ review.text = t /\ review.fields = "strings"
      BY <2>4, ReviewConstants DEF Children, Texts
    <2>6. t \notin Texts
      BY <2>3, <2>4, <1>a
    <2> HIDE DEF review
    <2>7. PICK path \in Seq(STRING \cup ReviewCourses) :
            path = <<c>> /\ path # <<>> /\ Len(path) = 1
      <3>1. <<c>> \in Seq(STRING \cup ReviewCourses) /\ Len(<<c>>) = 1 /\ <<c>> # <<>>
        OBVIOUS
      <3> QED BY <3>1
    <2>8. SetValue(path, review)
      BY <2>1, <2>7 DEF review
    <2>9. PICK x \in Children : x = Stored(path, review) /\ x.text = t /\ x.fields = "strings"
      <3>1. Stored(path, review) = review
        BY <2>7 DEF Stored
      <3> QED BY <2>5, <3>1
    <2>10. /\ database' \in [ReviewCourses -> SUBSET Children]
           /\ events' \in Seq(SUBSET Children)
           /\ SnapshotsRight' /\ Written' \subseteq Written \cup {x}
      BY <2>2, <2>5, <2>7, <2>8, <2>9, SetValueFacts
    <2>11. TextsOnce'
      BY <1>0, <1>a, <2>2, <2>6, <2>9, <2>10 DEF TextsOnce
    <2>12. OthersHaveNames'
      BY <1>0, <2>2, <2>9, <2>10 DEF OthersHaveNames, StrangeNames
    <2> QED BY <1>0, <2>2, <2>10, <2>11, <2>12 DEF ReviewsInv, ReviewTypes
  <1>4. ASSUME NEW c \in ReviewCourses, openReviews(c)
        PROVE  ReviewsInv'
    <2>1. /\ reviewPage' = c /\ observers' = 0 /\ events' = <<>> /\ reviews' = NoReviews
          /\ UNCHANGED <<database, form, submitted, reviewTrap, filedUnder>>
      BY <1>4 DEF openReviews
    <2>2. ReviewTypes'
      BY <1>0, <2>1, ReviewConstants DEF ReviewTypes, NoReviews
    <2>3. SnapshotsRight'
      BY <2>1 DEF SnapshotsRight, NoReviews
    <2> QED BY <1>0, <1>c, <2>1, <2>2, <2>3 DEF ReviewsInv, TextsOnce, OthersHaveNames, StrangeNames
  <1>5. CASE loadReviews
    <2>1. /\ reviewPage \in ReviewCourses /\ observers' = observers + 1
          /\ events' = Append(events, database[reviewPage])
          /\ UNCHANGED <<database, form, submitted, reviewPage, reviews, reviewTrap, filedUnder>>
      BY <1>0, <1>5 DEF loadReviews, ReviewTypes
    <2>2. PICK list \in Seq(SUBSET Children) : list = events /\ Len(list) \in Nat
      BY <1>0 DEF ReviewTypes
    <2>3. PICK shot \in SUBSET Children : shot = database[reviewPage]
      BY <1>b, <2>1
    <2>4. /\ events' \in Seq(SUBSET Children) /\ Len(events') = Len(list) + 1
          /\ events'[Len(list) + 1] = shot
          /\ \A k \in 1..Len(list) : events'[k] = list[k]
      BY <2>1, <2>2, <2>3
    <2>5. observers' > 0 /\ observers' # 0 /\ observers' \in Nat
      BY <1>0, <2>1 DEF ReviewTypes
    <2>6. \A i \in 1..Len(list) : list[i] \subseteq shot
      <3>1. CASE observers = 0
        <4>1. list = <<>>
          BY <1>0, <2>2, <3>1 DEF SnapshotsRight
        <4> QED BY <4>1
      <3>2. CASE observers > 0
        BY <1>0, <2>2, <2>3, <3>2 DEF SnapshotsRight
      <3> QED BY <1>0, <3>1, <3>2 DEF ReviewTypes
    <2>7. \A r \in Children : reviews[r] > 0 => r \in shot
      <3>1. CASE observers = 0
        <4>1. reviews = NoReviews
          BY <1>0, <3>1 DEF SnapshotsRight
        <4> QED BY <4>1 DEF NoReviews
      <3>2. CASE observers > 0
        BY <1>0, <2>3, <3>2 DEF SnapshotsRight
      <3> QED BY <1>0, <3>1, <3>2 DEF ReviewTypes
    <2>8. \A i \in 1..Len(events') : events'[i] \subseteq shot
      <3>1. \A i \in 1..Len(events') : i \in 1..Len(list) \/ i = Len(list) + 1
        BY <2>2, <2>4
      <3> QED BY <2>4, <2>6, <3>1
    <2>9. events' # <<>>
      BY <2>2, <2>4
    <2>10. SnapshotsRight'
      BY <2>1, <2>3, <2>4, <2>5, <2>7, <2>8, <2>9 DEF SnapshotsRight
    <2>11. ReviewTypes'
      BY <1>0, <2>1, <2>4, <2>5, ReviewConstants DEF ReviewTypes
    <2> QED BY <1>0, <1>c, <2>1, <2>10, <2>11 DEF ReviewsInv, TextsOnce, OthersHaveNames, StrangeNames
  <1>6. CASE observed
    <2>1. /\ events # <<>> /\ events' = Tail(events)
          /\ reviewTrap' = (\E r \in Head(events) : r.fields = "other")
          /\ reviews' = [r \in Children |-> reviews[r] + (IF r \in Head(events) THEN 1 ELSE 0)]
          /\ UNCHANGED <<database, form, submitted, reviewPage, observers, filedUnder>>
      BY <1>6 DEF observed
    <2>2. /\ observers > 0 /\ observers # 0 /\ reviewPage \in ReviewCourses
      BY <1>0, <2>1 DEF SnapshotsRight, ReviewTypes
    <2>3. PICK shot \in SUBSET Children : shot = database[reviewPage] /\ shot \subseteq Written
      BY <1>b, <2>2
    <2>4. PICK list \in Seq(SUBSET Children) : list = events /\ Len(list) \in Nat /\ Len(list) > 0
      <3>1. events \in Seq(SUBSET Children)
        BY <1>0 DEF ReviewTypes
      <3> QED BY <2>1, <3>1, EmptySeq
    <2>5. /\ \A i \in 1..Len(list) : list[i] \subseteq shot
          /\ \A r \in Children : reviews[r] > 0 => r \in shot
          /\ list[Len(list)] = shot
      BY <1>0, <2>1, <2>2, <2>3, <2>4 DEF SnapshotsRight
    <2>6. /\ Head(list) = list[1] /\ Tail(list) \in Seq(SUBSET Children)
          /\ Len(Tail(list)) = Len(list) - 1
          /\ \A i \in 1..(Len(list) - 1) : Tail(list)[i] = list[i + 1]
      BY <2>4
    <2>7. Head(list) \subseteq shot
      BY <2>4, <2>5, <2>6
    <2>8. reviews' \in [Children -> Nat]
      BY <1>0, <2>1 DEF ReviewTypes
    <2>9. /\ \A r \in Children : reviews'[r] > 0 => r \in shot
          /\ \A r \in Head(list) : reviews'[r] > 0
      <3>1. \A r \in Children : reviews[r] \in Nat
        BY <1>0 DEF ReviewTypes
      <3>2. \A r \in Children : reviews'[r] = reviews[r] + (IF r \in Head(list) THEN 1 ELSE 0)
        BY <2>1, <2>4
      <3> QED BY <2>3, <2>5, <2>7, <3>1, <3>2
    <2>10. \A i \in 1..Len(events') : events'[i] \subseteq shot
      BY <2>1, <2>4, <2>5, <2>6
    <2>11. events' # <<>> => events'[Len(events')] = shot
      <3>1. CASE Len(list) = 1
        <4>1. Len(Tail(list)) = 0
          BY <2>6, <3>1
        <4> QED BY <2>1, <2>4, <2>6, <4>1, EmptySeq
      <3>2. CASE Len(list) # 1
        BY <2>1, <2>4, <2>5, <2>6, <3>2
      <3> QED BY <3>1, <3>2
    <2>12. events' = <<>> => Head(list) = shot
      <3> SUFFICES ASSUME events' = <<>> PROVE Head(list) = shot
        OBVIOUS
      <3>1. Len(list) = 1
        BY <2>1, <2>4, <2>6, EmptySeq
      <3> QED BY <2>5, <2>6, <3>1
    <2>13. SnapshotsRight'
      BY <2>1, <2>2, <2>3, <2>9, <2>10, <2>11, <2>12 DEF SnapshotsRight
    <2>14. ReviewTypes'
      BY <1>0, <2>1, <2>4, <2>6, <2>8 DEF ReviewTypes
    <2>15. OthersHaveNames'
      <3>1. reviewTrap' => \E r \in Written : r.fields = "other"
        BY <2>1, <2>3, <2>4, <2>7, Zenon
      <3> QED BY <1>0, <1>c, <2>1, <3>1 DEF OthersHaveNames, StrangeNames
    <2> QED BY <1>0, <1>c, <2>1, <2>13, <2>14, <2>15 DEF ReviewsInv, TextsOnce
  <1>7. CASE relaunchReviews
    <2>1. /\ reviewTrap' = FALSE /\ form' = [course |-> NoName, reviewText |-> 0]
          /\ reviewPage' = NoPage /\ observers' = 0 /\ events' = <<>> /\ reviews' = NoReviews
          /\ UNCHANGED <<database, filedUnder>>
      BY <1>7, Zenon DEF relaunchReviews, NoName
    <2>2. ReviewTypes'
      BY <1>0, <2>1 DEF ReviewTypes, NoReviews
    <2>3. SnapshotsRight'
      BY <2>1 DEF SnapshotsRight, NoReviews
    <2> QED BY <1>0, <1>c, <2>1, <2>2, <2>3 DEF ReviewsInv, TextsOnce, OthersHaveNames, StrangeNames
  <1>8. CASE dismissSubmitted \/ UNCHANGED reviewVars
    <2>1. UNCHANGED <<database, form, reviewPage, observers, events, reviews, reviewTrap, filedUnder>>
      BY <1>8 DEF dismissSubmitted, reviewVars
    <2> QED BY <1>0, <1>c, <2>1 DEF ReviewsInv, ReviewTypes, SnapshotsRight, TextsOnce, OthersHaveNames, StrangeNames
  <1> QED BY <1>1, <1>2, <1>3, <1>4, <1>5, <1>6, <1>7, <1>8 DEF ReviewsNext

LEMMA ReviewsInvHolds == ReviewsSpec => []ReviewsInv
  <1>1. ReviewsInit => ReviewsInv
    <2> SUFFICES ASSUME ReviewsInit PROVE ReviewsInv
      OBVIOUS
    <2>1. /\ database = [c \in ReviewCourses |-> {}]
          /\ form = [course |-> NoName, reviewText |-> 0]
          /\ reviewTrap = FALSE /\ reviewPage = NoPage /\ observers = 0
          /\ events = <<>> /\ reviews = NoReviews
      BY Zenon DEF ReviewsInit, NoName
    <2>2. Written = {}
      BY <2>1 DEF Written
    <2>3. ReviewTypes
      BY <2>1 DEF ReviewTypes, NoReviews
    <2>4. SnapshotsRight
      BY <2>1 DEF SnapshotsRight, NoReviews
    <2> QED BY <2>1, <2>2, <2>3, <2>4 DEF ReviewsInv, TextsOnce, OthersHaveNames
  <1> QED BY <1>1, ReviewsStep, PTL DEF ReviewsSpec

(* A review that was submitted is shown to whoever looks at its course, is *)
(* not submitted twice, and reviews filed under the number of a course end *)
(* no process.                                                             *)
THEOREM ReviewsAreRight == ReviewsSpec => []ReviewsRight
  <1>1. ReviewsInv => EveryReviewShown
    <2> SUFFICES ASSUME ReviewsInv, observers > 0, events = <<>>
                 PROVE  {r \in Children : reviews[r] > 0} = database[reviewPage]
      BY DEF EveryReviewShown
    <2>1. reviewPage \in ReviewCourses /\ database[reviewPage] \subseteq Children
      BY DEF ReviewsInv, ReviewTypes
    <2> QED BY <2>1 DEF ReviewsInv, SnapshotsRight
  <1>2. ReviewsInv => FiledOnce
    <2> SUFFICES ASSUME ReviewsInv, NEW t \in Texts PROVE Copies(t) <= 1
      BY DEF FiledOnce
    <2>1. Copies(t) \in {0, 1}
      BY CopiesFacts DEF ReviewsInv
    <2> QED BY <2>1
  <1>3. ReviewsInv => OnlyNamesTrap
    BY DEF ReviewsInv, OthersHaveNames, StrangeNames, OnlyNamesTrap
  <1>4. ReviewsInv => ReviewsRight
    BY <1>1, <1>2, <1>3 DEF ReviewsRight
  <1> QED BY <1>4, ReviewsInvHolds, PTL

-----------------------------------------------------------------------------
(* The map.                                                                *)

(* What a request that no other overlaps has written, by how far it is.    *)
(* AloneTripShown speaks of its end only; this is what leads there.        *)
AloneProgress ==
  started > 0 /\ tasks[started].alone =>
    /\ \A k \in TapIDs : k # started => ~ RunningTask(k)
    /\ tasks[started].pc \in {"calculate", "dirs", "giveUp", "failed"} => dirs = None
    /\ tasks[started].pc \in {"time", "distance", "region", "done"} => dirs = Dest(started)
    /\ tasks[started].pc \in {"distance", "region", "done"} => time = Dest(started)
    /\ tasks[started].pc \in {"region", "done"} => distance = Dest(started)
    /\ tasks[started].pc = "done" => region = Dest(started)

(* The inductive invariant.                                                *)
DInv == MapTypeOK /\ PinIsLastTap /\ AloneProgress

-----------------------------------------------------------------------------
(* A second pin replaces the first one and leaves the user alone.          *)
LEMMA PinnedReplaces ==
  ASSUME NEW S, NEW u \in S, NEW a \in S, NEW b \in S
  PROVE  /\ Append(<<u>>, b) = <<u, b>>
         /\ Append(RemoveAt(<<u, a>>, 2), b) = <<u, b>>
  <1>0. <<u>> \in Seq(S) /\ <<u, a>> \in Seq(S) /\ <<u, b>> \in Seq(S) /\ <<>> \in Seq(S)
    OBVIOUS
  <1>1. Append(<<u>>, b) = <<u, b>>
    <2>1. Append(<<u>>, b) \in Seq(S) /\ Len(Append(<<u>>, b)) = 2
      BY <1>0
    <2>2. \A i \in 1..2 : Append(<<u>>, b)[i] = <<u, b>>[i]
      BY <1>0
    <2> QED BY <1>0, <2>1, <2>2, SeqEqual
  <1>2. SubSeq(<<u, a>>, 1, 1) = <<u>>
    <2>1. SubSeq(<<u, a>>, 1, 1) \in Seq(S) /\ Len(SubSeq(<<u, a>>, 1, 1)) = 1
          /\ SubSeq(<<u, a>>, 1, 1)[1] = u
      BY <1>0
    <2>2. Len(<<u>>) = 1 /\ <<u>>[1] = u /\ \A i \in 1..1 : i = 1
      OBVIOUS
    <2> DEFINE s == SubSeq(<<u, a>>, 1, 1)
               t == <<u>>
    <2>3. s \in Seq(S) /\ t \in Seq(S) /\ Len(s) = Len(t) /\ Len(s) = 1 /\ s[1] = t[1]
      BY <1>0, <2>1, <2>2
    <2> HIDE DEF s, t
    <2>4. s = t
      BY <2>2, <2>3, SeqEqual
    <2> QED BY <2>4 DEF s, t
  <1>3. SubSeq(<<u, a>>, 3, 2) = <<>>
    <2>1. SubSeq(<<u, a>>, 3, 2) \in Seq(S) /\ Len(SubSeq(<<u, a>>, 3, 2)) = 0
      BY <1>0
    <2> QED BY <2>1, EmptySeq
  <1>4. RemoveAt(<<u, a>>, 2) = <<u>> \o <<>>
    <2>1. Len(<<u, a>>) = 2 /\ 2 - 1 = 1 /\ 2 + 1 = 3
      OBVIOUS
    <2>2. RemoveAt(<<u, a>>, 2) = SubSeq(<<u, a>>, 1, 1) \o SubSeq(<<u, a>>, 3, 2)
      BY <2>1, Zenon DEF RemoveAt
    <2> QED BY <1>2, <1>3, <2>2
  <1>5. <<u>> \o <<>> = <<u>>
    BY <1>0, ConcatEmptySeq
  <1> QED BY <1>1, <1>4, <1>5

(* A tap that was made names a building.                                   *)
LEMMA TapNamesBuilding ==
  ASSUME MapTypeOK, NEW k \in 1..Len(tapped)
  PROVE  tapped[k] \in [dest : Buildings, search : BOOLEAN] /\ tapped[k].dest \in Buildings
  <1> DEFINE T == [dest : Buildings, search : BOOLEAN]
  <1>1. tapped \in Seq(T)
    BY DEF MapTypeOK
  <1>2. tapped[k] \in T
    <2> HIDE DEF T
    <2> QED BY <1>1
  <1> QED BY <1>2

(* The screen before any tap.                                              *)
LEMMA InitDInv == MapInit => DInv
  <1> SUFFICES ASSUME MapInit PROVE DInv
    OBVIOUS
  <1>1. MapTypeOK
    <2>1. \A S : <<>> \in Seq(S)
      BY EmptySeq
    <2>2. tapped \in Seq([dest : Buildings, search : BOOLEAN]) /\ Len(tapped) = 0
      BY <2>1 DEF MapInit
    <2>3. annotations \in Seq(Buildings \cup {User})
      BY DEF MapInit
    <2>4. \A n \in TapIDs : tasks[n].pc = "none" /\ n > started
      BY DirectionsAssumption DEF MapInit, TapIDs
    <2>5. started \in 0..Len(tapped) /\ Len(tapped) <= MaxTaps
      BY <2>2, DirectionsAssumption DEF MapInit
    <2>6. tasks \in [TapIDs -> [pc : {"none", "reset", "calculate", "dirs", "time", "distance",
                                      "region", "giveUp", "done", "failed"},
                                alone : BOOLEAN]]
      BY DEF MapInit
    <2>7. /\ query \in BOOLEAN /\ locations \in BOOLEAN /\ popupTriggered \in BOOLEAN
          /\ {dirs, time, distance} \subseteq Buildings \cup {None}
          /\ region \in Buildings \cup {Campus}
      BY DEF MapInit
    <2> QED BY <2>2, <2>3, <2>4, <2>5, <2>6, <2>7 DEF MapTypeOK
  <1>2. PinIsLastTap /\ AloneProgress
    BY DEF MapInit, PinIsLastTap, AloneProgress
  <1> QED BY <1>1, <1>2 DEF DInv

(* Typing, fetching the buildings, and the popover touch no request.       *)
LEMMA ScreenStep ==
  ASSUME DInv, query' \in BOOLEAN, locations' \in BOOLEAN, popupTriggered' \in BOOLEAN,
         UNCHANGED <<tapped, started, annotations, tasks, model, region>>
  PROVE  DInv'
  <1>1. MapTypeOK'
    BY DEF DInv, MapTypeOK, model
  <1>2. PinIsLastTap'
    BY DEF DInv, PinIsLastTap, model
  <1>3. AloneProgress'
    BY DEF DInv, AloneProgress, model, RunningTask, Dest
  <1> QED BY <1>1, <1>2, <1>3 DEF DInv

(* A tap is only queued.                                                   *)
LEMMA TapStep ==
  ASSUME DInv, NEW building \in Buildings, tap(building)
  PROVE  DInv'
  <1> USE DEF DInv
  <1> DEFINE t == [dest |-> building, search |-> query]
  <1>1. /\ tapped \in Seq([dest : Buildings, search : BOOLEAN])
        /\ t \in [dest : Buildings, search : BOOLEAN]
        /\ tapped' = Append(tapped, t)
        /\ Len(tapped) \in Nat /\ Len(tapped) < MaxTaps /\ started \in 0..Len(tapped)
    BY DEF MapTypeOK, tap
  <1>2. /\ tapped' \in Seq([dest : Buildings, search : BOOLEAN])
        /\ Len(tapped') = Len(tapped) + 1
        /\ \A k \in 1..Len(tapped) : tapped'[k] = tapped[k]
    <2> HIDE DEF t
    <2> QED BY <1>1
  <1>3. UNCHANGED <<screen, started, annotations, tasks, model, region>>
    BY DEF tap
  <1>4. started > 0 => tapped'[started] = tapped[started]
    BY <1>1, <1>2
  <1>5. MapTypeOK'
    BY <1>1, <1>2, <1>3, DirectionsAssumption DEF MapTypeOK, screen, model
  <1>6. PinIsLastTap'
    BY <1>1, <1>3, <1>4 DEF PinIsLastTap
  <1>7. AloneProgress'
    BY <1>3, <1>4 DEF AloneProgress, RunningTask, Dest, model
  <1> QED BY <1>5, <1>6, <1>7

(* The delayed block moves the pin and starts a request.                   *)
LEMMA RunTapStep ==
  ASSUME DInv, runTap
  PROVE  DInv'
  <1> USE DEF DInv
  <1>1. /\ started \in Nat /\ Len(tapped) \in Nat /\ started < Len(tapped)
        /\ started' = started + 1 /\ started' \in 1..Len(tapped) /\ started' \in TapIDs
        /\ tapped' = tapped /\ Len(tapped) <= MaxTaps
    <2>1. started \in 0..Len(tapped) /\ Len(tapped) \in Nat /\ Len(tapped) <= MaxTaps
      BY DEF MapTypeOK
    <2>2. started < Len(tapped) /\ started' = started + 1 /\ tapped' = tapped
      BY DEF runTap
    <2> QED BY <2>1, <2>2, DirectionsAssumption DEF TapIDs
  <1>2. tapped[started'] \in [dest : Buildings, search : BOOLEAN]
        /\ tapped[started'].dest \in Buildings
    BY <1>1, TapNamesBuilding
  <1>3. /\ tasks' \in [TapIDs -> [pc : {"none", "reset", "calculate", "dirs", "time",
                                        "distance", "region", "giveUp", "done", "failed"},
                                  alone : BOOLEAN]]
        /\ tasks'[started'].pc = "reset"
        /\ tasks'[started'].alone => \A k \in TapIDs : ~ RunningTask(k)
        /\ \A k \in TapIDs : k # started' => tasks'[k].pc = tasks[k].pc
    <2>1. ASSUME NEW k \in TapIDs
          PROVE  tasks[k] \in [pc : {"none", "reset", "calculate", "dirs", "time", "distance",
                                     "region", "giveUp", "done", "failed"}, alone : BOOLEAN]
      BY DEF MapTypeOK
    <2>2. (\A k \in TapIDs : ~ RunningTask(k)) \in BOOLEAN
      OBVIOUS
    <2>3. ASSUME NEW k \in TapIDs
          PROVE  /\ k = started' => tasks'[k] = [pc |-> "reset", alone |-> \A j \in TapIDs : ~ RunningTask(j)]
                 /\ k # started' => tasks'[k] = [tasks[k] EXCEPT !.alone = @ /\ ~ RunningTask(k)]
      BY DEF runTap
    <2>4. DOMAIN tasks' = TapIDs /\ tasks' = [k \in TapIDs |-> tasks'[k]]
      BY DEF runTap
    <2>5. ASSUME NEW k \in TapIDs
          PROVE  tasks'[k] \in [pc : {"none", "reset", "calculate", "dirs", "time", "distance",
                                      "region", "giveUp", "done", "failed"}, alone : BOOLEAN]
      <3>2. CASE k = started'
        <4> DEFINE x == \A j \in TapIDs : ~ RunningTask(j)
        <4>1. x \in BOOLEAN /\ tasks'[k] = [pc |-> "reset", alone |-> x]
          BY <2>2, <2>3, <3>2
        <4> HIDE DEF x
        <4> QED BY <4>1
      <3>3. CASE k # started'
        <4> DEFINE x == tasks[k].alone /\ ~ RunningTask(k)
        <4>1. x \in BOOLEAN /\ tasks'[k] = [tasks[k] EXCEPT !.alone = x]
          BY <2>3, <3>3
        <4> HIDE DEF x
        <4> QED BY <2>1, <4>1
      <3> QED BY <3>2, <3>3
    <2>6. ASSUME NEW k \in TapIDs, k # started'
          PROVE  tasks'[k].pc = tasks[k].pc
      BY <2>1, <2>3, <2>6
    <2> QED BY <1>1, <2>3, <2>4, <2>5, <2>6
  <1>4. annotations' = <<User, tapped[started'].dest>>
    <2> DEFINE S == Buildings \cup {User}
               b == tapped[started'].dest
    <2>0. User \in S /\ b \in S /\ annotations' = pinned(b)
      BY <1>2 DEF runTap
    <2> HIDE DEF S, b
    <2>1. CASE started = 0
      <3>1. annotations = <<User>> /\ Len(annotations) = 1
        BY <2>1 DEF PinIsLastTap
      <3>2. Append(<<User>>, b) = <<User, b>>
        BY <2>0, PinnedReplaces
      <3> QED BY <2>0, <3>1, <3>2 DEF pinned, b
    <2>2. CASE started # 0
      <3>1. tapped[started].dest \in Buildings
        BY <1>1, <2>2, TapNamesBuilding
      <3>2. PICK a \in S : annotations = <<User, a>>
        BY <2>2, <3>1 DEF PinIsLastTap, S
      <3>3. Len(annotations) # 1
        BY <3>2
      <3>4. Append(RemoveAt(<<User, a>>, 2), b) = <<User, b>>
        BY <2>0, PinnedReplaces
      <3> QED BY <2>0, <3>2, <3>3, <3>4 DEF pinned, b
    <2> QED BY <2>1, <2>2
  <1>5. PinIsLastTap'
    BY <1>1, <1>4 DEF PinIsLastTap
  <1>6. MapTypeOK'
    <2>1. annotations' \in Seq(Buildings \cup {User})
      BY <1>2, <1>4
    <2>2. \A n \in TapIDs : tasks'[n].pc = "none" <=> n > started'
      BY <1>1, <1>3 DEF MapTypeOK, TapIDs
    <2>3. query' \in BOOLEAN /\ UNCHANGED <<locations, popupTriggered, model, region>>
      BY DEF runTap
    <2> QED BY <1>1, <1>3, <2>1, <2>2, <2>3 DEF MapTypeOK, model
  <1>7. AloneProgress'
    <2>1. tasks'[started'].alone => \A k \in TapIDs : k # started' => ~ RunningTask(k)'
      BY <1>3 DEF RunningTask
    <2> QED BY <1>3, <2>1 DEF AloneProgress
  <1> QED BY <1>5, <1>6, <1>7

(* One step of computeDirections.  A request alone is the only one that    *)
(* takes such a step.                                                      *)
LEMMA TaskStep ==
  ASSUME DInv, NEW n \in TapIDs, computeDirections(n)
  PROVE  DInv'
  <1> USE DEF DInv
  <1> DEFINE PC == {"none", "reset", "calculate", "dirs", "time", "distance",
                    "region", "giveUp", "done", "failed"}
  <1>1. PICK to \in PC \ {"none"} :
          /\ tasks[n].pc \notin {"none", "done", "failed"}
          /\ tasks' = [tasks EXCEPT ![n].pc = to]
          /\ UNCHANGED main
    BY DEF computeDirections, goto, resetDirs, routeFound, noRoute, setDirs, setTime,
           setDistance, setRegion, setDefaultRegion
  <1>2. /\ n \in 1..started /\ n \in 1..Len(tapped) /\ Dest(n) \in Buildings
        /\ UNCHANGED <<tapped, started, annotations>>
    <2>1. UNCHANGED <<tapped, started, annotations>>
      BY <1>1 DEF main
    <2>2. ~ (n > started)
      BY <1>1 DEF MapTypeOK
    <2>3. started \in 0..Len(tapped) /\ Len(tapped) \in Nat /\ n \in 1..MaxTaps
      BY DEF MapTypeOK, TapIDs
    <2>4. n \in 1..started /\ n \in 1..Len(tapped)
      BY <2>2, <2>3, DirectionsAssumption
    <2>5. tapped[n] \in [dest : Buildings, search : BOOLEAN]
      BY <2>4, TapNamesBuilding
    <2> QED BY <2>1, <2>4, <2>5 DEF Dest
  <1>3. /\ tasks' \in [TapIDs -> [pc : PC, alone : BOOLEAN]]
        /\ tasks'[n].pc = to /\ tasks'[n].alone = tasks[n].alone
        /\ \A k \in TapIDs : k # n => tasks'[k] = tasks[k]
    BY <1>1 DEF MapTypeOK
  <1>4. MapTypeOK'
    <2>1. /\ {dirs', time', distance'} \subseteq Buildings \cup {None}
          /\ region' \in Buildings \cup {Campus}
      BY <1>2 DEF MapTypeOK, computeDirections, resetDirs, routeFound, noRoute, setDirs, setTime,
                  setDistance, setRegion, setDefaultRegion, model
    <2>2. \A k \in TapIDs : tasks'[k].pc = "none" <=> k > started'
      BY <1>1, <1>2, <1>3 DEF MapTypeOK
    <2> QED BY <1>1, <1>2, <1>3, <2>1, <2>2 DEF MapTypeOK, main, screen
  <1>5. PinIsLastTap'
    BY <1>2 DEF PinIsLastTap
  <1>6. AloneProgress'
    <2> SUFFICES ASSUME started > 0, tasks'[started].alone
                 PROVE  AloneProgress'
      BY <1>2 DEF AloneProgress
    <2>0. started \in TapIDs /\ tasks[started].alone
      BY <1>2, <1>3, DirectionsAssumption DEF MapTypeOK, TapIDs
    <2>1. n = started
      BY <1>1, <2>0 DEF AloneProgress, RunningTask
    <2>2. \A k \in TapIDs : k # started => ~ RunningTask(k)'
      BY <1>2, <1>3, <2>0, <2>1 DEF AloneProgress, RunningTask
    <2>3. Dest(started)' = Dest(started)
      BY <1>2 DEF Dest
    <2> DEFINE pc == tasks[started].pc
               pc1 == tasks'[started].pc
    <2>4. /\ pc \in {"calculate", "dirs", "giveUp", "failed"} => dirs = None
          /\ pc \in {"time", "distance", "region", "done"} => dirs = Dest(started)
          /\ pc \in {"distance", "region", "done"} => time = Dest(started)
          /\ pc \in {"region", "done"} => distance = Dest(started)
      BY <2>0 DEF AloneProgress
    <2>5. \/ /\ pc = "reset" /\ pc1 = "calculate" /\ dirs' = None
          \/ /\ pc = "calculate" /\ pc1 \in {"dirs", "giveUp"} /\ dirs' = dirs
          \/ /\ pc = "dirs" /\ pc1 = "time" /\ dirs' = Dest(started)
          \/ /\ pc = "time" /\ pc1 = "distance" /\ time' = Dest(started) /\ dirs' = dirs
          \/ /\ pc = "distance" /\ pc1 = "region" /\ distance' = Dest(started)
             /\ dirs' = dirs /\ time' = time
          \/ /\ pc = "region" /\ pc1 = "done" /\ region' = Dest(started)
             /\ dirs' = dirs /\ time' = time /\ distance' = distance
          \/ /\ pc = "giveUp" /\ pc1 = "failed" /\ dirs' = dirs
      <3>1. tasks'[n].pc = to /\ \A a, b : goto(n, a, b) => tasks[n].pc = a /\ tasks'[n].pc = b
        BY <1>3 DEF goto, MapTypeOK
      <3> QED BY <2>1, <3>1 DEF computeDirections, resetDirs, routeFound, noRoute, setDirs,
                 setTime, setDistance, setRegion, setDefaultRegion, model
    <2> HIDE DEF pc, pc1
    <2>6. /\ pc1 \in {"calculate", "dirs", "giveUp", "failed"} => dirs' = None
          /\ pc1 \in {"time", "distance", "region", "done"} => dirs' = Dest(started)
          /\ pc1 \in {"distance", "region", "done"} => time' = Dest(started)
          /\ pc1 \in {"region", "done"} => distance' = Dest(started)
          /\ pc1 = "done" => region' = Dest(started)
      BY <2>4, <2>5
    <2> QED BY <1>2, <2>2, <2>3, <2>6 DEF AloneProgress, pc1
  <1> QED BY <1>4, <1>5, <1>6

-----------------------------------------------------------------------------
(* The invariant holds throughout.                                         *)
LEMMA DInvHolds == MapSpec => []DInv
  <1>1. DInv /\ [MapNext]_mapVars => DInv'
    <2> SUFFICES ASSUME DInv, [MapNext]_mapVars PROVE DInv'
      OBVIOUS
    <2>1. CASE editQuery
      BY <2>1, ScreenStep DEF editQuery, DInv, MapTypeOK
    <2>2. CASE fetchAllBuildings
      BY <2>2, ScreenStep DEF fetchAllBuildings, DInv, MapTypeOK
    <2>3. CASE showDirections
      BY <2>3, ScreenStep DEF showDirections, DInv, MapTypeOK
    <2>4. CASE dismissDirections
      BY <2>4, ScreenStep DEF dismissDirections, DInv, MapTypeOK
    <2>5. CASE UNCHANGED mapVars
      BY <2>5, ScreenStep DEF mapVars, screen, DInv, MapTypeOK
    <2> QED BY <2>1, <2>2, <2>3, <2>4, <2>5, TapStep, RunTapStep, TaskStep DEF MapNext
  <1> QED BY <1>1, InitDInv, PTL DEF MapSpec

(* Every variable of the map keeps its type, and tasks and taps stay in    *)
(* step.                                                                   *)
THEOREM DirectionsTypeCorrect == MapSpec => []MapTypeOK
  <1>1. DInv => MapTypeOK
    BY DEF DInv
  <1> QED BY <1>1, DInvHolds, PTL

(* However fast the user taps in the two lists, there are the user's pin   *)
(* and at most one other, that of the last tap run.                        *)
THEOREM PinFollowsTaps == MapSpec => []PinIsLastTap
  <1>1. DInv => PinIsLastTap
    BY DEF DInv
  <1> QED BY <1>1, DInvHolds, PTL

(* A request for directions that no other overlaps shows its own           *)
(* directions, time, distance and region when it has its route.            *)
THEOREM AloneTripIsShown == MapSpec => []AloneTripShown
  <1>1. DInv => AloneTripShown
    BY DEF DInv, PinIsLastTap, AloneProgress, AloneTripShown, Dest, MapTypeOK
  <1> QED BY <1>1, DInvHolds, PTL

(* A request that no other overlaps never leaves old directions listed.    *)
THEOREM OldDirectionsAreReset == MapSpec => []NoOldDirections
  <1>1. DInv => NoOldDirections
    <2> SUFFICES ASSUME DInv, started > 0, tasks[started].alone, tasks[started].pc # "reset"
                 PROVE  dirs \in {None, annotations[2]}
      BY DEF NoOldDirections
    <2>1. started \in TapIDs /\ tasks[started].pc # "none"
      BY DirectionsAssumption DEF DInv, MapTypeOK, TapIDs
    <2>2. tasks[started].pc \in {"none", "reset", "calculate", "dirs", "time", "distance",
                                 "region", "giveUp", "done", "failed"}
      BY <2>1 DEF DInv, MapTypeOK
    <2>3. annotations[2] = Dest(started)
      BY DEF DInv, PinIsLastTap, Dest
    <2> QED BY <2>1, <2>2, <2>3 DEF DInv, AloneProgress
  <1> QED BY <1>1, DInvHolds, PTL

=============================================================================
