------------------------ MODULE StableSectionsProofs ------------------------
(***************************************************************************)
(* Proofs about StableSections for every set of courses and every reading  *)
(* of a time by the date formatter.                                        *)
(***************************************************************************)
EXTENDS ScheduleView, ListLemmas

-----------------------------------------------------------------------------
(* The days.                                                               *)

(* The if-chain of ScheduleModel only names days of the week.              *)
LEMMA LectureDaysInWeek == \A days : LectureDays(days) \subseteq Day
  BY DEF LectureDays, Day

-----------------------------------------------------------------------------
(* The inductive invariant.  TypeOK alone is not inductive: quickDelete    *)
(* yields a list of courses because it removes a position that exists.     *)
(* CoveredDaysInOrder needs SameCourses, which carries what checkLecture   *)
(* saw on a day's list over to the courses that are listed.                *)
IInv == TypeOK /\ ConsistentSchedule /\ CoveredDaysInOrder

(* quickDelete on a day's list without duplicates.                         *)
LEMMA QuickDeleteFacts ==
  ASSUME TypeOK, NoDuplicates, NEW day \in Day, NEW course \in Courses
  PROVE  /\ quickDelete(day, course) \in Seq(Courses)
         /\ ToSet(quickDelete(day, course)) = ToSet(currSchedule[day]) \ {course}
         /\ IsInjective(quickDelete(day, course))
  <1> DEFINE s == currSchedule[day]
             I == {k \in 1..Len(s) : s[k].sectionID = course.sectionID}
  <1>0. /\ s \in Seq(Courses) /\ IsInjective(s)
        /\ Len(s) \in Nat /\ DOMAIN s = 1..Len(s)
        /\ \A k \in 1..Len(s) : s[k] \in Courses
    BY DEF TypeOK, NoDuplicates
  <1>1. \A k \in 1..Len(s) : s[k].sectionID = course.sectionID <=> s[k] = course
    BY <1>0, UniqueSections
  <1>2. CASE \E i \in 1..Len(s) : s[i] = course
    <2>1. PICK i \in 1..Len(s) : s[i] = course
      BY <1>2
    <2>2. I = {i}
      BY <2>1, <1>0, <1>1 DEF IsInjective
    <2>3. Min(I) = i
      BY <2>2, <1>0 DEF Min
    <2>4. SelectInSeq(s, LAMBDA c : c.sectionID = course.sectionID) = i
      BY <2>2, <2>3 DEF SelectInSeq
    <2>5. quickDelete(day, course) = RemoveAt(s, i)
      BY <2>1, <2>4 DEF quickDelete, RemoveFirstMatch
    <2> HIDE DEF s
    <2> QED BY <1>0, <2>1, <2>5, RemoveAtFacts, RemoveAtInjective DEF s
  <1>3. CASE ~ \E i \in 1..Len(s) : s[i] = course
    <2>1. quickDelete(day, course) = s
      BY <1>1, <1>3 DEF quickDelete, RemoveFirstMatch
    <2>2. course \notin ToSet(s)
      BY <1>0, <1>3 DEF ToSet
    <2> QED BY <1>0, <2>1, <2>2
  <1> QED BY <1>2, <1>3

(* Removing a listed section from currClasses without duplicates: some     *)
(* position goes, and the others keep their order.                         *)
LEMMA ClassesDeleteFacts ==
  ASSUME TypeOK, NoDuplicates, NEW course \in Courses, Listed(course)
  PROVE  LET r == RemoveFirst(currClasses, course.sectionID)
         IN  /\ r \in Seq(SectionIDs)
             /\ ToSet(r) = ToSet(currClasses) \ {course.sectionID}
             /\ IsInjective(r)
             /\ \E i \in 1..Len(currClasses) :
                  /\ Len(r) = Len(currClasses) - 1
                  /\ \A k \in 1..Len(r) :
                       r[k] = IF k < i THEN currClasses[k] ELSE currClasses[k + 1]
  <1>0. /\ currClasses \in Seq(SectionIDs) /\ IsInjective(currClasses)
        /\ Len(currClasses) \in Nat /\ DOMAIN currClasses = 1..Len(currClasses)
    BY DEF TypeOK, NoDuplicates
  <1>1. PICK i \in 1..Len(currClasses) : currClasses[i] = course.sectionID
    BY <1>0 DEF Listed, ToSet
  <1>2. RemoveFirst(currClasses, course.sectionID) = RemoveAt(currClasses, i)
    BY <1>0, <1>1, RemoveFirstIsRemoveAt
  <1>3. /\ RemoveAt(currClasses, i) \in Seq(SectionIDs)
        /\ Len(RemoveAt(currClasses, i)) = Len(currClasses) - 1
        /\ \A k \in 1..(Len(currClasses) - 1) :
             RemoveAt(currClasses, i)[k] =
               IF k < i THEN currClasses[k] ELSE currClasses[k + 1]
    BY <1>0, RemoveAtFacts
  <1>4. /\ ToSet(RemoveAt(currClasses, i)) = ToSet(currClasses) \ {currClasses[i]}
        /\ IsInjective(RemoveAt(currClasses, i))
    BY <1>0, RemoveAtInjective
  <1> QED BY <1>1, <1>2, <1>3, <1>4

-----------------------------------------------------------------------------
(* Preservation, one lemma per operation that changes the lists.           *)

(* The accepting branch of addToSchedule.                                  *)
accepts(course) ==
  /\ ~ Listed(course)
  /\ ~ checkConflict(course)
  /\ currSchedule' = fileUnder(course)
  /\ currClasses' = Append(currClasses, course.sectionID)

(* Filing a course that is not listed keeps the lists typed, in step with  *)
(* each other and free of duplicates.                                      *)
LEMMA AddKeepsConsistent ==
  ASSUME TypeOK, ConsistentSchedule, NEW course \in Courses, accepts(course)
  PROVE  /\ currSchedule' \in [Day -> Seq(Courses)]
         /\ currClasses' \in Seq(SectionIDs)
         /\ ConsistentSchedule'
  <1>0. /\ currClasses \in Seq(SectionIDs) /\ course.sectionID \in SectionIDs
        /\ \A day \in Day : currSchedule[day] \in Seq(Courses)
    BY DEF TypeOK, SectionIDs
  <1>1. /\ currClasses' \in Seq(SectionIDs)
        /\ ToSet(currClasses') = ToSet(currClasses) \cup {course.sectionID}
    BY <1>0, AppendFacts DEF accepts
  <1>2. ASSUME NEW day \in Day
        PROVE  /\ currSchedule'[day] \in Seq(Courses)
               /\ ToSet(currSchedule'[day]) =
                    IF day \in CourseDays(course)
                      THEN ToSet(currSchedule[day]) \cup {course}
                      ELSE ToSet(currSchedule[day])
    <2>1. currSchedule'[day] = IF day \in CourseDays(course)
                                 THEN Append(currSchedule[day], course)
                                 ELSE currSchedule[day]
      BY DEF accepts, fileUnder
    <2>2. /\ Append(currSchedule[day], course) \in Seq(Courses)
          /\ ToSet(Append(currSchedule[day], course)) = ToSet(currSchedule[day]) \cup {course}
      BY <1>0, AppendFacts
    <2> QED BY <1>0, <2>1, <2>2
  <1>3. currSchedule' \in [Day -> Seq(Courses)]
    BY <1>2 DEF accepts, fileUnder
  <1>4. \A c \in Courses : Listed(c)' <=> Listed(c) \/ c = course
    BY <1>1, UniqueSections DEF Listed
  <1>5. SameCourses'
    <2> SUFFICES ASSUME NEW day \in Day, NEW c \in Courses
                 PROVE  c \in ToSet(currSchedule'[day])
                          <=> Listed(c)' /\ day \in CourseDays(c)
      BY DEF SameCourses
    <2>1. c \in ToSet(currSchedule[day]) <=> Listed(c) /\ day \in CourseDays(c)
      BY DEF ConsistentSchedule, SameCourses
    <2> QED BY <1>2, <1>4, <2>1
  <1>6. ASSUME NEW S, NEW s \in Seq(S), NEW x \in S, IsInjective(s), x \notin ToSet(s)
        PROVE  IsInjective(Append(s, x))
    <2>1. /\ Len(s) \in Nat /\ DOMAIN s = 1..Len(s)
          /\ DOMAIN Append(s, x) = 1..(Len(s) + 1)
          /\ Append(s, x)[Len(s) + 1] = x
          /\ \A k \in 1..Len(s) : Append(s, x)[k] = s[k] /\ s[k] # x
      BY <1>6, AppendFacts DEF ToSet
    <2> SUFFICES ASSUME NEW a \in 1..(Len(s) + 1), NEW b \in 1..(Len(s) + 1),
                        Append(s, x)[a] = Append(s, x)[b]
                 PROVE  a = b
      BY <2>1 DEF IsInjective
    <2>2. \A k \in 1..(Len(s) + 1) : k \in 1..Len(s) \/ k = Len(s) + 1
      BY <2>1
    <2> QED BY <1>6, <2>1, <2>2 DEF IsInjective
  <1>7. IsInjective(currClasses')
    BY <1>0, <1>6 DEF accepts, ConsistentSchedule, NoDuplicates, Listed
  <1>8. ASSUME NEW day \in Day
        PROVE  IsInjective(currSchedule'[day])
    <2>1. course \notin ToSet(currSchedule[day]) /\ IsInjective(currSchedule[day])
      BY DEF accepts, ConsistentSchedule, SameCourses, NoDuplicates
    <2>2. CASE day \in CourseDays(course)
      BY <2>1, <2>2, <1>0, <1>6 DEF accepts, fileUnder
    <2>3. CASE day \notin CourseDays(course)
      BY <2>1, <2>3 DEF accepts, fileUnder
    <2> QED BY <2>2, <2>3
  <1> QED BY <1>1, <1>3, <1>5, <1>7, <1>8 DEF ConsistentSchedule, NoDuplicates

(* The day on which checkLecture found no conflict is a day of every       *)
(* course that covers the new one.                                         *)
LEMMA AddKeepsOrder ==
  ASSUME IInv, NEW course \in Courses, accepts(course)
  PROVE  CoveredDaysInOrder'
  <1> USE DEF IInv
  <1> DEFINE L == Len(currClasses)
  <1>0. /\ L \in Nat /\ course.sectionID \in SectionIDs
        /\ currClasses \in Seq(SectionIDs)
        /\ currClasses' = Append(currClasses, course.sectionID)
    BY DEF TypeOK, SectionIDs, accepts
  <1>1. /\ Len(currClasses') = L + 1
        /\ currClasses'[L + 1] = course.sectionID
        /\ \A k \in 1..L : currClasses'[k] = currClasses[k]
    BY <1>0, AppendFacts
  <1> SUFFICES ASSUME NEW m \in 1..(L + 1), NEW n \in 1..(L + 1),
                      NEW c \in Courses, NEW e \in Courses,
                      m < n,
                      c.sectionID = currClasses'[m],
                      e.sectionID = currClasses'[n],
                      CourseDays(e) # {},
                      CourseDays(e) \subseteq CourseDays(c)
               PROVE  InOrder(Lecture(c), Lecture(e))
    BY <1>1 DEF CoveredDaysInOrder
  <1>2. m \in 1..L /\ c.sectionID = currClasses[m]
    BY <1>0, <1>1
  <1>3. CASE n \in 1..L
    BY <1>0, <1>1, <1>2, <1>3 DEF CoveredDaysInOrder
  <1>4. CASE n = L + 1
    <2>1. e = course
      BY <1>1, <1>4, UniqueSections
    <2>2. PICK day \in CourseDays(course) : ~ checkLecture(day, Lecture(course))
      BY <2>1 DEF accepts, checkConflict
    <2>3. day \in Day
      BY LectureDaysInWeek DEF CourseDays
    <2>4. Listed(c)
      BY <1>0, <1>2 DEF Listed, ToSet
    <2>5. c \in ToSet(currSchedule[day])
      BY <2>1, <2>2, <2>3, <2>4 DEF ConsistentSchedule, SameCourses
    <2>6. currSchedule[day] \in Seq(Courses)
      BY <2>3 DEF TypeOK
    <2>7. PICK i \in 1..Len(currSchedule[day]) : currSchedule[day][i] = c
      BY <2>5, <2>6 DEF ToSet
    <2> QED BY <2>1, <2>2, <2>7 DEF checkLecture
  <1> QED BY <1>0, <1>3, <1>4

(* Deleting a listed course takes it off currClasses and off every day it  *)
(* was filed under, and keeps the order of what remains.                   *)
LEMMA DeleteKeepsInvariant ==
  ASSUME IInv, NEW course \in Courses, Listed(course), removeFromSchedule(course)
  PROVE  IInv'
  <1> USE DEF IInv
  <1>0. TypeOK /\ ConsistentSchedule /\ NoDuplicates /\ SameCourses
    BY DEF ConsistentSchedule
  <1>1. /\ currClasses' \in Seq(SectionIDs)
        /\ ToSet(currClasses') = ToSet(currClasses) \ {course.sectionID}
        /\ IsInjective(currClasses')
    BY <1>0, ClassesDeleteFacts DEF removeFromSchedule
  <1>2. ASSUME NEW day \in Day
        PROVE  /\ currSchedule'[day] \in Seq(Courses)
               /\ IsInjective(currSchedule'[day])
               /\ ToSet(currSchedule'[day]) =
                    IF day \in CourseDays(course)
                      THEN ToSet(currSchedule[day]) \ {course}
                      ELSE ToSet(currSchedule[day])
    <2>1. currSchedule'[day] = IF day \in CourseDays(course)
                                 THEN quickDelete(day, course)
                                 ELSE currSchedule[day]
      BY DEF removeFromSchedule
    <2>2. currSchedule[day] \in Seq(Courses) /\ IsInjective(currSchedule[day])
      BY <1>0 DEF TypeOK, NoDuplicates
    <2>3. CASE day \in CourseDays(course)
      BY <1>0, <2>1, <2>3, QuickDeleteFacts
    <2>4. CASE day \notin CourseDays(course)
      BY <2>1, <2>2, <2>4
    <2> QED BY <2>3, <2>4
  <1>3. TypeOK'
    <2>1. currSchedule' \in [Day -> Seq(Courses)]
      BY <1>2 DEF removeFromSchedule
    <2>2. addFailed' \in BOOLEAN /\ trapped' \in BOOLEAN
      BY <1>0 DEF TypeOK, removeFromSchedule
    <2> QED BY <1>1, <2>1, <2>2 DEF TypeOK
  <1>4. \A c \in Courses : Listed(c)' <=> Listed(c) /\ c # course
    BY <1>1, UniqueSections DEF Listed
  <1>5. SameCourses'
    <2> SUFFICES ASSUME NEW day \in Day, NEW c \in Courses
                 PROVE  c \in ToSet(currSchedule'[day])
                          <=> Listed(c)' /\ day \in CourseDays(c)
      BY DEF SameCourses
    <2>1. c \in ToSet(currSchedule[day]) <=> Listed(c) /\ day \in CourseDays(c)
      BY <1>0 DEF SameCourses
    <2> QED BY <1>2, <1>4, <2>1
  <1>6. ConsistentSchedule'
    BY <1>1, <1>2, <1>5 DEF ConsistentSchedule, NoDuplicates
  <1>7. CoveredDaysInOrder'
    <2> DEFINE L == Len(currClasses)
               up(k, i) == IF k < i THEN k ELSE k + 1
    <2>1. currClasses \in Seq(SectionIDs) /\ L \in Nat
      BY <1>0 DEF TypeOK
    <2>2. PICK i \in 1..L :
            /\ Len(currClasses') = L - 1
            /\ \A k \in 1..(L - 1) :
                 currClasses'[k] = IF k < i THEN currClasses[k] ELSE currClasses[k + 1]
      BY <1>0, ClassesDeleteFacts DEF removeFromSchedule
    <2>3. \A k \in 1..(L - 1) : up(k, i) \in 1..L /\ currClasses'[k] = currClasses[up(k, i)]
      BY <2>1, <2>2
    <2>4. \A m, n \in 1..(L - 1) : m < n => up(m, i) < up(n, i)
      BY <2>1
    <2> HIDE DEF up, L
    <2> SUFFICES ASSUME NEW m \in 1..(L - 1), NEW n \in 1..(L - 1),
                        NEW c \in Courses, NEW e \in Courses,
                        m < n,
                        c.sectionID = currClasses'[m],
                        e.sectionID = currClasses'[n],
                        CourseDays(e) # {},
                        CourseDays(e) \subseteq CourseDays(c)
                 PROVE  InOrder(Lecture(c), Lecture(e))
      BY <2>2 DEF CoveredDaysInOrder
    <2> QED BY <2>3, <2>4 DEF CoveredDaysInOrder, L
  <1> QED BY <1>3, <1>6, <1>7

-----------------------------------------------------------------------------
(* The empty schedule, at launch and after a relaunch.                     *)
LEMMA EmptySchedule ==
  Init => IInv
  <1> SUFFICES ASSUME Init PROVE IInv
    OBVIOUS
  <1>1. TypeOK
    <2>1. \A S : <<>> \in Seq(S)
      BY EmptySeq
    <2>2. currSchedule \in [Day -> Seq(Courses)]
      BY <2>1 DEF Init
    <2>3. currClasses \in Seq(SectionIDs)
      BY <2>1 DEF Init
    <2> QED BY <2>2, <2>3 DEF Init, TypeOK
  <1>2. Len(currClasses) = 0 /\ DOMAIN currClasses = {} /\ ToSet(currClasses) = {}
    BY DEF Init, ToSet
  <1>3. \A day \in Day : DOMAIN currSchedule[day] = {} /\ ToSet(currSchedule[day]) = {}
    BY DEF Init, ToSet
  <1>4. ConsistentSchedule
    BY <1>2, <1>3 DEF ConsistentSchedule, SameCourses, NoDuplicates, IsInjective, Listed
  <1>5. CoveredDaysInOrder
    BY <1>2 DEF CoveredDaysInOrder
  <1> QED BY <1>1, <1>4, <1>5 DEF IInv

(* Every step of the program keeps the invariant.                          *)
LEMMA StepKeepsInvariant ==
  IInv /\ [Next]_vars => IInv'
  <1> SUFFICES ASSUME IInv, [Next]_vars PROVE IInv'
    OBVIOUS
  <1>0. TypeOK /\ ConsistentSchedule
    BY DEF IInv
  <1>1. ASSUME currSchedule' = currSchedule, currClasses' = currClasses,
               addFailed' \in BOOLEAN, trapped' \in BOOLEAN
        PROVE  IInv'
    <2>1. TypeOK'
      BY <1>0, <1>1 DEF TypeOK
    <2>2. SameCourses' /\ NoDuplicates'
      BY <1>0, <1>1 DEF ConsistentSchedule, SameCourses, NoDuplicates, Listed
    <2>3. CoveredDaysInOrder'
      BY <1>1 DEF IInv, CoveredDaysInOrder
    <2> QED BY <2>1, <2>2, <2>3 DEF IInv, ConsistentSchedule
  <1>2. ASSUME NEW course \in Courses, addCourse(course)
        PROVE  IInv'
    <2>1. CASE discussionCheckTraps(course)
      BY <1>0, <1>1, <1>2, <2>1 DEF addCourse, addToSchedule, TypeOK
    <2>2. CASE ~ discussionCheckTraps(course) /\ checkConflict(course)
      BY <1>0, <1>1, <1>2, <2>2 DEF addCourse, addToSchedule, TypeOK
    <2>3. CASE ~ discussionCheckTraps(course) /\ ~ checkConflict(course)
      <3>1. accepts(course)
        BY <1>2, <2>3 DEF addCourse, addToSchedule, accepts
      <3>2. addFailed' \in BOOLEAN /\ trapped' \in BOOLEAN
        BY <1>0, <1>2, <2>3 DEF addCourse, addToSchedule, TypeOK
      <3>3. TypeOK' /\ ConsistentSchedule'
        BY <1>0, <3>1, <3>2, AddKeepsConsistent DEF TypeOK
      <3>4. CoveredDaysInOrder'
        BY <3>1, AddKeepsOrder
      <3> QED BY <3>3, <3>4 DEF IInv
    <2> QED BY <2>1, <2>2, <2>3
  <1>3. ASSUME NEW course \in Courses, deleteCourse(course)
        PROVE  IInv'
    BY <1>3, DeleteKeepsInvariant DEF deleteCourse
  <1>4. CASE dismissAlert
    BY <1>0, <1>1, <1>4 DEF dismissAlert, TypeOK
  <1>5. CASE relaunch
    <2>1. Init' => IInv'
      BY EmptySchedule, PTL
    <2>2. Init'
      BY <1>5 DEF relaunch, Init
    <2> QED BY <2>1, <2>2
  <1>6. CASE UNCHANGED vars
    BY <1>0, <1>1, <1>6 DEF vars, TypeOK
  <1> QED BY <1>2, <1>3, <1>4, <1>5, <1>6 DEF Next

(* The invariant holds throughout: for any courses and any reading of the  *)
(* times, whatever is added, refused, deleted and relaunched.              *)
LEMMA InvariantHolds == Spec => []IInv
  BY EmptySchedule, StepKeepsInvariant, PTL DEF Spec

(* currSchedule, currClasses and addFailed always hold values of their     *)
(* declared types.                                                         *)
THEOREM TypeCorrect == Spec => []TypeOK
  <1>1. IInv => TypeOK
    BY DEF IInv
  <1> QED BY <1>1, InvariantHolds, PTL

(* The per-day lists and the id list, updated separately by addToSchedule  *)
(* and removeFromSchedule, never disagree, and no section is held twice.   *)
THEOREM ScheduleStaysConsistent == Spec => []ConsistentSchedule
  <1>1. IInv => ConsistentSchedule
    BY DEF IInv
  <1> QED BY <1>1, InvariantHolds, PTL

(* checkConflict, with its && over the days, still keeps every course in   *)
(* order with each course added before it that meets on all of its days.   *)
THEOREM CoveredDaysStayInOrder == Spec => []CoveredDaysInOrder
  <1>1. IInv => CoveredDaysInOrder
    BY DEF IInv
  <1> QED BY <1>1, InvariantHolds, PTL

-----------------------------------------------------------------------------
(* When the alert goes up.                                                 *)

(* What a justified refusal rests on: the formatter orders times as the    *)
(* clock does, and a lecture that is filed ends after it starts.           *)
ReadsTheClock ==
  /\ \A s, t \in Times : DateOf[s] < DateOf[t] <=> Minute(s) < Minute(t)
  /\ \A c \in Courses : CourseDays(c) # {} =>
       Minute(Lecture(c).start_time) < Minute(Lecture(c).end_time)

(* A lecture that some branch of the if-chain takes has times.             *)
LEMMA FiledLectureHasTimes ==
  ASSUME NEW c \in Courses, CourseDays(c) # {}
  PROVE  Lecture(c).start_time \in Times /\ Lecture(c).end_time \in Times
  <1>1. CodeLength({}) = 0
    <2>1. {} \cap OneCharLetter = {} /\ {} \cap TwoCharLetter = {}
      OBVIOUS
    <2> QED BY <2>1, FS_EmptySet DEF CodeLength
  <1>2. LectureDays({}) = {}
    BY <1>1 DEF LectureDays
  <1>3. Lecture(c).days # {}
    BY <1>2 DEF CourseDays
  <1> QED BY <1>3, CoursesAssumption DEF Times

(* Two filed lectures that checkLecture does not find in order share some  *)
(* minute: the comparison never refuses lectures that are apart or touch.  *)
LEMMA NotInOrderOverlap ==
  ASSUME ReadsTheClock, NEW c \in Courses, NEW e \in Courses,
         CourseDays(c) # {}, CourseDays(e) # {},
         ~ InOrder(Lecture(c), Lecture(e))
  PROVE  Overlap(Lecture(c), Lecture(e))
  <1> DEFINE cs == Lecture(c).start_time  ce == Lecture(c).end_time
             es == Lecture(e).start_time  ee == Lecture(e).end_time
  <1>1. {cs, ce, es, ee} \subseteq Times
    BY FiledLectureHasTimes
  <1>2. \A t \in Times : Minute(t) \in Nat
    <2> SUFFICES ASSUME NEW t \in Time PROVE Minute(t) \in Nat
      BY DEF Times
    <2>1. t.h \in 0..12 /\ t.m \in 0..59
      BY DEF Time
    <2> QED BY <2>1, SMTT(30) DEF Minute
  <1>3. Minute(cs) < Minute(ce) /\ Minute(es) < Minute(ee)
    BY DEF ReadsTheClock
  <1>4. /\ ~ (Minute(cs) < Minute(es) /\ Minute(ce) < Minute(ee))
            \/ (cs = es /\ ce = ee)
        /\ ~ (Minute(es) < Minute(cs) /\ Minute(ee) < Minute(ce))
            \/ (cs = es /\ ce = ee)
    <2>1. \A s, t \in Times : (DateOf[s] < DateOf[t] <=> Minute(s) < Minute(t))
                              /\ DateOf[s] \in Nat /\ DateOf[t] \in Nat
      BY CoursesAssumption DEF ReadsTheClock
    <2> QED BY <1>1, <2>1 DEF InOrder
  <1>5. Minute(cs) \in Nat /\ Minute(ce) \in Nat /\ Minute(es) \in Nat /\ Minute(ee) \in Nat
    BY <1>1, <1>2
  <1>6. Minute(cs) < Minute(ee) /\ Minute(es) < Minute(ce)
    <2> HIDE DEF cs, ce, es, ee
    <2> QED BY <1>3, <1>4, <1>5
  <1> QED BY <1>6 DEF Overlap

(* For every set of lectures that end after they start, and a formatter    *)
(* that reads the clock, addToSchedule raises the alert only for a lecture *)
(* that overlaps a filed one on each of its days.                          *)
THEOREM RefusalsAreJustified ==
  ASSUME ReadsTheClock
  PROVE  Spec => RefusalJustified
  <1>1. ASSUME IInv, NEW course \in Courses, addCourse(course), addFailed',
               NEW day \in CourseDays(course)
        PROVE  \E i \in 1..Len(currSchedule[day]) :
                 Overlap(Lecture(currSchedule[day][i]), Lecture(course))
    <2>1. checkConflict(course)
      BY <1>1 DEF addCourse, addToSchedule, ButtonsReachable
    <2>2. PICK i \in 1..Len(currSchedule[day]) :
            ~ InOrder(Lecture(currSchedule[day][i]), Lecture(course))
      BY <2>1 DEF checkConflict, checkLecture
    <2>3. day \in Day /\ currSchedule[day] \in Seq(Courses)
      BY <1>1, LectureDaysInWeek DEF CourseDays, IInv, TypeOK
    <2>4. /\ currSchedule[day][i] \in Courses
          /\ currSchedule[day][i] \in ToSet(currSchedule[day])
      BY <2>3 DEF ToSet
    <2>5. day \in CourseDays(currSchedule[day][i])
      BY <1>1, <2>3, <2>4 DEF IInv, ConsistentSchedule, SameCourses
    <2> QED BY <2>2, <2>4, <2>5, NotInOrderOverlap
  <1>2. IInv /\ [Next]_vars =>
          [\A course \in Courses :
             addCourse(course) /\ addFailed' =>
               \A day \in CourseDays(course) : \E i \in 1..Len(currSchedule[day]) :
                 Overlap(Lecture(currSchedule[day][i]), Lecture(course))]_vars
    BY <1>1
  <1> QED BY <1>2, InvariantHolds, PTL DEF Spec, RefusalJustified

-----------------------------------------------------------------------------
(* The schedule implements the abstract timetable.                         *)

(* checkLecture on a day's list decides whether that day of the abstract   *)
(* timetable is free.                                                      *)
LEMMA CheckLectureIsFree ==
  ASSUME IInv, NEW course \in Courses, NEW day \in CourseDays(course)
  PROVE  ~ checkLecture(day, Lecture(course)) <=> Abstract!Free(course, day)
  <1>1. day \in Day /\ currSchedule[day] \in Seq(Courses)
    BY LectureDaysInWeek DEF CourseDays, IInv, TypeOK
  <1>2. /\ \A i \in 1..Len(currSchedule[day]) : currSchedule[day][i] \in ToSet(currSchedule[day])
        /\ \A c \in ToSet(currSchedule[day]) :
             c \in Courses /\ \E i \in 1..Len(currSchedule[day]) : c = currSchedule[day][i]
    BY <1>1 DEF ToSet
  <1>3. \A c \in Courses : c \in ToSet(currSchedule[day]) <=> Listed(c) /\ day \in CourseDays(c)
    BY <1>1 DEF IInv, ConsistentSchedule, SameCourses
  <1>4. Abstract!Free(course, day) <=>
          \A c \in Courses : Listed(c) /\ day \in CourseDays(c) =>
            InOrder(Lecture(c), Lecture(course))
    BY DEF Abstract!Free
  <1> QED BY <1>2, <1>3, <1>4 DEF checkLecture

(* Every step is a step of the abstract timetable, or leaves it unchanged. *)
LEMMA StepImplementsTimetable ==
  ASSUME IInv, IInv', [Next]_vars
  PROVE  [Abstract!TimetableNext]_(Abstract!tvars)
  <1> DEFINE bk == {c \in Courses : Listed(c)}
  <1>0. TypeOK /\ TypeOK' /\ NoDuplicates
    BY DEF IInv, ConsistentSchedule
  <1>1. ASSUME NEW course \in Courses, addCourse(course)
        PROVE  Abstract!Book(course) \/ Abstract!Refuse(course) \/ Abstract!Stop(course)
    <2>0. Abstract!Ready /\ course \notin bk
      BY <1>1 DEF addCourse, ButtonsReachable, Abstract!Ready
    <2>1. CASE discussionCheckTraps(course)
      <3>1. CourseDays(course) = {} /\ trapped' = TRUE /\ currClasses' = currClasses
            /\ addFailed' = addFailed
        BY <1>1, <2>1 DEF addCourse, addToSchedule, discussionCheckTraps
      <3>2. bk' = bk
        BY <3>1 DEF Listed
      <3> QED BY <2>0, <3>1, <3>2 DEF Abstract!Stop
    <2>2. CASE ~ discussionCheckTraps(course) /\ checkConflict(course)
      <3>1. addFailed' = TRUE /\ currClasses' = currClasses /\ trapped' = trapped
        BY <1>1, <2>2 DEF addCourse, addToSchedule
      <3>2. bk' = bk
        BY <3>1 DEF Listed
      <3>3. /\ CourseDays(course) # {}
            /\ \A day \in CourseDays(course) : ~ Abstract!Free(course, day)
        BY <2>2, CheckLectureIsFree DEF checkConflict
      <3> QED BY <2>0, <3>1, <3>2, <3>3 DEF Abstract!Refuse
    <2>3. CASE ~ discussionCheckTraps(course) /\ ~ checkConflict(course)
      <3>1. /\ addFailed' = FALSE /\ trapped' = trapped
            /\ currClasses' = Append(currClasses, course.sectionID)
        BY <1>1, <2>3 DEF addCourse, addToSchedule
      <3>2. addFailed' = addFailed
        BY <3>1, <1>0, <1>1 DEF addCourse, ButtonsReachable, TypeOK
      <3>3. ToSet(currClasses') = ToSet(currClasses) \cup {course.sectionID}
        BY <1>0, <3>1, AppendFacts DEF TypeOK, SectionIDs
      <3>4. bk' = bk \cup {course}
        BY <3>3, UniqueSections DEF Listed
      <3>5. CourseDays(course) # {} =>
              \E day \in CourseDays(course) : Abstract!Free(course, day)
        BY <2>3, CheckLectureIsFree DEF checkConflict
      <3> QED BY <2>0, <3>1, <3>2, <3>4, <3>5 DEF Abstract!Book
    <2> QED BY <2>1, <2>2, <2>3
  <1>2. ASSUME NEW course \in Courses, deleteCourse(course)
        PROVE  Abstract!Drop(course)
    <2>1. Abstract!Ready /\ course \in bk
      BY <1>2 DEF deleteCourse, ButtonsReachable, Abstract!Ready
    <2>2. ToSet(currClasses') = ToSet(currClasses) \ {course.sectionID}
      BY <1>0, <1>2, ClassesDeleteFacts DEF deleteCourse, removeFromSchedule
    <2>3. bk' = bk \ {course}
      BY <2>2, UniqueSections DEF Listed
    <2>4. addFailed' = addFailed /\ trapped' = trapped
      BY <1>2 DEF deleteCourse, removeFromSchedule
    <2> QED BY <2>1, <2>3, <2>4 DEF Abstract!Drop
  <1>3. CASE dismissAlert
    <2>1. bk' = bk
      BY <1>3 DEF dismissAlert, Listed
    <2> QED BY <1>3, <2>1 DEF dismissAlert, Abstract!Acknowledge, Abstract!TimetableNext
  <1>4. CASE relaunch
    <2>1. bk' = {}
      BY <1>4 DEF relaunch, Listed, ToSet
    <2> QED BY <1>4, <2>1 DEF relaunch, Abstract!Restart, Abstract!TimetableNext
  <1>5. CASE UNCHANGED vars
    BY <1>5 DEF vars, Listed, Abstract!tvars
  <1> QED BY <1>1, <1>2, <1>3, <1>4, <1>5 DEF Next, Abstract!TimetableNext

(* ScheduleModel, with its seven lists of courses and its list of ids,     *)
(* implements the set of bookings of Timetable.                            *)
THEOREM ScheduleImplementsTimetable == Spec => ImplementsTimetable
  <1>1. Init => Abstract!TimetableInit
    BY DEF Init, Abstract!TimetableInit, Listed, ToSet
  <1>2. IInv /\ IInv' /\ [Next]_vars => [Abstract!TimetableNext]_(Abstract!tvars)
    BY StepImplementsTimetable
  <1> QED BY <1>1, <1>2, InvariantHolds, PTL
          DEF Spec, ImplementsTimetable, Abstract!TimetableSpec

-----------------------------------------------------------------------------
(* The tab.                                                                *)

(* Every name the tab has to show is one of a button or of getDate.        *)
ViewInv == IInv /\ selectedDay \in Day \cup getDate

LEMMA ViewInvHolds == ViewSpec => []ViewInv
  <1>1. ViewInit => ViewInv
    BY EmptySchedule DEF ViewInit, ViewInv
  <1>2. ViewInv /\ [ViewNext]_viewVars => ViewInv'
    <2> SUFFICES ASSUME ViewInv, [ViewNext]_viewVars PROVE ViewInv'
      OBVIOUS
    <2>1. [Next]_vars
      BY DEF ViewNext, Next, selectDay, vars, viewVars
    <2>2. IInv'
      BY <2>1, StepKeepsInvariant DEF ViewInv
    <2>3. selectedDay' \in Day \cup getDate
      BY DEF ViewNext, selectDay, viewVars, ViewInv
    <2> QED BY <2>2, <2>3 DEF ViewInv
  <1> QED BY <1>1, <1>2, PTL DEF ViewSpec

(* The hour convertTime reads is the hour of the day, but for the one that *)
(* begins at midnight.                                                     *)
LEMMA HourRead ==
  ASSUME NEW t \in Time
  PROVE  /\ convertTime(t)[1] = Minute(t) \div 60 \/ (Minute(t) \div 60 = 0 /\ convertTime(t)[1] = 12)
         /\ Minute(t) \div 60 # 0 => convertTime(t)[1] = Minute(t) \div 60
  <1>1. t.h \in 1..12 /\ t.m \in 0..59 /\ t.pm \in BOOLEAN
    BY DEF Time
  <1>2. \A h \in 0..23, m \in 0..59 : (h * 60 + m) \div 60 = h
    OBVIOUS
  <1>3. CASE t.h = 12
    <2>1. t.h % 12 = 0
      BY <1>3
    <2>2. CASE t.pm
      <3>1. Minute(t) = 12 * 60 + t.m
        BY <1>1, <2>1, <2>2 DEF Minute
      <3>2. convertTime(t)[1] = 12
        BY <1>3, <2>2 DEF convertTime
      <3> QED BY <1>1, <1>2, <3>1, <3>2
    <2>3. CASE ~ t.pm
      <3>1. Minute(t) = 0 * 60 + t.m
        BY <1>1, <2>1, <2>3 DEF Minute
      <3>2. convertTime(t)[1] = 12
        BY <1>3, <2>3 DEF convertTime
      <3> QED BY <1>1, <1>2, <3>1, <3>2
    <2> QED BY <1>1, <2>2, <2>3
  <1>4. CASE t.h # 12
    <2>1. t.h % 12 = t.h /\ t.h \in 1..11
      BY <1>1, <1>4
    <2>2. CASE t.pm
      <3>1. Minute(t) = (t.h + 12) * 60 + t.m /\ t.h + 12 \in 0..23
        BY <1>1, <2>1, <2>2 DEF Minute
      <3>2. convertTime(t)[1] = t.h + 12
        BY <1>4, <2>2 DEF convertTime
      <3> QED BY <1>1, <1>2, <3>1, <3>2
    <2>3. CASE ~ t.pm
      <3>1. Minute(t) = t.h * 60 + t.m /\ t.h \in 0..23
        BY <1>1, <2>1, <2>3 DEF Minute
      <3>2. convertTime(t)[1] = t.h
        BY <1>4, <2>3 DEF convertTime
      <3> QED BY <1>1, <1>2, <3>1, <3>2
    <2> QED BY <1>1, <2>2, <2>3
  <1> QED BY <1>3, <1>4

(* The meetings of a day's courses.                                        *)
LEMMA SlotFacts ==
  ASSUME TypeOK, NEW slot \in Slots
  PROVE  /\ slot[1] \in 1..Len(currSchedule[currDay]) /\ CourseAt(slot) \in Courses
         /\ CourseAt(slot) \in ToSet(currSchedule[currDay])
         /\ slot[2] \in 1..Len(CourseAt(slot).meeting) /\ MeetingAt(slot) \in Meeting
         /\ slot = <<slot[1], slot[2]>>
  <1>1. currDay \in Day
    BY DEF currDay, Day
  <1>2. PICK list \in Seq(Courses) : list = currSchedule[currDay]
    BY <1>1 DEF TypeOK
  <1>3. PICK k \in DOMAIN list : \E j \in DOMAIN list[k].meeting : slot = <<k, j>>
    BY <1>2 DEF Slots
  <1>4. PICK j \in DOMAIN list[k].meeting : slot = <<k, j>>
    BY <1>3
  <1>5. list[k] \in Courses /\ list[k] \in ToSet(list) /\ DOMAIN list = 1..Len(list)
    BY DEF ToSet
  <1>6. list[k].meeting \in Seq(Meeting)
    BY <1>5, CoursesAssumption
  <1>7. DOMAIN list[k].meeting = 1..Len(list[k].meeting) /\ list[k].meeting[j] \in Meeting
    BY <1>6
  <1> QED BY <1>2, <1>4, <1>5, <1>7 DEF CourseAt, MeetingAt

(* What the tab draws is in the schedule, on the day it shows and in the   *)
(* row of its hour.                                                        *)
THEOREM WhatIsDrawnIsRight == ViewSpec => []DrawnIsRight
  <1>1. ViewInv => DrawnIsRight
    <2> SUFFICES ASSUME ViewInv, NEW t \in Hours, NEW slot \in checkForClass(t)
                 PROVE  /\ Listed(CourseAt(slot))
                        /\ \E j \in DOMAIN CourseAt(slot).meeting :
                             LET mtg == CourseAt(slot).meeting[j]
                             IN  /\ MeetsOn(mtg.days, IF selectedDay = "Wed" THEN "Mon" ELSE selectedDay)
                                 /\ \/ Minute(mtg.start_time) \div 60 = t
                                    \/ Minute(mtg.start_time) \div 60 = 0 /\ t = 12
      BY DEF DrawnIsRight
    <2>1. slot \in Slots /\ MeetsCurr(slot) /\ StartHr(slot) = t
      BY DEF checkForClass
    <2>2. TypeOK /\ SameCourses
      BY DEF ViewInv, IInv, ConsistentSchedule
    <2>3. /\ CourseAt(slot) \in Courses /\ CourseAt(slot) \in ToSet(currSchedule[currDay])
          /\ slot[2] \in 1..Len(CourseAt(slot).meeting) /\ MeetingAt(slot) \in Meeting
      BY <2>1, <2>2, SlotFacts
    <2>4. currDay \in Day /\ currDay = IF selectedDay = "Wed" THEN "Mon" ELSE selectedDay
      BY DEF currDay, Day, getDate, ViewInv
    <2>5. Listed(CourseAt(slot))
      BY <2>2, <2>3, <2>4 DEF SameCourses
    <2>6. MeetsOn(MeetingAt(slot).days, IF selectedDay = "Wed" THEN "Mon" ELSE selectedDay)
      BY <2>1, <2>4 DEF MeetsCurr
    <2>7. MeetingAt(slot).start_time \in Time
      <3>1. MeetingAt(slot).start_time \in Time \cup {NoTime}
        BY <2>3 DEF Meeting
      <3>2. convertTime(NoTime)[1] = 0
        BY DEF convertTime, NoTime
      <3>3. t # 0
        BY DEF Hours
      <3> QED BY <2>1, <3>1, <3>2, <3>3 DEF StartHr
    <2>8. \/ Minute(MeetingAt(slot).start_time) \div 60 = t
          \/ Minute(MeetingAt(slot).start_time) \div 60 = 0 /\ t = 12
      BY <2>1, <2>7, HourRead DEF StartHr
    <2>9. CourseAt(slot).meeting \in Seq(Meeting) /\ slot[2] \in DOMAIN CourseAt(slot).meeting
      BY <2>3, CoursesAssumption
    <2> QED BY <2>5, <2>6, <2>8, <2>9 DEF MeetingAt
  <1> QED BY <1>1, ViewInvHolds, PTL

(* A schedule of lectures filed where they meet is drawn in full: of the   *)
(* lectures of an hour the first is drawn.                                 *)
THEOREM AllLecturesDrawn == ViewSpec => []LecturesDrawn
  <1>1. ViewInv => LecturesDrawn
    <2> DEFINE hour(c) == Minute(Lecture(c).start_time) \div 60
    <2> SUFFICES ASSUME ViewInv,
                        \A c \in Courses : Listed(c) => Len(c.meeting) = 1 /\ FiledWhereItMeets(c),
                        NEW c \in Courses, Listed(c), MeetsOn(Lecture(c).days, currDay),
                        hour(c) \in Hours
                 PROVE  checkForClass(hour(c)) # {}
      BY DEF LecturesDrawn
    <2>1. TypeOK /\ SameCourses
      BY DEF ViewInv, IInv, ConsistentSchedule
    <2>2. currDay \in Day
      BY DEF currDay, Day
    <2>3. PICK list \in Seq(Courses) : list = currSchedule[currDay]
      BY <2>1, <2>2 DEF TypeOK
    <2>4. DOMAIN list = 1..Len(list) /\ \A k \in 1..Len(list) : list[k] \in Courses
      OBVIOUS
    <2>5. ASSUME NEW k \in 1..Len(list)
          PROVE  /\ DOMAIN list[k].meeting = {1} /\ MeetsCurr(<<k, 1>>)
                 /\ StartHr(<<k, 1>>) = convertTime(Lecture(list[k]).start_time)[1]
                 /\ <<k, 1>> \in Slots
      <3>1. list[k] \in ToSet(currSchedule[currDay])
        BY <2>3, <2>4 DEF ToSet
      <3>2. Listed(list[k]) /\ currDay \in CourseDays(list[k])
        BY <2>1, <2>2, <2>4, <3>1 DEF SameCourses
      <3>3. Len(list[k].meeting) = 1 /\ MeetsOn(Lecture(list[k]).days, currDay)
        BY <2>4, <3>2 DEF FiledWhereItMeets
      <3>4. DOMAIN list[k].meeting = {1}
        BY <2>4, <3>3, CoursesAssumption
      <3>5. CourseAt(<<k, 1>>) = list[k] /\ MeetingAt(<<k, 1>>) = Lecture(list[k])
        BY <2>3 DEF CourseAt, MeetingAt, Lecture
      <3>6. <<k, 1>> \in Slots
        BY <2>3, <2>4, <3>4 DEF Slots
      <3> QED BY <3>3, <3>4, <3>5, <3>6 DEF MeetsCurr, StartHr
    <2>6. convertTime(Lecture(c).start_time)[1] = hour(c)
      <3>1. Lecture(c).days # {}
        BY DEF MeetsOn
      <3>2. Lecture(c).start_time \in Time
        BY <3>1, CoursesAssumption
      <3>3. hour(c) # 0
        BY DEF Hours
      <3> QED BY <3>2, <3>3, HourRead
    <2> DEFINE I == {k \in 1..Len(list) : StartHr(<<k, 1>>) = hour(c)}
    <2>7. I \in SUBSET Nat /\ I # {}
      <3>1. currDay \in CourseDays(c)
        BY <2>2 DEF FiledWhereItMeets
      <3>2. c \in ToSet(list)
        BY <2>1, <2>2, <2>3, <3>1 DEF SameCourses
      <3>3. PICK k \in 1..Len(list) : list[k] = c
        BY <2>4, <3>2 DEF ToSet
      <3>4. k \in I
        BY <2>5, <2>6, <3>3
      <3> QED BY <3>4
    <2> HIDE DEF hour
    <2>8. PICK k \in I : \A m \in I : k <= m
      BY <2>7, FirstIndex, ZenonT(40)
    <2>9. k \in 1..Len(list) /\ k \in Nat /\ StartHr(<<k, 1>>) = hour(c)
      OBVIOUS
    <2>10. ASSUME NEW q \in Slots, Before(q, <<k, 1>>)
           PROVE  MeetsCurr(q) /\ StartHr(q) # hour(c)
      <3>1. /\ q[1] \in 1..Len(list) /\ q = <<q[1], q[2]>> /\ q[2] \in 1..Len(CourseAt(q).meeting)
            /\ CourseAt(q) = list[q[1]] /\ CourseAt(q) \in Courses
        BY <2>1, <2>3, SlotFacts DEF CourseAt
      <3>2. CourseAt(q).meeting \in Seq(Meeting)
        BY <3>1, CoursesAssumption
      <3>3. q[2] = 1
        <4>1. DOMAIN CourseAt(q).meeting = 1..Len(CourseAt(q).meeting)
          BY <3>2
        <4>2. DOMAIN CourseAt(q).meeting = {1}
          BY <2>5, <3>1
        <4> QED BY <3>1, <4>1, <4>2
      <3>4. q[1] < k
        <4>1. q[1] < k \/ (q[1] = k /\ q[2] < 1)
          BY <2>10 DEF Before
        <4> QED BY <3>3, <4>1
      <3>5. q[1] \notin I
        BY <2>8, <2>9, <3>1, <3>4
      <3> QED BY <2>5, <3>1, <3>3, <3>5
    <2>11. <<k, 1>> \in checkForClass(hour(c))
      BY <2>5, <2>9, <2>10 DEF checkForClass
    <2> QED BY <2>11
  <1> QED BY <1>1, ViewInvHolds, PTL

=============================================================================
