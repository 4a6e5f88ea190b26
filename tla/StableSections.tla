--------------------------- MODULE StableSections ---------------------------
(***************************************************************************)
(* The schedule and the two buttons of SectionView (AddClassView.swift)    *)
(* that change it, while what the server says of a section stays the same: *)
(* the sections are a constant.                                            *)
(***************************************************************************)
EXTENDS ScheduleModel

(* "sectionID is unique".                                                  *)
ASSUME UniqueSections ==
  \A c, e \in Courses : c.sectionID = e.sectionID => c = e

-----------------------------------------------------------------------------
(* The section button is a plus or a checkmark, by currClasses.contains;   *)
(* the alert is modal, so no button is reached while it is up.             *)
ButtonsReachable == ~ trapped /\ ~ addFailed

addCourse(course) ==
  /\ ButtonsReachable
  /\ ~ Listed(course)
  /\ addToSchedule(course)

deleteCourse(course) ==
  /\ ButtonsReachable
  /\ Listed(course)
  /\ removeFromSchedule(course)

(* "Ok" on the alert: SwiftUI resets the binding.                          *)
dismissAlert ==
  /\ ~ trapped
  /\ addFailed
  /\ addFailed' = FALSE
  /\ UNCHANGED <<currSchedule, currClasses, trapped>>

(* The process ends, by a trap, the user or the system.  Nothing is saved: *)
(* the next launch builds an empty ScheduleModel.                          *)
relaunch ==
  /\ currSchedule' = [day \in Day |-> <<>>]
  /\ currClasses' = <<>>
  /\ addFailed' = FALSE
  /\ trapped' = FALSE

Next ==
  \/ \E course \in Courses : addCourse(course) \/ deleteCourse(course)
  \/ dismissAlert
  \/ relaunch

Spec == Init /\ [][Next]_vars

-----------------------------------------------------------------------------
(* currClasses and currSchedule are updated separately by every call and   *)
(* must tell the same story: a course is on the list of a day exactly when *)
(* its section id is listed and the if-chain files it under that day.      *)
SameCourses ==
  \A day \in Day : \A c \in Courses :
    c \in ToSet(currSchedule[day]) <=> Listed(c) /\ day \in CourseDays(c)

(* No section is twice in currClasses or twice on one day, so that         *)
(* removing the first match removes the section for good.                  *)
NoDuplicates ==
  /\ IsInjective(currClasses)
  /\ \A day \in Day : IsInjective(currSchedule[day])

ConsistentSchedule == SameCourses /\ NoDuplicates

(* What the && of checkConflict does guarantee: a course whose days are    *)
(* all days of a course added before it is in order with that course.  In  *)
(* particular two courses on the same days never share a slot, whatever    *)
(* was added and deleted in between.                                       *)
CoveredDaysInOrder ==
  \A m, n \in 1..Len(currClasses) : \A c, e \in Courses :
    /\ m < n
    /\ c.sectionID = currClasses[m]
    /\ e.sectionID = currClasses[n]
    /\ CourseDays(e) # {}
    /\ CourseDays(e) \subseteq CourseDays(c)
    => InOrder(Lecture(c), Lecture(e))

(* Two meetings that share some minute of the day.                         *)
Overlap(a, b) ==
  /\ Minute(a.start_time) < Minute(b.end_time)
  /\ Minute(b.start_time) < Minute(a.end_time)

(* The alert "you attempted to add a course that would cause a time        *)
(* conflict" is never a false alarm: when addToSchedule fails, the lecture *)
(* overlaps a filed lecture on every day it would be filed under.  Classes *)
(* that only touch are accepted.                                           *)
RefusalJustified ==
  [][\A course \in Courses :
       addCourse(course) /\ addFailed' =>
         \A day \in CourseDays(course) : \E i \in 1..Len(currSchedule[day]) :
           Overlap(Lecture(currSchedule[day][i]), Lecture(course))]_vars

-----------------------------------------------------------------------------
(* The schedule implements the abstract timetable whose bookings are the   *)
(* listed courses: the per-day lists, the id list and the guards of        *)
(* addToSchedule and removeFromSchedule add nothing to it and lose nothing.*)
Abstract == INSTANCE Timetable WITH
  Items <- Courses,
  Days <- Day,
  DaysOf <- [c \in Courses |-> CourseDays(c)],
  Compatible <- {p \in Courses \X Courses : InOrder(Lecture(p[1]), Lecture(p[2]))},
  booked <- {c \in Courses : Listed(c)},
  refused <- addFailed,
  down <- trapped

ImplementsTimetable == Abstract!TimetableSpec

-----------------------------------------------------------------------------
(* What a comment of ScheduleModel says and the code does not do.          *)

(* "Verify that the lecture times do not conflict ... Return true: if      *)
(* there are conflicts": no two lectures of any day fail the comparison of *)
(* checkLecture.                                                           *)
NoConflictOnAnyDay ==
  \A day \in Day : \A i, j \in 1..Len(currSchedule[day]) :
    i # j => InOrder(Lecture(currSchedule[day][i]), Lecture(currSchedule[day][j]))

=============================================================================
