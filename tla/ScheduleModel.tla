--------------------------- MODULE ScheduleModel ----------------------------
(***************************************************************************)
(* Models/ScheduleModel.swift: the weekly schedule and its operations.     *)
(* The callers, the section buttons, are in StableSections (sections that  *)
(* never change) and SectionView (sections that are fetched again).        *)
(*                                                                         *)
(* Everything runs on the main thread, so each call is one step.           *)
(***************************************************************************)
EXTENDS Meetings, SequencesExt

CONSTANTS
  Courses,  \* the CourseData values the section buttons can pass
  DateOf    \* DateFormatter("HH:mma").date(from:), on the times of Courses

VARIABLES
  currSchedule,  \* the courses filed under each day
  currClasses,   \* the section ids in the schedule, in the order added
  addFailed,     \* drives the alert of DetailedCourseInfo
  trapped        \* a force-unwrapped nil has ended the process

vars == <<currSchedule, currClasses, addFailed, trapped>>

SectionIDs == {c.sectionID : c \in Courses}

Lecture(course) == course.meeting[1]

Times == Time \cap
         UNION {{Lecture(c).start_time, Lecture(c).end_time} : c \in Courses}

(***************************************************************************)
(* A section with a button has a first meeting, which has times when it    *)
(* has days.  DateOf is any function: how "HH" and "a" combine in one      *)
(* pattern is the formatter's affair.                                      *)
(***************************************************************************)
ASSUME CoursesAssumption ==
  /\ \A c \in Courses : /\ c.meeting \in Seq(Meeting)
                        /\ c.meeting # <<>>
                        /\ Lecture(c).days # {} =>
                             {Lecture(c).start_time, Lecture(c).end_time} \subseteq Time
  /\ DateOf \in [Times -> Nat]

CourseDays(course) == LectureDays(Lecture(course).days)

-----------------------------------------------------------------------------
(* Mutant of InOrder: lectures that touch are taken for a conflict.        *)
InOrderApart(old, new) ==
  \/ DateOf[old.end_time] < DateOf[new.start_time]
  \/ DateOf[new.end_time] < DateOf[old.start_time]

(* checkLecture's test on one stored course: it must start and end before  *)
(* the new one, or start and end after it.                                 *)
InOrder(old, new) ==
  /\ ~ (old.start_time = new.start_time /\ old.end_time = new.end_time)
  /\ \/ /\ DateOf[old.start_time] < DateOf[new.start_time]
        /\ DateOf[old.end_time] < DateOf[new.end_time]
     \/ /\ DateOf[old.start_time] > DateOf[new.start_time]
        /\ DateOf[old.end_time] > DateOf[new.end_time]

(* Mutant of checkLecture: the loop returns after the first course.        *)
checkLectureFirst(day, new) ==
  /\ currSchedule[day] # <<>>
  /\ ~ InOrder(Lecture(currSchedule[day][1]), new)

(* TRUE when some course of the day conflicts with the new lecture.        *)
checkLecture(day, new) ==
  \E i \in 1..Len(currSchedule[day]) : ~ InOrder(Lecture(currSchedule[day][i]), new)

(***************************************************************************)
(* checkDiscussion parses "hh:mmam" with the pattern "HH:mm", which leaves *)
(* the meridiem unread, so date(from:) is nil and the unwrap traps on the  *)
(* first course of the day that has exactly two meetings.  Otherwise it    *)
(* returns false.                                                          *)
(***************************************************************************)
checkDiscussionTraps(day) ==
  \E i \in 1..Len(currSchedule[day]) : Len(currSchedule[day][i].meeting) = 2

(* The discussion is looked at only when no branch recognised the days of  *)
(* the lecture.  A check that returns false ends the && chain, so only the *)
(* first day of the discussion is ever visited.                            *)
discussionCheckTraps(course) ==
  /\ CourseDays(course) = {}
  /\ Len(course.meeting) = 2
  /\ LET days == LectureDays(course.meeting[2].days)
         first == SelectInSeq(Week, LAMBDA d : d \in days)
     IN  first # 0 /\ checkDiscussionTraps(Week[first])

(* Mutant of checkConflict: the days are joined by ||.                     *)
checkConflictAnyDay(course) ==
  \E day \in CourseDays(course) : checkLecture(day, Lecture(course))

(* The checks of the single days are joined by &&: a lecture conflicts     *)
(* when it conflicts on all of its days.                                   *)
checkConflict(course) ==
  /\ CourseDays(course) # {}
  /\ \A day \in CourseDays(course) : checkLecture(day, Lecture(course))

-----------------------------------------------------------------------------
(* Mutant of Init: the dictionary literal leaves a day out.                *)
InitMissingDay ==
  /\ currSchedule = [day \in Day \ {"Sun"} |-> <<>>]
  /\ currClasses = <<>>
  /\ addFailed = FALSE
  /\ trapped = FALSE

Init ==
  /\ currSchedule = [day \in Day |-> <<>>]
  /\ currClasses = <<>>
  /\ addFailed = FALSE
  /\ trapped = FALSE

fileUnder(course) ==
  [day \in Day |-> IF day \in CourseDays(course)
                     THEN Append(currSchedule[day], course)
                     ELSE currSchedule[day]]

addToSchedule(course) ==
  \/ /\ discussionCheckTraps(course)
     /\ trapped' = TRUE
     /\ UNCHANGED <<currSchedule, currClasses, addFailed>>
  \/ /\ ~ discussionCheckTraps(course)
     /\ checkConflict(course)
     /\ addFailed' = TRUE
     /\ UNCHANGED <<currSchedule, currClasses, trapped>>
  \/ /\ ~ discussionCheckTraps(course)
     /\ ~ checkConflict(course)
     /\ currSchedule' = fileUnder(course)
     /\ currClasses' = Append(currClasses, course.sectionID)
     /\ addFailed' = FALSE
     /\ UNCHANGED trapped

(* Mutant of quickDelete: the head of the list goes, whatever it is.       *)
quickDeleteHead(day, course) ==
  IF currSchedule[day] = <<>> THEN <<>> ELSE Tail(currSchedule[day])

(* The list of one day without its first course of that section.           *)
quickDelete(day, course) ==
  RemoveFirstMatch(currSchedule[day], LAMBDA c : c.sectionID = course.sectionID)

(* Mutant of removeFromSchedule: the id stays in currClasses.              *)
removeFromScheduleKeepsId(course) ==
  /\ currSchedule' = [day \in Day |-> IF day \in CourseDays(course)
                                        THEN quickDelete(day, course)
                                        ELSE currSchedule[day]]
  /\ UNCHANGED <<currClasses, addFailed, trapped>>

(* Mutant of removeFromSchedule: the MWF branch forgets Friday.            *)
removeFromScheduleButFriday(course) ==
  /\ currClasses' = RemoveFirst(currClasses, course.sectionID)
  /\ currSchedule' = [day \in Day |-> IF day \in CourseDays(course) \ {"Fri"}
                                        THEN quickDelete(day, course)
                                        ELSE currSchedule[day]]
  /\ UNCHANGED <<addFailed, trapped>>

removeFromSchedule(course) ==
  /\ currClasses' = RemoveFirst(currClasses, course.sectionID)
  /\ currSchedule' = [day \in Day |-> IF day \in CourseDays(course)
                                        THEN quickDelete(day, course)
                                        ELSE currSchedule[day]]
  /\ UNCHANGED <<addFailed, trapped>>

-----------------------------------------------------------------------------
(* currClasses.contains, which every button asks.                          *)
Listed(course) == course.sectionID \in ToSet(currClasses)

(* The dictionary and the two lists hold what they are declared to hold:   *)
(* currSchedule, currClasses and addFailed of ScheduleModel.               *)
TypeOK ==
  /\ currSchedule \in [Day -> Seq(Courses)]
  /\ currClasses \in Seq(SectionIDs)
  /\ addFailed \in BOOLEAN
  /\ trapped \in BOOLEAN

=============================================================================
