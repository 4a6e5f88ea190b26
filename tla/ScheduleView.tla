---------------------------- MODULE ScheduleView ----------------------------
(***************************************************************************)
(* ScheduleView.swift: the tab that draws one day of the schedule, hour by *)
(* hour, from currSchedule.  It has one state variable of its own.         *)
(***************************************************************************)
EXTENDS StableSections

VARIABLE selectedDay  \* the name of the day on display, a String

viewVars == <<currSchedule, currClasses, addFailed, trapped, selectedDay>>

(* What getDate() can return: the system's short weekday names, in English.*)
getDate == {"Sun", "Mon", "Tue", "Wed", "Thu", "Fri", "Sat"}

ViewInit == Init /\ selectedDay \in getDate

(* One of the seven buttons, labelled with the raw values of Day; the one  *)
(* of the selected day is not a button.                                    *)
selectDay(day) ==
  /\ ~ trapped
  /\ day # selectedDay
  /\ selectedDay' = day
  /\ UNCHANGED vars

ViewNext ==
  \/ \E course \in Courses : (addCourse(course) \/ deleteCourse(course)) /\ UNCHANGED selectedDay
  \/ dismissAlert /\ UNCHANGED selectedDay
  \/ relaunch /\ selectedDay' \in getDate
  \/ \E day \in Day : selectDay(day)

ViewSpec == ViewInit /\ [][ViewNext]_viewVars

-----------------------------------------------------------------------------
(* Mutant of currDay: no name is found among the raw values.               *)
currDayMonday == "Mon"

(* A name that is no raw value of Day is taken for Monday.                 *)
currDay == IF selectedDay \in Day THEN selectedDay ELSE "Mon"

(* The hours that have a row.                                              *)
Hours == 8..22

(* The meetings checkForClass visits, in the order of the two loops.       *)
Slots == UNION {{<<k, j>> : j \in DOMAIN currSchedule[currDay][k].meeting}
                  : k \in DOMAIN currSchedule[currDay]}

CourseAt(slot) == currSchedule[currDay][slot[1]]

MeetingAt(slot) == CourseAt(slot).meeting[slot[2]]

Before(p, q) == p[1] < q[1] \/ (p[1] = q[1] /\ p[2] < q[2])

MeetsCurr(slot) == MeetsOn(MeetingAt(slot).days, currDay)

StartHr(slot) == convertTime(MeetingAt(slot).start_time)[1]

(* Mutant of checkForClass: a meeting at another hour ends the scan too.   *)
checkForClassFirst(currTime) ==
  {slot \in Slots : /\ slot = <<1, 1>>
                    /\ MeetsCurr(slot) /\ StartHr(slot) = currTime}

(***************************************************************************)
(* What is drawn in the row of an hour, as a set with at most one slot.    *)
(* The scan ends at the first meeting that is not on the day, and draws    *)
(* nothing, or at the first that starts in the hour, and draws it.         *)
(***************************************************************************)
checkForClass(currTime) ==
  {slot \in Slots :
     /\ MeetsCurr(slot) /\ StartHr(slot) = currTime
     /\ \A q \in Slots : Before(q, slot) => MeetsCurr(q) /\ StartHr(q) # currTime}

-----------------------------------------------------------------------------
(* checkForClass trusts currSchedule, which files some courses under days  *)
(* they do not meet on.  Still, what it draws is right: the course is in   *)
(* the schedule, and has a meeting that starts in that hour on the day the *)
(* user selected, or the day of the launch.  On a Wednesday getDate gives  *)
(* "Wed", the enum says "Wen", and what is drawn is Monday's; and what     *)
(* starts between midnight and one is drawn at noon.                       *)
DrawnIsRight ==
  \A t \in Hours : \A slot \in checkForClass(t) :
    /\ Listed(CourseAt(slot))
    /\ \E j \in DOMAIN CourseAt(slot).meeting :
         LET mtg == CourseAt(slot).meeting[j]
         IN  /\ MeetsOn(mtg.days, IF selectedDay = "Wed" THEN "Mon" ELSE selectedDay)
             /\ \/ Minute(mtg.start_time) \div 60 = t
                \/ Minute(mtg.start_time) \div 60 = 0 /\ t = 12

(* The letter scan and the if-chain agree on the days of the lecture.      *)
FiledWhereItMeets(course) == CourseDays(course) = {d \in Day : MeetsOn(Lecture(course).days, d)}

(* A schedule of lectures only, all filed where they meet, is drawn in     *)
(* full: each lecture of the day has its row, or shares its hour with one  *)
(* that has.                                                               *)
LecturesDrawn ==
  (\A c \in Courses : Listed(c) => Len(c.meeting) = 1 /\ FiledWhereItMeets(c))
    => \A c \in Courses :
         /\ Listed(c)
         /\ MeetsOn(Lecture(c).days, currDay)
         /\ Minute(Lecture(c).start_time) \div 60 \in Hours
         => checkForClass(Minute(Lecture(c).start_time) \div 60) # {}

=============================================================================
