--------------------------- MODULE MCScheduleView ---------------------------
(* Small sets of sections for the schedule and the tab that draws it.      *)
EXTENDS ScheduleView

Meet(days, type, start, end) ==
  [days |-> days, classtype |-> type, start_time |-> start, end_time |-> end]

Course(id, meetings) == [sectionID |-> id, meeting |-> meetings]

(* MWF morning lecture with a discussion on Tuesday.                       *)
MWF10 == Course("MWF10", <<Meet({"M", "W", "F"}, "", AM(10, 0), AM(10, 50)),
                           Meet({"Tu"}, "Discussion", PM(1, 0), PM(1, 50))>>)
(* Everything on one day.                                                  *)
M8Lab == Course("M8Lab", <<Meet({"M"}, "", AM(8, 0), AM(8, 50)),
                           Meet({"M"}, "Discussion", AM(9, 0), AM(9, 50)),
                           Meet({"M"}, "Lab", PM(2, 0), PM(3, 50))>>)
(* Starts when MWF10 ends, and runs over noon.                             *)
MW1050 == Course("MW1050", <<Meet({"M", "W"}, "", AM(10, 50), PM(12, 15))>>)
(* Overlaps the end of MWF10 and the beginning of MW1050.                  *)
M1030 == Course("M1030", <<Meet({"M"}, "", AM(10, 30), AM(11, 20))>>)
(* A lecture of 75 minutes.                                                *)
M10to1115 == Course("M10to1115", <<Meet({"M"}, "", AM(10, 0), AM(11, 15))>>)
(* Begins in the hour after midnight.                                      *)
M1230am == Course("M1230am", <<Meet({"M"}, "", AM(12, 30), AM(1, 20))>>)
TuTh1230 == Course("TuTh1230", <<Meet({"Tu", "Th"}, "", PM(12, 30), PM(1, 45))>>)
(* Ends when TuTh1230 ends.                                                *)
TuTh1 == Course("TuTh1", <<Meet({"Tu", "Th"}, "", PM(1, 0), PM(1, 45))>>)
(* Filed on Thursday by the two-character branch.                          *)
WF1 == Course("WF1", <<Meet({"W", "F"}, "", PM(1, 0), PM(1, 50))>>)
(* No branch takes the lecture; the discussion is looked at instead.       *)
Daily == Course("Daily", <<Meet({"M", "Tu", "W", "Th", "F"}, "", AM(9, 0), AM(9, 50)),
                           Meet({"M", "W"}, "Discussion", PM(3, 0), PM(3, 50))>>)
(* A section without fixed days.                                           *)
Online == Course("Online", <<Meet({}, "", NoTime, NoTime)>>)

(* Sections that collide, touch, overlap in part, are misfiled, have no    *)
(* days or end the process.                                                *)
Catalogue == {MWF10, MW1050, M1030, TuTh1230, TuTh1, WF1, Online, Daily}

(* Two lectures of one hour, one of the hour after midnight on a day of    *)
(* others, a course with a discussion on another day, one with three       *)
(* meetings on the same day and a misfiled one.                            *)
Drawable == {MW1050, M10to1115, M1230am, MWF10, M8Lab, WF1}

(* The reading of "HH:mma" the code counts on: the minute of the day.      *)
Clock == [t \in Times |-> Minute(t)]

(* Two lectures that collide on Monday only.                               *)
OneDayCollision == {M10to1115, MWF10}

AllSections == Catalogue \cup Drawable

VARIABLE part

scheduleVars == <<part, viewVars>>

(* A part lists its own sections; the others are at most refused.          *)
ListsOnly(sections) == \A id \in ToSet(currClasses') : \E c \in sections : c.sectionID = id

(* The schedule by itself, and the tab with fewer sections and every day.  *)
SchedulePart ==
  /\ part = "schedule" /\ Next /\ ListsOnly(Catalogue)
  /\ UNCHANGED <<part, selectedDay>>
TabPart ==
  /\ part = "tab" /\ ViewNext /\ ListsOnly(Drawable)
  /\ UNCHANGED part

ScheduleInit ==
  /\ part \in {"schedule", "tab"}
  /\ ViewInit
  /\ part = "schedule" => selectedDay = "Mon"

ScheduleSpec == ScheduleInit /\ [][SchedulePart \/ TabPart]_scheduleVars

=============================================================================
