------------------------------ MODULE Meetings ------------------------------
(***************************************************************************)
(* The data a section carries into the schedule: day codes, clock times    *)
(* and meetings (Models/Course.swift, Models/ScheduleModel.swift,          *)
(* Models/Utils.swift), and the two ways the app reads a day code:         *)
(*                                                                         *)
(*   LectureDays  the if-chain of ScheduleModel, which decides under which *)
(*                days a course is stored, checked and deleted;            *)
(*   MeetsOn      the letter scan of ScheduleView.checkForClass, which     *)
(*                decides on which days a meeting is drawn.                *)
(***************************************************************************)
EXTENDS Naturals, Sequences, FiniteSets

(* enum Day, with the spelling of its raw values.                          *)
Week == <<"Sun", "Mon", "Tue", "Wen", "Thu", "Fri", "Sat">>

Day == {"Sun", "Mon", "Tue", "Wen", "Thu", "Fri", "Sat"}

(***************************************************************************)
(* umd.io writes the days of a meeting as the concatenation, in week       *)
(* order, of the letters below ("MWF", "TuTh", "" when no day is fixed).   *)
(* A day code is the set of its letters.                                   *)
(***************************************************************************)
OneCharLetter == {"M", "W", "F"}

TwoCharLetter == {"Tu", "Th", "Sa", "Su"}

DayCode == SUBSET (OneCharLetter \cup TwoCharLetter)

(* String.count of a day code.                                             *)
CodeLength(days) == Cardinality(days \cap OneCharLetter)
                    + 2 * Cardinality(days \cap TwoCharLetter)

(***************************************************************************)
(* The days ScheduleModel files a lecture under.  The same if-chain is     *)
(* written out in addToSchedule, checkConflict and removeFromSchedule; a   *)
(* code no branch recognises is filed nowhere.  A two-character code other *)
(* than MW and Tu goes to Thursday, whatever its letters.                  *)
(***************************************************************************)
LectureDays(days) ==
  CASE days = {"M", "W", "F"} -> {"Mon", "Wen", "Fri"}
    [] days = {"Tu", "Th"}    -> {"Tue", "Thu"}
    [] days = {"M", "W"}      -> {"Mon", "Wen"}
    [] days = {"M"}           -> {"Mon"}
    [] days = {"W"}           -> {"Wen"}
    [] days = {"Tu"}          -> {"Tue"}
    [] CodeLength(days) = 1 /\ days \notin {{"M"}, {"W"}} -> {"Fri"}
    [] CodeLength(days) = 2 /\ days \notin {{"M", "W"}, {"Tu"}} -> {"Thu"}
    [] OTHER -> {}

(* The letter checkForClass looks for on each day; it has none for the     *)
(* weekend.                                                                *)
LetterOf == [Mon |-> "M", Tue |-> "Tu", Wen |-> "W", Thu |-> "Th", Fri |-> "F"]

MeetsOn(days, day) == day \in DOMAIN LetterOf /\ LetterOf[day] \in days

(***************************************************************************)
(* A time as the API writes it, "hh:mmam" or "hh:mmpm".  NoTime is the     *)
(* empty string of a meeting without fixed days.                           *)
(***************************************************************************)
Time == [h : 1..12, m : 0..59, pm : BOOLEAN]

NoTime == [h |-> 0, m |-> 0, pm |-> FALSE]

AM(h, m) == [h |-> h, m |-> m, pm |-> FALSE]
PM(h, m) == [h |-> h, m |-> m, pm |-> TRUE]

(* The minute of the day a time denotes.                                   *)
Minute(t) == (t.h % 12) * 60 + t.m + (IF t.pm THEN 720 ELSE 0)

(* convertTime keeps the hour of every am time, 12am included.  It cannot  *)
(* split the empty string, but is asked only for meetings that have days.  *)
convertTime(t) == <<IF t.pm /\ t.h # 12 THEN t.h + 12 ELSE t.h, t.m>>

Meeting == [days : DayCode, classtype : {"", "Discussion", "Lab"},
            start_time : Time \cup {NoTime}, end_time : Time \cup {NoTime}]

=============================================================================
