----------------------------- MODULE Timetable ------------------------------
(***************************************************************************)
(* What the schedule promises, without its lists: a set of booked courses. *)
(* A course is booked when one of its days is free of every booked course  *)
(* it is not compatible with, refused when none is, and dropped on demand. *)
(* ScheduleModel keeps one list per day and a list of ids instead, and is  *)
(* shown to implement this specification.                                  *)
(***************************************************************************)
CONSTANTS
  Items,       \* the courses on offer
  Days,        \* the days a timetable has
  DaysOf,      \* DaysOf[c] is the set of days c takes place on
  Compatible   \* the set of pairs of courses that may follow each other

VARIABLES
  booked,    \* the courses in the timetable
  refused,   \* the last request was refused and not yet acknowledged
  down       \* the program has stopped

tvars == <<booked, refused, down>>

Free(c, day) == \A b \in booked : day \in DaysOf[b] => <<b, c>> \in Compatible

TimetableInit == booked = {} /\ refused = FALSE /\ down = FALSE

Ready == ~ down /\ ~ refused

Book(c) ==
  /\ Ready
  /\ c \notin booked
  /\ DaysOf[c] # {} => \E day \in DaysOf[c] : Free(c, day)
  /\ booked' = booked \cup {c}
  /\ UNCHANGED <<refused, down>>

Refuse(c) ==
  /\ Ready
  /\ c \notin booked
  /\ DaysOf[c] # {}
  /\ \A day \in DaysOf[c] : ~ Free(c, day)
  /\ refused' = TRUE
  /\ UNCHANGED <<booked, down>>

Drop(c) ==
  /\ Ready
  /\ c \in booked
  /\ booked' = booked \ {c}
  /\ UNCHANGED <<refused, down>>

Acknowledge ==
  /\ refused
  /\ ~ down
  /\ refused' = FALSE
  /\ UNCHANGED <<booked, down>>

(* Only a request for a course without days can stop the program.          *)
Stop(c) ==
  /\ Ready
  /\ c \notin booked
  /\ DaysOf[c] = {}
  /\ down' = TRUE
  /\ UNCHANGED <<booked, refused>>

Restart ==
  /\ booked' = {}
  /\ refused' = FALSE
  /\ down' = FALSE

TimetableNext ==
  \/ \E c \in Items : Book(c) \/ Refuse(c) \/ Drop(c) \/ Stop(c)
  \/ Acknowledge
  \/ Restart

TimetableSpec == TimetableInit /\ [][TimetableNext]_tvars

=============================================================================
