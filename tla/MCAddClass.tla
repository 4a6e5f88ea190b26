----------------------------- MODULE MCAddClass -----------------------------
(* The Add Course tab and what belongs to it for TLC: each behaviour is    *)
(* one of a single part, the others stay as they begin.                    *)
EXTENDS SectionView, CourseSearch, Reviews, Notifications

VARIABLE part

addClassVars == <<part, sectionVars, searchVars, reviewVars, notifyVars>>

Answer(id, open, meetings) == [id |-> id, open_seats |-> open, meetings |-> meetings]

Meet(days, type, start, end) ==
  [days |-> days, classtype |-> type, start_time |-> start, end_time |-> end]

Mornings == <<Meet({"M", "W", "F"}, "", AM(10, 0), AM(10, 50)),
              Meet({"Tu"}, "Discussion", PM(1, 0), PM(1, 50))>>
Tuesdays == <<Meet({"Tu", "Th"}, "", PM(1, 0), PM(1, 45))>>

(* A section moves from MWF to TuTh and may lose its meetings; another     *)
(* keeps its slot, which conflicts with one of these, while its seats come *)
(* and go.                                                                 *)
SectionAnswers == {Answer("0101", "5", Mornings), Answer("0101", "5", Tuesdays),
                   Answer("0101", "5", <<>>),
                   Answer("0201", "5", Mornings), Answer("0201", "0", Mornings)}

CoursesAnswered == {CourseOf(a) : a \in {b \in SectionAnswers : b.meetings # <<>>}}

Clock == [t \in Times |-> Minute(t)]

(* Part of the numbers, a title, and the empty text.                       *)
MCMatches == {<<"CMSC131", "cmsc">>, <<"CMSC132", "cmsc">>, <<"CMSC132", "oop">>}

(* A number in lower case, one with a slash, one of no course, a dot.      *)
MCPaths == [cmsc131 |-> <<"CMSC131">>, slash |-> <<"CMSC131", "H">>,
            unknown |-> <<"CMSC 131">>, dot |-> <<>>]

SectionPart ==
  /\ part = "section" /\ SectionNext
  /\ UNCHANGED <<part, searchVars, reviewVars, notifyVars>>
SearchPart ==
  /\ part = "search" /\ SearchNext
  /\ UNCHANGED <<part, sectionVars, reviewVars, notifyVars>>
ReviewsPart ==
  /\ part = "reviews" /\ ReviewsNext
  /\ UNCHANGED <<part, sectionVars, searchVars, notifyVars>>
NotificationsPart ==
  /\ part = "notifications" /\ NotificationsNext
  /\ UNCHANGED <<part, sectionVars, searchVars, reviewVars>>

AddClassInit ==
  /\ part \in {"section", "search", "reviews", "notifications"}
  /\ SectionInit /\ SearchInit /\ ReviewsInit /\ NotificationsInit
  /\ part # "section" => \A s \in Sections : server[s] = CHOOSE a \in AnswersTo(s) : TRUE
  /\ part # "search" => view = "courses" /\ listed = {}
  /\ part # "notifications" => now = 0

AddClassNext == SectionPart \/ SearchPart \/ ReviewsPart \/ NotificationsPart

AddClassSpec == AddClassInit /\ [][AddClassNext]_addClassVars

=============================================================================
