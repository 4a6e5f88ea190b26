---------------------------- MODULE SectionView -----------------------------
(***************************************************************************)
(* The page of a course in AddClassView.swift: DetailedCourseInfo fetches  *)
(* the course, then one SectionView per section fetches its section from   *)
(* umd.io through an APIModel of its own (Models/APIModel.swift).  The     *)
(* buttons act on the section as it was fetched, which may no longer be    *)
(* what the server says, nor what it said when the section was added.      *)
(*                                                                         *)
(* Answers are applied on the main actor; while a fetch is under way the   *)
(* user and the server go on.                                              *)
(***************************************************************************)
EXTENDS ScheduleModel

CONSTANTS
  Answers,  \* the SectionResponse values the server may give
  Asked     \* a request the server has not yet answered

VARIABLES
  server,    \* what the server says of each section
  page,      \* the state of the page
  sections,  \* apiModel.sections of each SectionView, at most one entry
  fetches    \* the fetchSections calls under way of each SectionView

svars == <<server, page, sections, fetches>>
sectionVars == <<currSchedule, currClasses, addFailed, trapped, server, page, sections, fetches>>

Sections == {a.id : a \in Answers}

AnswersTo(s) == {a \in Answers : a.id = s}

(* The CourseData addCourse and deleteCourse build.                        *)
CourseOf(section) == [sectionID |-> section.id, meeting |-> section.meetings]

ASSUME AnswersAssumption ==
  /\ Asked \notin Answers
  /\ {CourseOf(a) : a \in {b \in Answers : b.meetings # <<>>}} \subseteq Courses

Nothing == [s \in Sections |-> {}]

-----------------------------------------------------------------------------
SectionInit ==
  /\ Init
  /\ server \in [Sections -> Answers] /\ \A s \in Sections : server[s].id = s
  /\ page = "closed"
  /\ sections = [s \in Sections |-> <<>>]
  /\ fetches = Nothing

(* The registrar changes seats or meetings.                                *)
serverChanges(s) ==
  /\ \E a \in AnswersTo(s) : server' = [server EXCEPT ![s] = a]
  /\ UNCHANGED <<vars, page, sections, fetches>>

Running == ~ trapped /\ ~ addFailed

(* The link of the course is followed: fetchCourseInfo starts.             *)
openPage ==
  /\ Running
  /\ page = "closed"
  /\ page' = "loading"
  /\ UNCHANGED <<vars, server, sections, fetches>>

(* fetchCourseInfo sets info: the SectionViews appear and start to fetch.  *)
fetchCourseInfo ==
  /\ ~ trapped
  /\ page = "loading"
  /\ page' = "shown"
  /\ fetches' = [s \in Sections |-> {Asked}]
  /\ UNCHANGED <<vars, server, sections>>

(* fetchCourseInfo throws: the error is printed and the page stays blank.  *)
fetchCourseInfoFails ==
  /\ ~ trapped
  /\ page = "loading"
  /\ page' = "blank"
  /\ UNCHANGED <<vars, server, sections, fetches>>

(* Back to the list: the views go, and their models with them.             *)
closePage ==
  /\ Running
  /\ page # "closed"
  /\ page' = "closed"
  /\ sections' = [s \in Sections |-> <<>>]
  /\ fetches' = Nothing
  /\ UNCHANGED <<vars, server>>

(* Another tab: the tasks are cancelled, which an answer that has already  *)
(* come in does not notice.  The models stay.                              *)
hidePage ==
  /\ Running
  /\ page = "shown"
  /\ page' = "hidden"
  /\ fetches' = [s \in Sections |-> fetches[s] \ {Asked}]
  /\ UNCHANGED <<vars, server, sections>>

(* Back on the tab: every task runs again.                                 *)
showPage ==
  /\ Running
  /\ page = "hidden"
  /\ page' = "shown"
  /\ fetches' = [s \in Sections |-> fetches[s] \cup {Asked}]
  /\ UNCHANGED <<vars, server, sections>>

(* umd.io answers with what it says at that moment.                        *)
serverAnswers(s) ==
  /\ Asked \in fetches[s]
  /\ fetches' = [fetches EXCEPT ![s] = (@ \ {Asked}) \cup {server[s]}]
  /\ UNCHANGED <<vars, server, page, sections>>

(* The request or the decoding throws: the error is printed.               *)
fetchSectionsFails(s) ==
  /\ Asked \in fetches[s]
  /\ fetches' = [fetches EXCEPT ![s] = @ \ {Asked}]
  /\ UNCHANGED <<vars, server, page, sections>>

(* The answer is stored and the body is evaluated, with meetings[0].       *)
fetchSections(s) ==
  /\ ~ trapped
  /\ \E a \in fetches[s] \ {Asked} :
       /\ sections' = [sections EXCEPT ![s] = <<a>>]
       /\ fetches' = [fetches EXCEPT ![s] = @ \ {a}]
       /\ trapped' = (a.meetings = <<>>)
  /\ UNCHANGED <<currSchedule, currClasses, addFailed, server, page>>

-----------------------------------------------------------------------------
ButtonShown(s) == Running /\ page = "shown" /\ sections[s] # <<>>

(* open_seats of the section as fetched; the bell is shown when it is "0". *)
SeatsOpen(s) == sections[s][1].open_seats # "0"

addCourse(s) ==
  /\ ButtonShown(s)
  /\ SeatsOpen(s)
  /\ s \notin ToSet(currClasses)
  /\ addToSchedule(CourseOf(sections[s][1]))
  /\ UNCHANGED svars

deleteCourse(s) ==
  /\ ButtonShown(s)
  /\ SeatsOpen(s)
  /\ s \in ToSet(currClasses)
  /\ removeFromSchedule(CourseOf(sections[s][1]))
  /\ UNCHANGED svars

dismissAlert ==
  /\ ~ trapped
  /\ addFailed
  /\ addFailed' = FALSE
  /\ UNCHANGED <<currSchedule, currClasses, trapped, svars>>

relaunch ==
  /\ currSchedule' = [day \in Day |-> <<>>]
  /\ currClasses' = <<>>
  /\ addFailed' = FALSE
  /\ trapped' = FALSE
  /\ page' = "closed"
  /\ sections' = [s \in Sections |-> <<>>]
  /\ fetches' = Nothing
  /\ UNCHANGED server

SectionNext ==
  \/ \E s \in Sections : \/ serverChanges(s)
                         \/ serverAnswers(s)
                         \/ fetchSectionsFails(s)
                         \/ fetchSections(s)
                         \/ addCourse(s)
                         \/ deleteCourse(s)
  \/ openPage
  \/ fetchCourseInfo
  \/ fetchCourseInfoFails
  \/ closePage
  \/ hidePage
  \/ showPage
  \/ dismissAlert
  \/ relaunch

SectionSpec == SectionInit /\ [][SectionNext]_sectionVars

-----------------------------------------------------------------------------
(* The checkmark is not a lie: however the answers change and arrive, a    *)
(* section in currClasses is filed, in one of its versions, under every    *)
(* day addToSchedule files that version under, and is listed once.         *)
ListedIsFiled ==
  /\ IsInjective(currClasses)
  /\ \A s \in ToSet(currClasses) : \E c \in Courses :
       /\ c.sectionID = s
       /\ \A day \in CourseDays(c) : c \in ToSet(currSchedule[day])

(* deleteCourse, called with whatever version of the section is shown,     *)
(* takes at most one entry off a day, one of that section, and leaves the  *)
(* others as they are and in their order.                                  *)
DeletesOnlyItsSection ==
  [][\A s \in Sections : deleteCourse(s) =>
       \A day \in Day :
         \/ currSchedule'[day] = currSchedule[day]
         \/ \E i \in DOMAIN currSchedule[day] :
              /\ currSchedule[day][i].sectionID = s
              /\ currSchedule'[day] = RemoveAt(currSchedule[day], i)]_sectionVars

(* "add/delete courses from your schedule": what is filed under a day is   *)
(* listed, and so has a button that deletes it, whatever was fetched and   *)
(* deleted in between, of a section of which only the seats change.        *)
StableFiledIsListed ==
  \A day \in Day : \A c \in ToSet(currSchedule[day]) :
    (\A a \in AnswersTo(c.sectionID) : a.meetings = c.meeting) => Listed(c)

(* The same of every section.  It fails when meetings change, because      *)
(* removeFromSchedule looks under the days of the version shown.           *)
OnlyListedFiled ==
  \A day \in Day : \A c \in ToSet(currSchedule[day]) : Listed(c)

=============================================================================
