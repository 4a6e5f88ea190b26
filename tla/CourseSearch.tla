---------------------------- MODULE CourseSearch ----------------------------
(***************************************************************************)
(* The two lists with a search field: the courses (AddClassView.swift) and *)
(* the buildings (MapView.swift).  The list is fetched whenever it         *)
(* appears; the filter runs when the text changes, over what has been      *)
(* fetched by then, and not again when another list arrives.  The list of  *)
(* buildings is there only while there is a text, so its onChange does not *)
(* see the text become or cease to be empty.                               *)
(***************************************************************************)
EXTENDS FiniteSets

CONSTANTS
  Entries,   \* the courses or buildings umd.io may list
  Keywords,  \* what the user may type, the empty text included
  Matches,   \* the pairs of an entry and a text its id or name contains
  Requested  \* a request umd.io has not yet answered

ASSUME SearchAssumption ==
  /\ Matches \subseteq Entries \X Keywords
  /\ \E k \in Keywords : \A e \in Entries : <<e, k>> \notin Matches
  /\ \A list \in SUBSET Entries : list # Requested

VARIABLES
  view,      \* "courses" or "buildings"
  listed,    \* what umd.io lists
  fetched,   \* apiModel.courses or apiModel.locations
  filtered,  \* filteredCourses or filteredBuildings
  search,    \* the text typed
  requests,  \* the fetches under way
  heard,     \* history: the text preformSearch was last called with
  since      \* history: what was in the list then and in every list stored since

searchVars == <<view, listed, fetched, filtered, search, requests, heard, since>>

(* The empty text is contained in no string.                               *)
NoText == CHOOSE k \in Keywords : \A e \in Entries : <<e, k>> \notin Matches

Matching(list, keyword) == {e \in list : <<e, keyword>> \in Matches}

(* The rows shown: without a hit, all.                                     *)
rows == IF filtered = {} THEN fetched ELSE filtered

HasList(text) == view = "courses" \/ text # NoText

-----------------------------------------------------------------------------
SearchInit ==
  /\ view \in {"courses", "buildings"}
  /\ listed \in SUBSET Entries
  /\ fetched = {} /\ filtered = {}
  /\ search = NoText
  /\ requests = {}
  /\ heard = NoText /\ since = {}

campusChanges ==
  /\ listed' \in SUBSET Entries
  /\ UNCHANGED <<view, fetched, filtered, search, requests, heard, since>>

(* .task: the tab is shown again.                                          *)
listAppears ==
  /\ HasList(search)
  /\ requests' = requests \cup {Requested}
  /\ UNCHANGED <<view, listed, fetched, filtered, search, heard, since>>

(* The task is cancelled, which an answer that has come in does not        *)
(* notice; or the request or the decoding throws.                          *)
fetchEnds ==
  /\ Requested \in requests
  /\ requests' = requests \ {Requested}
  /\ UNCHANGED <<view, listed, fetched, filtered, search, heard, since>>

(* umd.io answers with what it lists at that moment.                       *)
listAnswered ==
  /\ Requested \in requests
  /\ requests' = (requests \ {Requested}) \cup {listed}
  /\ UNCHANGED <<view, listed, fetched, filtered, search, heard, since>>

(* fetchCourses and fetchAllBuildings store the answer.                    *)
fetchCourses ==
  \E answer \in requests \ {Requested} :
    /\ fetched' = answer
    /\ requests' = requests \ {answer}
    /\ since' = since \cap answer
    /\ UNCHANGED <<view, listed, filtered, search, heard>>

(* Mutant of preformSearch: it searches the rows shown.                    *)
preformSearchShown(keyword) ==
  /\ filtered' = Matching(rows, keyword)
  /\ heard' = keyword /\ since' = fetched

preformSearch(keyword) ==
  /\ filtered' = Matching(fetched, keyword)
  /\ heard' = keyword /\ since' = fetched

(* The list of buildings comes and goes with the text, and its task too.   *)
typeKeyword(keyword) ==
  /\ keyword # search
  /\ search' = keyword
  /\ IF HasList(search) /\ HasList(keyword)
     THEN preformSearch(keyword) /\ UNCHANGED requests
     ELSE /\ requests' = IF HasList(keyword) THEN requests \cup {Requested}
                         ELSE requests \ {Requested}
          /\ UNCHANGED <<filtered, heard, since>>
  /\ UNCHANGED <<view, listed, fetched>>

SearchNext ==
  \/ campusChanges
  \/ listAppears
  \/ fetchEnds
  \/ listAnswered
  \/ fetchCourses
  \/ \E k \in Keywords : typeKeyword(k)

SearchSpec == SearchInit /\ [][SearchNext]_searchVars

-----------------------------------------------------------------------------
(* "Users can specify either course numbers or course titles": whatever    *)
(* was typed before, and whatever lists have been stored since, the rows   *)
(* are entries that match the text, and none that matches and has been in  *)
(* the list all along is missing; all are shown only when there is none.   *)
(* What has left the list may still be shown and what has come be missing, *)
(* as the filter does not run again.  Of the courses every text is heard;  *)
(* of the buildings the rows are those of the last text that was.          *)
RowsMatchSearch ==
  /\ view = "courses" => heard = search
  /\ Matching(since, heard) \subseteq rows
  /\ \/ rows \subseteq Matching(Entries, heard)
     \/ rows = fetched /\ Matching(since, heard) = {}

=============================================================================
