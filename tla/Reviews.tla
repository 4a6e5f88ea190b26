------------------------------- MODULE Reviews -------------------------------
(***************************************************************************)
(* Course reviews: the form of ReviewView.swift, reviewView and its        *)
(* loadReviews in AddClassView.swift, and the Firebase database between    *)
(* them (external).  The database delivers the children of a course to     *)
(* every observer when it is registered and at every change; an observer   *)
(* is registered each time the page appears and none is ever removed.      *)
(***************************************************************************)
EXTENDS Integers, Sequences, FiniteSets

CONSTANTS
  ReviewCourses,  \* the courses with a page
  TypedNames,     \* what the user may type as course number, other than ""
  UppercasedPath, \* the components of courses/<name.uppercased()>; <<>> if
                  \* it has a character Firebase refuses
  NoPage,
  MaxReviews,     \* bound on the reviews written, here and elsewhere
  MaxObservers    \* bound on the appearances of a page

ASSUME ReviewsAssumption ==
  /\ UppercasedPath \in [TypedNames -> Seq(STRING)]
  /\ NoPage \notin ReviewCourses /\ "" \notin TypedNames
  /\ MaxReviews \in Nat /\ MaxObservers \in Nat

VARIABLES
  database,     \* the children of every course, and how often one was added
  form,         \* course, reviewText of ReviewView; a text is a number, 0 none
  submitted,    \* the alert is up
  reviewPage,   \* the course whose reviewView is on screen, or NoPage
  observers,    \* the observers of that page
  events,       \* the snapshots Firebase has yet to deliver to them
  reviews,      \* how often each child is in reviews
  reviewTrap,   \* a force cast failed, or Firebase raised an exception
  filedUnder    \* history: the names reviews were submitted under

reviewVars == <<database, form, submitted, reviewPage, observers, events, reviews, reviewTrap, filedUnder>>

Texts == 1..MaxReviews
Elsewhere == {-n : n \in Texts}

(* A child is a review, whose fields are all strings, or, when a name had  *)
(* a slash, a node with reviews below it.                                  *)
Children == [text : Texts \cup Elsewhere, times : Texts, fields : {"strings", "other"}]

Written == UNION {database[c] : c \in DOMAIN database}

Copies(text) == Cardinality({r \in Written : r.text = text})

NoReviews == [r \in Children |-> 0]

-----------------------------------------------------------------------------
ReviewsInit ==
  /\ database = [c \in ReviewCourses |-> {}]
  /\ form = [course |-> "", reviewText |-> 0]
  /\ submitted = FALSE /\ reviewTrap = FALSE
  /\ reviewPage = NoPage /\ observers = 0
  /\ events = <<>> /\ reviews = NoReviews
  /\ filedUnder = {}

(* The snapshots a change of a course's children causes.                   *)
Notified(course) ==
  IF course # reviewPage THEN events
  ELSE events \o [o \in 1..observers |-> database'[course]]

(* setValue under a new key: seen by the observers at once, on a page      *)
(* whose course is the first component of the path.                        *)
SetValue(path, review) ==
  IF path[1] \notin ReviewCourses
  THEN UNCHANGED <<database, events>>
  ELSE /\ database' = [database EXCEPT ![path[1]] = @ \cup
            {IF Len(path) = 1 THEN review ELSE [review EXCEPT !.fields = "other"]}]
       /\ events' = Notified(path[1])

(* Another review is written, or the fields are filled in.                 *)
typeReview ==
  /\ ~ submitted /\ ~ reviewTrap
  /\ \/ \E n \in TypedNames \cup {""} : form' = [form EXCEPT !.course = n]
     \/ \E t \in Texts : /\ \A u \in 1..(t - 1) : Copies(u) > 0
                         /\ Copies(t) = 0
                         /\ form' = [form EXCEPT !.reviewText = t]
  /\ UNCHANGED <<database, submitted, reviewPage, observers, events, reviews, reviewTrap, filedUnder>>

(* Mutant of NewReview: the rating is stored as a number.                  *)
NewReviewNumber ==
  [text |-> form.reviewText, times |-> Copies(form.reviewText) + 1, fields |-> "other"]

(* What upload writes: professor, review and rating, as strings.           *)
NewReview ==
  [text |-> form.reviewText, times |-> Copies(form.reviewText) + 1, fields |-> "strings"]

(* Mutant of ClearedForm: only the course is cleared.                      *)
ClearedFormKeepsText == [form EXCEPT !.course = ""]

ClearedForm == [course |-> "", reviewText |-> 0]

FormFilled == form.reviewText # 0 /\ form.course # ""

upload ==
  /\ ~ submitted /\ ~ reviewTrap
  /\ FormFilled /\ NewReview.times \in Texts
  /\ filedUnder' = filedUnder \cup {form.course}
  /\ IF UppercasedPath[form.course] = <<>>
     THEN reviewTrap' = TRUE /\ UNCHANGED <<database, events, form, submitted>>
     ELSE /\ SetValue(UppercasedPath[form.course], NewReview)
          /\ submitted' = TRUE
          /\ form' = ClearedForm
          /\ UNCHANGED reviewTrap
  /\ UNCHANGED <<reviewPage, observers, reviews>>

dismissSubmitted ==
  /\ submitted /\ ~ reviewTrap
  /\ submitted' = FALSE
  /\ UNCHANGED <<database, form, reviewPage, observers, events, reviews, reviewTrap, filedUnder>>

(* A review of the same course comes from another device.                  *)
reviewElsewhere(course) ==
  /\ \E t \in Elsewhere :
       /\ Copies(t) = 0
       /\ \A u \in Elsewhere : u > t => Copies(u) > 0
       /\ SetValue(<<course>>, [text |-> t, times |-> 1, fields |-> "strings"])
  /\ UNCHANGED <<form, submitted, reviewPage, observers, reviews, reviewTrap, filedUnder>>

(* The page of a course is opened: a new reviewView.                       *)
openReviews(course) ==
  /\ ~ reviewTrap
  /\ reviewPage' = course
  /\ observers' = 0 /\ events' = <<>>
  /\ reviews' = NoReviews
  /\ UNCHANGED <<database, form, submitted, reviewTrap, filedUnder>>

(* onAppear: another observer, which is sent what is there.                *)
loadReviews ==
  /\ ~ reviewTrap
  /\ reviewPage # NoPage /\ observers < MaxObservers
  /\ observers' = observers + 1
  /\ events' = Append(events, database[reviewPage])
  /\ UNCHANGED <<database, form, submitted, reviewPage, reviews, reviewTrap, filedUnder>>

(* Mutant of observed: observeSingleEvent, the first snapshot only.        *)
observedOnce ==
  /\ ~ reviewTrap
  /\ events # <<>>
  /\ reviewTrap' = (\E r \in Head(events) : r.fields = "other")
  /\ reviews' = IF reviews # NoReviews THEN reviews
                ELSE [r \in Children |-> IF r \in Head(events) THEN 1 ELSE 0]
  /\ events' = Tail(events)
  /\ UNCHANGED <<database, form, submitted, reviewPage, observers, filedUnder>>

(* The closure of observe: every child of the snapshot is appended, if it  *)
(* is a dictionary of strings.                                             *)
observed ==
  /\ ~ reviewTrap
  /\ events # <<>>
  /\ reviewTrap' = (\E r \in Head(events) : r.fields = "other")
  /\ reviews' = [r \in Children |-> reviews[r] + (IF r \in Head(events) THEN 1 ELSE 0)]
  /\ events' = Tail(events)
  /\ UNCHANGED <<database, form, submitted, reviewPage, observers, filedUnder>>

(* The process is started again; Firebase keeps what was written.          *)
relaunchReviews ==
  /\ reviewTrap' = FALSE /\ submitted' = FALSE
  /\ form' = [course |-> "", reviewText |-> 0]
  /\ reviewPage' = NoPage /\ observers' = 0 /\ events' = <<>> /\ reviews' = NoReviews
  /\ UNCHANGED <<database, filedUnder>>

ReviewsNext ==
  \/ typeReview
  \/ upload
  \/ dismissSubmitted
  \/ \E c \in ReviewCourses : reviewElsewhere(c) \/ openReviews(c)
  \/ loadReviews
  \/ observed
  \/ relaunchReviews

ReviewsSpec == ReviewsInit /\ [][ReviewsNext]_reviewVars

-----------------------------------------------------------------------------
(* No review is missed: once every snapshot has been delivered, a page     *)
(* that has appeared shows every review of its course, those written since *)
(* it was opened included, and none of another course.                     *)
EveryReviewShown ==
  ~ reviewTrap /\ observers > 0 /\ events = <<>> =>
    {r \in Children : reviews[r] > 0} = database[reviewPage]

(* A review is submitted once: the alert closes over an empty form, so the *)
(* next tap on "Submit Review" cannot file the same text again.            *)
FiledOnce == \A t \in Texts : Copies(t) <= 1

(* The force casts of loadReviews hold for what upload writes: the process *)
(* ends only after a name with a slash, whose reviews become a child that  *)
(* is no review, or with a character Firebase refuses.                     *)
OnlyNamesTrap == reviewTrap => \E n \in filedUnder : Len(UppercasedPath[n]) # 1

(* A review that was submitted is shown to whoever looks at its course,    *)
(* once submitted it is not submitted again, and reviews of real courses   *)
(* end no process.                                                         *)
ReviewsRight ==
  /\ EveryReviewShown
  /\ FiledOnce
  /\ OnlyNamesTrap

=============================================================================
