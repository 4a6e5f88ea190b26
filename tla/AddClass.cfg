\* Two sections; 2 courses and 3 texts; 2 reviews here and 2 elsewhere of 2 courses, a page that
\* appears twice; 3 minutes of 2 ticks and 2 requests.
SPECIFICATION AddClassSpec
CONSTANTS
  Answers <- SectionAnswers
  Courses <- CoursesAnswered
  DateOf <- Clock
  Asked = Asked
  Entries = {"CMSC131", "CMSC132"}
  Keywords = {"", "cmsc", "oop"}
  Matches <- MCMatches
  Requested = Requested
  ReviewCourses = {"CMSC131", "CMSC132"}
  TypedNames = {"cmsc131", "slash", "unknown", "dot"}
  UppercasedPath <- MCPaths
  NoPage = NoPage
  MaxReviews = 2
  MaxObservers = 2
  Ticks = 2
  MaxNow = 6
  MaxRequests = 2
INVARIANTS ListedIsFiled StableFiledIsListed RowsMatchSearch ReviewsRight RemindersRight
PROPERTIES DeletesOnlyItsSection
CHECK_DEADLOCK FALSE
