SPECIFICATION AddClassSpec
CONSTANTS
  Answers <- SectionAnswers
  Courses <- CoursesAnswered
  DateOf <- Clock
  Asked = Asked
  Entries = {"CMSC131", "CMSC132"}
  Keywords = {"", "cmsc", "oop"}
  Matches <- MCMatches
  Requested = Requested
  ReviewCourses = {"CMSC131", "CMSC132"}
  TypedNames = {"cmsc131", "slash", "unknown", "dot"}
  UppercasedPath <- MCPaths
  NoPage = NoPage
  MaxReviews = 2
  MaxObservers = 2
  Ticks = 2
  MaxNow = 6
  MaxRequests = 2
INVARIANT OnlyListedFiled
CHECK_DEADLOCK FALSE
