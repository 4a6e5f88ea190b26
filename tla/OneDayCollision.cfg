CONSTANTS
  Courses <- OneDayCollision
  DateOf <- Clock
SPECIFICATION ScheduleSpec
INVARIANT NoConflictOnAnyDay
