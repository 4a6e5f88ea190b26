CONSTANTS
  Courses <- AllSections
  DateOf <- Clock
SPECIFICATION ScheduleSpec
INVARIANTS
  TypeOK
  ConsistentSchedule
  CoveredDaysInOrder
  DrawnIsRight
  LecturesDrawn
PROPERTIES
  RefusalJustified
  ImplementsTimetable
