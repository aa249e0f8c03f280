SPECIFICATION LiveSpec
CONSTANTS
  Week = 4
  Replies <- MCReplies
  Garbage <- MCGarbage
  MaxBeacons = 2
INVARIANTS NoLostRequest NoDoubleCount
PROPERTIES ScheduleFollowed ReportServed
