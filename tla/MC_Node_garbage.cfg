SPECIFICATION Spec
CONSTANTS
  Week = 4
  Replies <- MCReplies
  Garbage <- MCGarbage
  MaxBeacons = 2
INVARIANT CurrentFromServer
