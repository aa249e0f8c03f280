SPECIFICATION LiveSpec
CONSTANTS
  Total = 3
  MaxSends = 5
INVARIANTS TypeOK NeverOversubscribed KeepsOneBuffer
PROPERTIES ShutDownSafe SendProceeds ImplementsPool
