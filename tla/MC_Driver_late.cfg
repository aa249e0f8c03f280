\* A controller that releases IRQ late, sends events before START is answered
\* and events the host does not support, which leave edges and packets behind.
SPECIFICATION Spec
CONSTANTS
  MaxCmds = 1
  MaxUnsol = 2
  MaxPatch = 1
  PromptRelease = FALSE
  SendErrors = FALSE
  UnknownEvents = TRUE
  EarlyEvents = TRUE
INVARIANTS
  NoSpinWithIrqOff
  LineHighAtPowerUp
  FirstWriteAfterBoot
\* the host really stops in this environment: see the README
CHECK_DEADLOCK FALSE
