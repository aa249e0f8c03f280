\* A SEND may complete with an error.
SPECIFICATION LiveSpec
CONSTANTS
  MaxCmds = 2
  MaxUnsol = 0
  MaxPatch = 0
  PromptRelease = TRUE
  SendErrors = TRUE
  UnknownEvents = FALSE
  EarlyEvents = FALSE
PROPERTY
  CallsReturn
\* the host really stops in this environment: see the README
CHECK_DEADLOCK FALSE
