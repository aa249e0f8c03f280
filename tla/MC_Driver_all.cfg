\* A prompt controller: safety, refinement, and that calls and sessions end.
SPECIFICATION LiveSpec
CONSTANTS
  MaxCmds = 2
  MaxUnsol = 1
  MaxPatch = 1
  PromptRelease = TRUE
  SendErrors = FALSE
  UnknownEvents = FALSE
  EarlyEvents = FALSE
INVARIANTS
  TypeOK
  AcceptedOnce
  ExclusiveBus
  BufferHeld
  NoJunkRead
  CallsLeaveNothing
PROPERTIES
  ImplementsChannel
  CallsReturn
  PatchAnswered
  SessionEnds
