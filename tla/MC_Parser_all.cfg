SPECIFICATION Spec
CONSTANTS
  Text <- MCText
  atoi <- MCatoi
  Inputs <- RawInputs
  Docs <- MCDocs
  MaxTokens = 31
  Capacity = 9
\* the parser stops at the end of its tokens
CHECK_DEADLOCK FALSE
INVARIANTS TypeOK ScheduleFits ParsedAsSent
