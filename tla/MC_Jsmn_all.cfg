SPECIFICATION Spec
CONSTANTS
  Texts <- MCTexts
  Buffers <- MCBuffers
  MaxTokens = 8
\* a caller that has all of the text or no more tokens stops
CHECK_DEADLOCK FALSE
INVARIANTS TokensNest ResumedAsOnce CountSuffices
