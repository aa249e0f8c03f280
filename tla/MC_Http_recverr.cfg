SPECIFICATION Spec
CONSTANTS
  Lengths <- MCLengths
  Answers <- MCAnswers
  Chunk = 131
  TxBuffer = 131
  Overhead = 26
  HeaderMax = 5
  BodyChunk = 80
INVARIANT HeaderReceived
