SPECIFICATION Spec
CONSTANTS
  Sockets <- MCSockets
  SsidLengths <- MCSsidLengths
  KeyLengths <- MCKeyLengths
  NameLengths <- MCNameLengths
  DataLengths <- MCDataLengths
  PatchLengths <- MCPatchLengths
  Portion = 32
  Errors <- MCErrors
\* a send on a socket the controller dropped does not return
CHECK_DEADLOCK FALSE
INVARIANTS DataReached FreshBytes AnswerFits ActiveMeansOpen
PROPERTY PatchWhole
