\* Two messages, whose sizes the network does not cut.
CONSTANTS
  HeaderLen = 3
  DigitCells = 2
  BodyLen = 4
  TruncatedSize = 1
  MaxFrames = 2
SPECIFICATION Spec
INVARIANTS
  PiecesAreJoined
\* The subscriber ends when the connection does.
CHECK_DEADLOCK FALSE
