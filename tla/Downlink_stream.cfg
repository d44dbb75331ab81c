\* Three messages, over a network that cuts nothing, messages, or anything.
CONSTANTS
  HeaderLen = 3
  DigitCells = 2
  BodyLen = 4
  TruncatedSize = 1
  MaxFrames = 3
SPECIFICATION Spec
INVARIANTS
  TypeOK
  ShownIsSent
  NothingLostAtEnd
  IntactOnce
PROPERTIES
  EverythingShown
\* The subscriber ends when the connection does.
CHECK_DEADLOCK FALSE
