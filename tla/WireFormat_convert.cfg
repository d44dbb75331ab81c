\* Numbers of two bytes, names of one or two characters.
CONSTANTS
  Base = 256
  CharMax = 127
  NumLen = 2
  TOPIC_SIZE = 2
  NameBytes = {65, 66}
  SignBytes = {0, 1, 2, 128, 255}
  NumBytes = {0, 1, 255}
  Exponents = {0, 6, 7, 9}
  SfNumbers = {0, 1, 2, 256}
SPECIFICATION Spec
INVARIANTS
  TypeOK
  ShownIsMeant
  MalformedIsRefused
  MatchIsMeant
\* One subscription and one datagram are all there is.
CHECK_DEADLOCK FALSE
