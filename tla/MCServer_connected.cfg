\* Two identifiers: one takes the descriptor the other has left, and leaves.
CONSTANTS
  Ids = {a, b}
  NoId = NoId
  Topics = {t1}
  FullNames = {}
  verbose = TRUE
  INITIAL_MAX_TCPS = 1
  INITIAL_MAX_TOPICS = 2
  MaxMsgs = 1
  MaxTopics = 1
  tcp_socket = 4
  MaxFd = 7
SPECIFICATION Spec
SYMMETRY IdSymmetry
INVARIANTS
  ConnectedIsTrue
\* The server may exit, die or be killed.
CHECK_DEADLOCK FALSE
