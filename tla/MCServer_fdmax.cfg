\* Two identifiers: the bound of select() against the open descriptors.
CONSTANTS
  Ids = {a, b}
  NoId = NoId
  Topics = {t1}
  FullNames = {}
  verbose = TRUE
  INITIAL_MAX_TCPS = 1
  INITIAL_MAX_TOPICS = 2
  MaxMsgs = 1
  MaxTopics = 1
  tcp_socket = 4
  MaxFd = 7
SPECIFICATION Spec
SYMMETRY IdSymmetry
INVARIANTS
  FdmaxCovers
\* The server may exit, die or be killed.
CHECK_DEADLOCK FALSE
