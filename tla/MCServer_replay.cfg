\* Two identifiers with the same SF topic.
CONSTANTS
  Ids = {a, b}
  NoId = NoId
  Topics = {t1}
  FullNames = {}
  verbose = FALSE
  INITIAL_MAX_TCPS = 1
  INITIAL_MAX_TOPICS = 2
  MaxMsgs = 1
  MaxTopics = 1
  tcp_socket = 4
  MaxFd = 7
SPECIFICATION Spec
PROPERTIES
  ReplaySendsStored
\* The server may exit, die or be killed.
CHECK_DEADLOCK FALSE
