\* One identifier that unsubscribes.
CONSTANTS
  Ids = {a}
  NoId = NoId
  Topics = {t1}
  FullNames = {}
  verbose = TRUE
  INITIAL_MAX_TCPS = 1
  INITIAL_MAX_TOPICS = 2
  MaxMsgs = 1
  MaxTopics = 1
  tcp_socket = 4
  MaxFd = 6
SPECIFICATION Spec
PROPERTIES
  OnlySubscribersReceive
\* The server may exit, die or be killed.
CHECK_DEADLOCK FALSE
