\* Two identifiers, one topic, two datagrams, two client descriptors.
CONSTANTS
  Ids = {a, b}
  NoId = NoId
  Topics = {t1}
  FullNames = {}
  verbose = TRUE
  INITIAL_MAX_TCPS = 1
  INITIAL_MAX_TOPICS = 2
  MaxMsgs = 2
  MaxTopics = 1
  tcp_socket = 4
  MaxFd = 6
SPECIFICATION Spec
SYMMETRY IdSymmetry
INVARIANTS
  TypeOK
  UniqueIds
  OwnerConnected
  ReadSetMatchesOpen
  ListenerWatched
  StoreBounds
  StoredAreNewer
  PerTopicOrder
\* The server may exit, die or be killed.
CHECK_DEADLOCK FALSE
