\* One identifier, three topics of which one is a full name, three datagrams.
CONSTANTS
  Ids = {a}
  NoId = NoId
  Topics = {t1, t2, f}
  FullNames = {f}
  verbose = FALSE
  INITIAL_MAX_TCPS = 1
  INITIAL_MAX_TOPICS = 2
  MaxMsgs = 3
  MaxTopics = 2
  tcp_socket = 4
  MaxFd = 6
SPECIFICATION Spec
SYMMETRY NameSymmetry
INVARIANTS
  FdmaxCovers
  ConnectedIsTrue
  StoreReady
  NoDuplicateTopic
PROPERTIES
  KeptUntilSent
  ImplementsMailbox
\* The server may exit, die or be killed.
CHECK_DEADLOCK FALSE
