\* Three client descriptors, any number of connections, commands and datagrams.
CONSTANTS
  udp_socket = 3
  tcp_socket = 4
  MaxFd = 7
  MaxLines = 1
SPECIFICATION Spec
INVARIANTS
  TypeOK
  RecvNeverBlocks
PROPERTIES
  EverybodyServed
  ExitIsObeyed
\* The server may exit.
CHECK_DEADLOCK FALSE
