\* Two lines, a terminal or a pipe, a network that cuts anywhere or not at all.
CONSTANTS
  IdLen = 1
  PrefixLen = 1
  WordLen = 2
  TypeLen = 4
  NameLen = 2
  TopicLen = 3
  BUFF_LEN = 12
  MaxLines = 2
SPECIFICATION Spec
INVARIANTS
  TypeOK
  HandledIsSent
  NeverMixed
PROPERTIES
  CommandsObeyed
\* The broker ends with the connection.
CHECK_DEADLOCK FALSE
