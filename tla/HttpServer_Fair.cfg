SPECIFICATION FairSpec
CONSTANTS
  Servers = {s1}
  Clients = {c1, c2}
  None = None
  Fds = {3, 4}
  ReadBufSize = 2
  MaxSent = 2
  Requests <- Doubly
PROPERTIES RequestAnswered ShutClosed
CHECK_DEADLOCK FALSE
