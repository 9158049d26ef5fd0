SPECIFICATION Spec
CONSTANTS
  Servers = {s1, s2}
  Clients = {c1, c2, c3}
  None = None
  Fds = {3}
  ReadBufSize = 2
  MaxSent = 3
  Requests <- KeepAlive
SYMMETRY Symmetry
INVARIANTS TypeOK NoLostEdge AcceptPending
CHECK_DEADLOCK FALSE
