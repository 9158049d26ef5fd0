SPECIFICATION Spec
CONSTANTS
  Servers = {s1, s2}
  Clients = {c1, c2}
  None = None
  Fds = {3, 4}
  ReadBufSize = 3
  MaxSent = 2
  Requests <- Anything
SYMMETRY Symmetry
INVARIANTS Isolation DescriptorsOwned
CHECK_DEADLOCK FALSE
