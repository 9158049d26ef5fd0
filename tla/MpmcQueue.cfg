SPECIFICATION Spec
CONSTANTS
  Threads = {t1, t2, t3}
  Values = {a, b}
  None = None
  Size = 2
  MaxTickets = 4
SYMMETRY Symmetry
INVARIANTS TypeOK CellExclusive PopsWhatWasPushed
PROPERTIES FailsWithReason
