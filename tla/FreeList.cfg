SPECIFICATION Spec
CONSTANTS
  Threads = {t1, t2, t3}
  Blocks = {b1, b2}
  Null = Null
SYMMETRY Symmetry
INVARIANTS NoneLost
PROPERTIES ImplementsBlockPool
