SPECIFICATION FairSpec
CONSTANTS
  Threads = {t1, t2}
  VisitIds = {1, 2, 3}
  UserIds = {1, 2}
  LocationIds = {1, 2, 3}
  NoId = NoId
  Marks = {0, 1}
  Times = {0, 3, 5, 6, 7, 9}
  OutOfBoundsTime = 0
  Loaded <- MCLoaded
  Posts <- Rejected
INVARIANTS TypeOK SortedUnlessPending
PROPERTIES ImplementsVisitStore EventuallyDrained EventuallyQuiet
