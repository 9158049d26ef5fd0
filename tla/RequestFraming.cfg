SPECIFICATION FairSpec
CONSTANTS
  NoId = NoId
  Ids = {"v1", "v2"}
  Contents = {"a", "b", "c", "d"}
  Requests <- MCRequests
  MaxRequests = 3
  ReadBufSize = 5
INVARIANTS TypeOK HandledInOrder ActionKept FieldsAreOwn
PROPERTIES EveryRequestHandled
CHECK_DEADLOCK FALSE
