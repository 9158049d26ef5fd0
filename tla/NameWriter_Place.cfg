SPECIFICATION Spec
CONSTANTS
  Threads = {t1, t2}
  Ids = {1, 2}
  NoId = NoId
  Names = {"a", "b"}
  NoName = NoName
  Contents = {"old", "new"}
  NoContent = NoContent
  Loaded <- MCLoaded
  LoadedOthers <- MCLoadedOthers
  Posts <- NewPlace
  RingSize = 4
SYMMETRY Symmetry
INVARIANTS PlaceStored
