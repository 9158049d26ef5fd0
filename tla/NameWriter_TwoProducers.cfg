SPECIFICATION FairSpec
CONSTANTS
  Threads = {t1, t2}
  Ids = {1, 2}
  NoId = NoId
  Names = {"a", "b"}
  NoName = NoName
  Contents = {"old", "new"}
  NoContent = NoContent
  Loaded <- MCLoaded
  LoadedOthers <- MCLoadedOthers
  Posts <- TwoProducers
  RingSize = 5
INVARIANTS TypeOK NameIdsValid CityStored DictsAgree
PROPERTIES PostsReturn StringsRests NamesTaken
