SPECIFICATION DatastoreSpec
CONSTANTS
  Clones = {c1, c2}
  Keys = {"ids", "m"}
  StoreMap <- MCStoreMap
  Reads <- MCSomeReads
  Gjson <- MCGjson
  Indexes <- MCIndexes
  Earlier = 3
  MaxAttempts = 2
CHECK_DEADLOCK FALSE
INVARIANT ReadsAreRecent
INVARIANT NoPushLost
PROPERTY CasesEnd
