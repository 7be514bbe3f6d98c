SPECIFICATION Spec
CONSTANTS
  Clones = {c1, c2}
  Keys = {"ids", "m"}
  StoreMap <- MCStoreMap
  Reads <- MCReads
  Gjson <- MCGjson
  MaxAttempts = 2
CHECK_DEADLOCK FALSE
INVARIANT NeverFatal
