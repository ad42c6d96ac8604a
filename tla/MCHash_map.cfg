SPECIFICATION Spec
CONSTANTS
  Keys <- KeySet
  NoKey = "none"
  Data <- DataSet
  NoData <- Null
  Hf <- Colliding
  HASH_WRAP = 64
  Sizes <- ThreeSizes
INVARIANTS
  NothingHidden
  RoomLeft
PROPERTIES
  ImplementsMultimap
