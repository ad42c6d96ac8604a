SPECIFICATION Spec
CONSTANTS
  Keys <- KeySet
  NoKey = "none"
  Data <- DataSet
  NoData <- Null
  Hf <- Highest
  HASH_WRAP = 64
  Sizes <- ThreeSizes
INVARIANTS
  AllRight
