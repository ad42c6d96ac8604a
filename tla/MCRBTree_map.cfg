SPECIFICATION FairSpec
CONSTANTS
  Keys <- SevenKeys
  nil = nil
CHECK_DEADLOCK FALSE
INVARIANTS
  Linked
  RedBlack
  IterationInOrder
  LookupsFind
PROPERTIES
  OperationsEnd
