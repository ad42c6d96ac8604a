SPECIFICATION Spec
CONSTANTS
  Keys <- ThreeKeys
  nil = nil
CHECK_DEADLOCK FALSE
INVARIANTS
  RemoveReturns
