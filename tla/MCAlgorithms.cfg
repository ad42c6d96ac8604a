\* One line or one table of counts
CONSTANTS
  BRESEN_W = 5
  BRESEN_H = 4
  Lines <- SmallLines
  WIDTH = 4
  Counts <- SmallCounts
  MAX_DATA = 1
SPECIFICATION Spec
INVARIANTS LineDrawn CodeOptimal
\* Each run of the program ends.
CHECK_DEADLOCK FALSE
