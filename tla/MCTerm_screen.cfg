SPECIFICATION Spec
CONSTANTS
  historyy = 5
  MAX_CSI_PARAMS = 8
  OSC_SIZE = 2
  INIT_CHARX = 3
  INIT_CHARY = 2
  CRX_CSI = "-101"
  Scripts <- TermScripts
INVARIANTS  TextKept NothingForgotten OneCursor
PROPERTIES PictureCatchesUp
CHECK_DEADLOCK FALSE
