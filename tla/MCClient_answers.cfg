\* Every request, answer, split of the answer and way the connection ends
CONSTANTS
  None = None
  Requests <- ClientRequests
  Messages <- ClientMessages
  BLOCK = 5
  MAX_RESPONSE_LENGTH = 35
  FRAME_MIN = 3
  RECV_LENGTH = 5
  MAX_RECV = 2
  Frames <- ClientFrames
  SEND_LENGTHS = {0, 1, 125, 126, 140, 8184, 8185, 65535, 65536}
  SERVER_CHUNK = 8192
  PIECES = {1, 5, 6, 7, 8, 131, 134, 148, 8191, 8192}
SPECIFICATION Spec
INVARIANTS ConnectionHeld RequestRight ResponseFaithful FrameUnderstood
PROPERTY TransactEnds
\* The program ends, and a server that falls silent keeps it waiting
CHECK_DEADLOCK FALSE
