SPECIFICATION FairSpec
CONSTANTS
  HTTP_CONNECTIONS = 1
  HTTP_SERVER_TIMEOUT = 1
  TIMEOUT_WRAP = 3
  MAX_HTTP_PATHLEN = 2
  DESTROY_SOCKETS_LIST = 1
  Sockets = {s1}
  NoSock = NoSock
  BadSock = BadSock
  Streams = {f1}
  NoStream = NoStream
  PathKinds <- FilePaths
  MaxFile = 1
  FileLengths = {1}
  CURLEN_WRAP = 7
  CNHTTP_MTU = 0
  RECV_SIZE = 6
  RecvLengths = {1, 6}
  CORK_SIZE = 0
PROPERTIES
  SilentRequestsEnd
  FilesServed
  LoopTurns
