SPECIFICATION Spec
CONSTANTS
  HTTP_CONNECTIONS = 1
  HTTP_SERVER_TIMEOUT = 0
  TIMEOUT_WRAP = 2
  MAX_HTTP_PATHLEN = 2
  DESTROY_SOCKETS_LIST = 1
  Sockets = {s1}
  NoSock = NoSock
  BadSock = BadSock
  Streams = {f1}
  NoStream = NoStream
  PathKinds <- AllPaths
  MaxFile = 3
  FileLengths = {0, 3, 4}
  CURLEN_WRAP = 8
  CNHTTP_MTU = 0
  RECV_SIZE = 7
  RecvLengths = {1, 6, 7}
  CORK_SIZE = 6
INVARIANTS
  StateDeetsFits
PROPERTIES
  ImplementsWire
