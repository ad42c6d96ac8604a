SPECIFICATION Spec
CONSTANTS
  HTTP_CONNECTIONS = 2
  HTTP_SERVER_TIMEOUT = 0
  TIMEOUT_WRAP = 2
  MAX_HTTP_PATHLEN = 2
  DESTROY_SOCKETS_LIST = 1
  Sockets = {s1, s2, s3}
  NoSock = NoSock
  BadSock = BadSock
  Streams = {f1, f2}
  NoStream = NoStream
  PathKinds = {"file"}
  MaxFile = 0
  FileLengths = {0}
  CURLEN_WRAP = 2
  CNHTTP_MTU = 1
  RECV_SIZE = 1
  RecvLengths = {1}
  CORK_SIZE = 1
SYMMETRY Handles
INVARIANTS
  TypeOK
  TablesAgree
  NoSharedDescriptor
  DescriptorsAccounted
  FilesHeld
PROPERTIES
  OnlyCurrentEnds
