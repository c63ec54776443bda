CONSTANTS
  Streams <- MCStreams
  MAXLINE = 5
  RIO_BUFSIZE = 3
  MaxConnections = 2
SPECIFICATION Spec
CHECK_DEADLOCK FALSE
INVARIANTS ReadsSafely HeadersEnd ReturnsClean
PROPERTY RequestAnswered
