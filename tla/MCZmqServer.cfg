\* the ZeroMQ server's life, its workers and two clients
SPECIFICATION FairSpec
CONSTANTS
  c1 = c1
  c2 = c2
  w1 = w1
  w2 = w2
  Client <- MCClient
  Worker <- MCWorker
  Asked = {"other", "unreadable"}
  IdRange = 3
  MaxSends = 3
  MaxFiles = 2
INVARIANTS IdsUnique RequestKept CleanExit
PROPERTIES ShutdownCompletes RequestsAnswered
CHECK_DEADLOCK FALSE
