\* two clients, without symmetry: sessions end and shutdown completes
SPECIFICATION FairSpec
CONSTANTS
  c1 = c1
  c2 = c2
  c3 = c3
  f1 = f1
  f2 = f2
  Client <- TwoClients
  FD <- MCFD
  Nobody = Nobody
PROPERTIES ShutdownCompletes SessionsEnd
CHECK_DEADLOCK FALSE
