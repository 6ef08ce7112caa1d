\* three clients on two descriptors
SPECIFICATION Spec
CONSTANTS
  c1 = c1
  c2 = c2
  c3 = c3
  f1 = f1
  f2 = f2
  Client <- ThreeClients
  FD <- MCFD
  Nobody = Nobody
SYMMETRY Symm3
INVARIANTS TypeOK DescriptorsOwned RegistryExact EveryoneWoken CleanExit
CHECK_DEADLOCK FALSE
