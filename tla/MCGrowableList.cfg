\* two lists, every operation
SPECIFICATION Spec
CONSTANTS
  x = x
  y = y
  Name <- MCName
  DocId = {1, 2}
  Amount = {1}
  MaxCount = 2
  MaxFreq = 2
  b1 = b1
  b2 = b2
  b3 = b3
  Address <- MCAddress
  InitialCapacity = 1
  Uninit = Uninit
SYMMETRY Symm
INVARIANT BlocksOwned
PROPERTY ListsAreValues
CHECK_DEADLOCK FALSE
