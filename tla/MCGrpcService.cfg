\* server start and shutdown, indexing and searching interleaved
SPECIFICATION FairSpec
CONSTANTS
  c1 = c1
  c2 = c2
  x = x
  y = y
  Client <- MCClient
  Word <- MCWord
  Folders <- MCFolders
  Query <- MCQuery
  shownLimit = 2
  MaxCommands = 4
INVARIANT OwnersDistinct
PROPERTIES ListedNewestMatch QuitEnds CallsReturn
CHECK_DEADLOCK FALSE
