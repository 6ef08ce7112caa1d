\* two sessions, broken off anywhere
SPECIFICATION FairSpec
CONSTANTS
  WordChar <- MCWordChar
  minLength = 1
  Folders <- MCFolders
  Query <- MCQuery
  Garbage = {0, 1}
  resultLimit = 1
  MaxSessions = 2
  MaxCommands = 4
INVARIANTS TypeOK StoredFaithfully InStep
PROPERTIES SearchExact CommandsReturn
CHECK_DEADLOCK FALSE
