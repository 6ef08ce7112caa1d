\* two workers, four requests, whole or cut short
SPECIFICATION Spec
CONSTANTS
  w1 = w1
  w2 = w2
  Base = 10
  Worker <- MCWorker
  Word <- MCWord
  Requests <- MCRequests
  Query <- MCQuery
  Dropped = {0, 1, 9, 11}
  resultLimit = 2
  MaxRequests = 4
INVARIANTS TypeOK PathsDistinct RequestsUnderstood CountsKept SearchSound
PROPERTY RepliesRanked
CHECK_DEADLOCK FALSE
