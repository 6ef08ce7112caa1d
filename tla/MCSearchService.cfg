\* indexing and searching interleaved; no symmetry, for the liveness property
SPECIFICATION FairSpec
CONSTANTS
  w1 = w1
  w2 = w2
  x = x
  y = y
  Worker <- MCWorker
  Word <- MCWord
  WordCounts <- MCWordCounts
  Query <- MCQuery
  Path = {1}
  parallelFrom = 2
  numThreads = 3
  resultLimit = 2
  MaxRequests = 4
INVARIANTS TypeOK PostingsFaithful AckedIndexed SearchComplete ScoresExact
PROPERTIES ReplyRanked RequestsAnswered
CHECK_DEADLOCK FALSE
