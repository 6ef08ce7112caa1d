\* two files, one word each, indexed again and again by one worker at a time
SPECIFICATION Spec
CONSTANTS
  w1 = w1
  w2 = w2
  Base = 10
  Worker = {w1}
  Word <- OneWord
  Requests <- OneWordRequests
  Query <- NoQuery
  Dropped = {0}
  resultLimit = 10
  MaxRequests = 5
INVARIANT FrequencyMeaningful
CHECK_DEADLOCK FALSE
