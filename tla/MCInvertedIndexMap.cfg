\* every call in every interleaving; no symmetry, for the liveness property
SPECIFICATION FairSpec
CONSTANTS
  t1 = t1
  t2 = t2
  t3 = t3
  aa = aa
  ab = ab
  ba = ba
  ca = ca
  Thread <- MCThread
  Key <- MCKey
  hash <- MCHash
  DocId = {1, 2}
  Amount = {1}
  bucketCount = 3
  NUM_LOCKS = 2
  MaxCalls = 3
  NoThread = NoThread
INVARIANTS ChainExclusive OneNodePerKey
PROPERTIES Linearizable EveryCallReturns
CHECK_DEADLOCK FALSE
