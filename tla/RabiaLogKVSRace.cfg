\* Ring reuse (L = 2, three slots), KVSExecutor of server 2: the slot is reset and decided again between KVSExecutor's check and its read of Decision.
CONSTANTS
  N = 3
  F = 1
  L = 2
  Proxy = {0, 1}
  Kvs = {2}
  MaxBatch = 1
  MaxSeq = 2
  PropReqs = FALSE
SPECIFICATION Spec
PROPERTY LogRefinement
CHECK_DEADLOCK FALSE
