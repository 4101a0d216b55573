\* The log without ring reuse (L > MaxSeq): three servers, two of them
\* with clients, one batch per proxy, two slots; KVSExecutor on server 0
\* under weak fairness of its two steps.
CONSTANTS
  N = 3
  F = 1
  L = 2
  Proxy = {0, 1}
  Kvs = {0}
  MaxBatch = 1
  MaxSeq = 1
  PropReqs = FALSE
SPECIFICATION LiveSpec
INVARIANTS TypeOK NoLostBatch
PROPERTIES LogRefinement KVSProgress
CHECK_DEADLOCK FALSE
