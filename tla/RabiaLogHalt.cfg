\* Ring reuse (L = 2, three slots), no ProposalRequests: a lagging server's ring slot is reset under its executor.
CONSTANTS
  N = 3
  F = 1
  L = 2
  Proxy = {0, 1}
  Kvs = {}
  MaxBatch = 1
  MaxSeq = 2
  PropReqs = FALSE
SPECIFICATION Spec
INVARIANT NoHalt
CHECK_DEADLOCK FALSE
