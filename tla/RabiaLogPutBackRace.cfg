\* Ring reuse (L = 2, three slots): the MsgHandler resets a slot between putBackMyProposal's term check and its read of MyProposal.
CONSTANTS
  N = 3
  F = 1
  L = 2
  Proxy = {0, 1}
  Kvs = {}
  MaxBatch = 1
  MaxSeq = 2
  PropReqs = FALSE
SPECIFICATION Spec
INVARIANT NoLostBatch
CHECK_DEADLOCK FALSE
