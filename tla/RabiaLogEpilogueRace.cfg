\* Ring reuse (L = 2, three slots): the MsgHandler resets a slot between epilogue's term check and its write of Decision and IsDone.
CONSTANTS
  N = 3
  F = 1
  L = 2
  Proxy = {0, 1}
  Kvs = {}
  MaxBatch = 1
  MaxSeq = 2
  PropReqs = FALSE
SPECIFICATION Spec
INVARIANT RingHoldsOwnTerm
CHECK_DEADLOCK FALSE
