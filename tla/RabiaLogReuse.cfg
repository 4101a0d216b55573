\* Ring reuse on a one-slot ring (L = 1), ProposalRequests delivered: one
\* batch, two slots; the MsgHandler and getRequest reset the slot under
\* each other.
CONSTANTS
  N = 3
  F = 1
  L = 1
  Proxy = {0}
  Kvs = {}
  MaxBatch = 1
  MaxSeq = 1
  PropReqs = TRUE
SPECIFICATION Spec
PROPERTY RaceNeedsLap
CHECK_DEADLOCK FALSE
