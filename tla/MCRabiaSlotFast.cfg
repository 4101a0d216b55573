CONSTANTS
  s1 = s1  s2 = s2  s3 = s3
  Server <- MCServer
  F = 1
  Reqs <- MCReqs
  Coin <- MCCoin1
  MaxPhase = 1
  MaxCrashes = 0
SPECIFICATION Spec
SYMMETRY MCSymmetry
INVARIANT
  UnanimousFastDecision
CHECK_DEADLOCK FALSE
