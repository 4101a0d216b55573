CONSTANTS
  s1 = s1  s2 = s2  s3 = s3
  Server <- MCServer
  F = 1
  Reqs <- MCReqs
  Coin <- MCCoin1
  MaxPhase = 1
  MaxCrashes = 1
SPECIFICATION Spec
SYMMETRY MCSymmetry
INVARIANT
  NoStrandedRequest
CHECK_DEADLOCK FALSE
