CONSTANTS
  s1 = s1  s2 = s2  s3 = s3
  Server <- MCServer
  F = 1
  Reqs <- MCReqs
  Coin <- MCCoinNone
  MaxPhase = 0
  MaxCrashes = 1
SPECIFICATION Spec
SYMMETRY MCSymmetry
INVARIANTS
  MajorityBacked
  NoPanic
  StatsInRange
  ExitStatsCorrect
CHECK_DEADLOCK FALSE
PROPERTIES
  SlotRefinement
