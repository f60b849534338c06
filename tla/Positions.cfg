SPECIFICATION Spec
CONSTANTS
  lp1 = lp1
  lp2 = lp2
  LPs = {lp1, lp2}
  Precision = 4
  BPS = 4
  MinLiquidity = 1
  ExitCap = 2
  LossThreshold = 1
  MaxCover = 2
  LpFees = {0, 1, 2}
  Allocations = {0, 1}
  Stakes = {2, 3}
  Issues = {1}
  Proceeds = {0, 2}
  MaxFees = 3
  MaxShares = 4
  MaxInvested = 4
  MaxInsured = 1
SYMMETRY EitherLp
INVARIANTS FeesCovered NeverOverpaid InsuranceAgrees
PROPERTIES OthersKeepDues
CHECK_DEADLOCK FALSE
