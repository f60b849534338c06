SPECIFICATION Spec
CONSTANTS
  BPS = 4
  InitialYesProb = 2
  MinLiquidity = 0
  RatioTolerance = 0
  MinUsdcLiquidity = 2
  MinTradingLiquidity = 1
  VaultMin = 0
  MaxTradeBps = 4
  InsuranceBps = 4
  FeeSchedules <- Free
  Quotes <- AnyOdds
  Prices = {2}
  ExitCaps <- HalfExits
  Penalties = {0}
  MinReserveBps = 1
  MaxOut24Bps = 2
  HasEnd = TRUE
  Pauses = {}
  Draws = {}
  Amounts = {2}
  Stakes = {2}
  MaxVault = 4
INVARIANT BurnNeverUnderflows
CHECK_DEADLOCK FALSE
