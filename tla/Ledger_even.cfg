SPECIFICATION Spec
CONSTANTS
  BPS = 4
  InitialYesProb = 2
  MinLiquidity = 0
  RatioTolerance = 0
  MinUsdcLiquidity = 2
  MinTradingLiquidity = 1
  VaultMin = 0
  MaxTradeBps = 4
  InsuranceBps = 4
  FeeSchedules <- Halves
  Quotes <- AnyOdds
  Prices = {2}
  ExitCaps <- HalfExits
  Penalties = {0, 2}
  MinReserveBps = 1
  MaxOut24Bps = 2
  HasEnd = TRUE
  Pauses = {"contract", "market"}
  Draws = {2}
  Amounts = {2}
  Stakes = {2}
  MaxVault = 4
INVARIANTS TypeOK LedgerCovered SupplyAgrees WinnersBacked PairsBacked
PROPERTIES LpSharesPersist PauseHoldsMoney KeepsPromise
CHECK_DEADLOCK FALSE
