SPECIFICATION Spec
CONSTANTS
  Bits = 10
  Word = 1024
  LN_2 = 709
  MAX_EXP_INPUT = 6375
  MIN_LN_INPUT = 1
  TinyTerm = 1
  FarApart = 6
  MAX_B_PARAM = 200
  MAX_POSITION = 500
  MIN_COST_DIVISOR = 100
  MAX_ITERATIONS = 50
  CONVERGENCE_THRESHOLD = 1
  LmsrB = 8
  Seed = 600
  Sets = 100
  Amounts = {3, 24, 48}
  Share = 10
  BPS = 10
  MaxTradeBps = 1
  StageBps <- Multipliers
  MaxImbalance = 2
  MinTradingLiquidity = 10
  CircuitRatio = 4
  Reach = 3
  MaxTrades = 4
INVARIANTS PositionExplained PricesAreOdds
PROPERTIES PreviewKept
CHECK_DEADLOCK FALSE
