SPECIFICATION Spec
CONSTANTS
  u1 = u1
  u2 = u2
  n1 = n1
  n2 = n2
  m1 = m1
  m2 = m2
  s1 = s1
  s2 = s2
  Nobody = Nobody
  None = None
  People = {u1, u2}
  NoTokens = {n1, n2}
  Markets = {m1, m2}
  Sessions = {s1, s2}
  BPS = 1
  Ops = {"createMarket", "fixMarketMintAuthority", "swap", "addLiquidity", "addToWhitelist", "removeFromWhitelist", "setMinUsdc"}
  MaxRetries = 1
  MaxActs = 2
SYMMETRY Alike
INVARIANTS TypeOK SoleNoToken SuccessIsReal AuthorityTraceable
CHECK_DEADLOCK FALSE
