SPECIFICATION Spec
CONSTANTS
  None = None
  n1 = n1
  n2 = n2
  p1 = p1
  p2 = p2
  Candidates = {n1, n2}
  FromNews = {n1, n2}
  MaxTries = 1
  PublishLimit = 1
  Delay = FALSE
  Switchable = {}
  MaxDrafts = 2
  MaxStops = 1
SYMMETRY EitherNews
INVARIANTS TypeOK NothingLost OneMarket HourlyLimit
CHECK_DEADLOCK FALSE
