SPECIFICATION Spec
CONSTANTS
  None = None
  n1 = n1
  n2 = n2
  p1 = p1
  p2 = p2
  Candidates = {p1}
  FromNews = {}
  MaxTries = 1
  PublishLimit = 1
  Delay = TRUE
  Switchable = {"validator"}
  MaxDrafts = 3
  MaxStops = 1
INVARIANTS RecordsAgree
PROPERTY EveryCandidateEnds
CHECK_DEADLOCK FALSE
