SPECIFICATION Spec
CONSTANTS
  Stories = {"vague"}
  Forbidden = {}
  Plain = {}
  Crawlers = {"c1", "c2"}
  Extractors = {"x1","x2"}
  Api = "api"
  MaxItems = 1
  Retries = 1
  MaxFaults = 2
  MaxSwitches = 1
INVARIANTS StoriesAccounted CandidatesExplained
PROPERTIES StoriesSettle
CHECK_DEADLOCK FALSE
