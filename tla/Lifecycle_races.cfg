SPECIFICATION Spec
CONSTANTS
  m1 = m1
  m2 = m2
  q1 = q1
  q2 = q2
  Markets = {m1}
  Requests = {q1, q2}
  MaxTries = 0
  MaxRulings = 2
  MaxDisputes = 1
  MaxFailures = 1
SYMMETRY EitherRequest
INVARIANTS OneResolution FinalAfterWindow FinalResolutions OverturnsExplained DisputedIsHeard
PROPERTY StatusKept
CHECK_DEADLOCK FALSE
