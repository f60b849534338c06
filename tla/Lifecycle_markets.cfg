SPECIFICATION Spec
CONSTANTS
  m1 = m1
  m2 = m2
  q1 = q1
  q2 = q2
  Markets = {m1, m2}
  Requests = {q1}
  MaxTries = 1
  MaxRulings = 1
  MaxDisputes = 2
  MaxFailures = 1
INVARIANTS ResolvingIsQueued
PROPERTY ResolvedEnds
CHECK_DEADLOCK FALSE
