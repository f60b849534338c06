SPECIFICATION Spec
CONSTANTS
  m1 = m1
  m2 = m2
  q1 = q1
  q2 = q2
  Markets = {m1}
  Requests = {q1}
  MaxTries = 1
  MaxRulings = 1
  MaxDisputes = 1
  MaxFailures = 0
PROPERTY ResolverResolves
CHECK_DEADLOCK FALSE
