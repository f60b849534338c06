SPECIFICATION Spec
SYMMETRY Alike
CONSTANTS
  Pages = {p1, p2}
  Calls = {c1, c2}
  Markets = {1, 2}
  Limits <- MCLimits
  Lengths <- MCLengths
  Budgets <- MCBudgets
  QueueConfigured = TRUE
INVARIANTS RateHeld RetryIsSafe PublishedStays RecordsFollow
CHECK_DEADLOCK FALSE
