SPECIFICATION MCFairSpec
CONSTANTS
  Parts = {"rows"}
  Rows <- TwoRows
  Workers = {w1, w2}
  Operators = {o1}
  MaxAttempts = 2
  MaxCrashes = 1
  MaxManual = 1
  None = None
  A = A
  B = B
  a1 = a1
  a2 = a2
  b1 = b1
  u1 = u1
  Channels = {A, B}
  Users = {u1}
  Slugs = {a1, a2, b1}
  Projectors = {w1, w2}
  MaxGeneration = 2
  MaxReconnects = 1
  MaxFaults = 2
  MaxTries = 2
  Nobody = Nobody
PROPERTIES
  ManualRetryOnlyAfterFailure
