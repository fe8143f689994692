SPECIFICATION SqlFairSpec
CONSTANTS
  Op = {r1, r2}
  Closer = {c1, c2}
  N = 1
  AcquireTimeout = TRUE
  MaxLifetime = TRUE
  HealthCheck = TRUE
  MaxIssued = 3
CHECK_DEADLOCK FALSE
PROPERTIES
  PoolCallsEnd
