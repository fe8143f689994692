SPECIFICATION PoolsSpec
CONSTANTS
  Op = {r1, r2, r3}
  Closer = {c1, c2}
  N = 2
  AcquireTimeout = TRUE
  MaxLifetime = FALSE
  HealthCheck = TRUE
  MaxIssued = 5
SYMMETRY Symm
CHECK_DEADLOCK FALSE
INVARIANTS
  LeaseExclusive
  RedisGuardExclusive
  CapacityKept
  CloseTellsTrue
