SPECIFICATION PoolSpec
CONSTANTS
  Request = {r1, r2, r3}
  Key = {k1, k2}
  PoolSize = 2
INVARIANTS
  RefusedMeansNotSent
  CallsHoldConnections
PROPERTIES
  EveryRequestCloses
