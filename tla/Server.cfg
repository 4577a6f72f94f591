\* One gateway or direct caller after another against a login limited by
\* address and by name, with shutdown at any point.
CONSTANTS
  ip = ip
  user = user
  Buckets <- MCBuckets
  Bindings <- MCBindings
  Requests = {r1}
  Burst = 1
  Refill = 2
  Minute = 1
  MaxTime = 5
SPECIFICATION Spec
INVARIANTS
  ServerTypeOK
  SpendIsBounded
  FailedStartReleasesPool
  PoolOutlivesHandlers
  GatewayCallsAreServed
PROPERTIES
  EvictionIsInvisible
  ShutdownCompletes
CHECK_DEADLOCK FALSE
