CONSTANTS
  k1 = k1  k2 = k2  k3 = k3  k4 = k4  v1 = v1  v2 = v2
  Key = {k1, k2, k3, k4}
  Val = {v1, v2}
  None = None
  Hash <- Colliding
  Garbage = {}
  MaxEnts = 6
  OOM = FALSE
  NextPrime <- kmem_nextprime
SPECIFICATION Spec
INVARIANTS TypeOK NoStray AllReachable BucketsIndexEntries
PROPERTIES EveryCallEnds ImplementsMap
CHECK_DEADLOCK FALSE
