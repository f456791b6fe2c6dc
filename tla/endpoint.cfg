SPECIFICATION FairSpec
CONSTANTS
  Calls = {c1, c2}
  Workers = {w1, w2}
  MaxVersion = 2
  Faults = {"dbError", "redisError", "apiCrash", "eviction"}
  MaxFaults = 1
INVARIANTS
  TypeOK
  PairsMatch
  EndpointFresh
  CacheBehindRow
PROPERTIES
  ManagedInUseInTheEnd
  ImplementsDirectory
