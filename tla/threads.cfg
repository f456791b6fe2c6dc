SPECIFICATION Spec
CONSTANTS
  Users = {2, 3}
  Sends = {s1}
  Requests = {r1, r2}
  MaxThreads = 2
  Faults = {"dbError", "redisError", "apiCrash"}
  MaxFaults = 1
SYMMETRY Symmetry
INVARIANTS
  OneThreadPerPair
  TypeOK
  OverrideWasTrue
  ToldWhoHolds
PROPERTIES
  TakeoverEndsByRight
  ImplementsConversations
