SPECIFICATION Spec
CONSTANTS
  Msgs = {m1}
  Workers = {w1, w2}
  NoMsg = NoMsg
  Bodies <- AllBodies
  RecipientKinds = {"bot", "regular"}
  MaxRetries = 2
  RetryCap = 3
  Prefetch = 1
  Faults = {"apiCrash", "publishError", "publishLost", "dbError", "redisError", "lateAnswer", "crash", "linkLoss", "shutdown"}
  MaxFaults = 3
SYMMETRY Symmetry
INVARIANTS
  TypeOK
  OneCopy
  CountNeverOverstates
  FeedAgreesWhenSettled
  QueuedHasOwner
  NoEarlyGiveUp
  NoDuplicateDelivery
PROPERTIES
  RetryMonotone
  DeliveredIsFinal
  ImplementsLifecycle
CHECK_DEADLOCK FALSE
