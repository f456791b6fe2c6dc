SPECIFICATION FairSpec
CONSTANTS
  Msgs = {m1, m2}
  Workers = {w1, w2}
  NoMsg = NoMsg
  Bodies <- PlainBodies
  RecipientKinds = {"bot"}
  MaxRetries = 2
  RetryCap = 2
  Prefetch = 2
  Faults = {"crash"}
  MaxFaults = 1
PROPERTIES
  EveryMessageSettles
CHECK_DEADLOCK FALSE
