SPECIFICATION Spec
CONSTANTS
  Msgs = {m1}
  Workers = {w1}
  NoMsg = NoMsg
  Bodies <- PlainBodies
  RecipientKinds = {"bot"}
  MaxRetries = 2
  RetryCap = 3
  Prefetch = 1
  Faults = {"shutdown"}
  MaxFaults = 1
INVARIANTS
  AckedMeansHandled
CHECK_DEADLOCK FALSE
