SPECIFICATION FairSpec
CONSTANTS
  Conns = {c1, c2}
  Buffer = 1
  MaxEvents = 3
  MaxFaults = 1
INVARIANTS
  TypeOK
  InOrderOnce
  NothingMissing
PROPERTIES
  HandlerEnds
  ImplementsStream
