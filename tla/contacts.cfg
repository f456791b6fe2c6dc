SPECIFICATION FairSpec
CONSTANTS
  Phones = {p1, p2}
  Conns = {k1, k2}
  Calls = {r1, r2}
  Nobody = Nobody
  MaxFaults = 1
INVARIANTS
  TypeOK
  NoConnLeaks
  JamNeedsFullPool
  AnswerIsWhole
PROPERTIES
  EveryCallEnds
