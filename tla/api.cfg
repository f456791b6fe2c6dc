SPECIFICATION FairSpec
CONSTANTS
  Servers = {a1}
  Commands = {m1}
  Sends = {s1, s2}
  Statements = 3
  Creates <- CreatesOf3
  MaxStarts = 3
  MaxFaults = 2
INVARIANTS
  TypeOK
  AppliedInOrder
  ServesOnFullSchema
  RaceHasSurvivor
  StrandedOnlyByHarm
  AnswerIsTrue
PROPERTIES
  RaceHasWinner
CHECK_DEADLOCK FALSE
