SPECIFICATION Spec
CONSTANTS
  Servers = {a1}
  Commands = {m1}
  Sends = {s1, s2}
  Statements = 3
  Creates <- CreatesOf3
  MaxStarts = 3
  MaxFaults = 2
PROPERTIES
  ExitWaits
CHECK_DEADLOCK FALSE
