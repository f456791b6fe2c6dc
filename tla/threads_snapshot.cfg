SPECIFICATION Spec
CONSTANTS
  Users = {1, 2}
  Sends = {s1}
  Requests = {r1}
  MaxThreads = 1
  Faults = {}
  MaxFaults = 0
PROPERTIES
  BotSkippedInTakeover
