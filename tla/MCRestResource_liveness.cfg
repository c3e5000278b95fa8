SPECIFICATION FairSpec
CONSTANTS
  b1 = b1
  b2 = b2
  e1 = e1
  e2 = e2
  p1 = p1
  None = None
  Bodies = {b1, b2}
  Ephs = {e1, e2}
  Patches = {p1}
  Configs <- LivenessConfigs
  Faults = {"error", "lost", "crash", "drift"}
  MaxIds = 5
  MaxTries = 2
  MaxChanges = 2
  MaxFaults = 2
PROPERTIES
  Converges
CHECK_DEADLOCK FALSE
