SPECIFICATION Spec
CONSTANTS
  b1 = b1
  b2 = b2
  e1 = e1
  e2 = e2
  p1 = p1
  None = None
  Bodies = {b1, b2}
  Ephs = {e1, e2}
  Patches = {p1}
  Configs <- PatchConfigs
  Faults = {}
  MaxIds = 2
  MaxTries = 1
  MaxChanges = 2
  MaxFaults = 0
PROPERTIES
  OutputHidesEphemeral
CHECK_DEADLOCK FALSE
