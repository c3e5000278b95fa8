SPECIFICATION Spec
CONSTANTS
  b1 = b1
  b2 = b2
  e1 = e1
  e2 = e2
  p1 = p1
  None = None
  Bodies = {b1, b2}
  Ephs = {e1, e2}
  Patches = {p1}
  Configs <- SafetyConfigs
  Faults = {"error", "lost", "crash", "drift", "foreign", "busy"}
  MaxIds = 3
  MaxTries = 2
  MaxChanges = 2
  MaxFaults = 3
INVARIANTS
  TypeOK
  RecordMatchesRemote
  EmptyPlanMeansInPlace
PROPERTIES
  AppliedIsSettled
  KeepsLedger
CHECK_DEADLOCK FALSE
