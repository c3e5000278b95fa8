SPECIFICATION Spec
CONSTANTS
  Configs <- LeaseConfigs
  Duration = 4
  Latency = 1
  Early = 1
  Faults = {"error", "lost"}
  MaxTries = 2
  MaxTime = 14
INVARIANTS
  TypeOK
  LeaseCoversUse
PROPERTIES
  LeasesKeepLedger
CHECK_DEADLOCK FALSE
