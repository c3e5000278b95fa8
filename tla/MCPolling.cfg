SPECIFICATION FairSpec
CONSTANTS
  Missing = Missing
  Statuses = {"InProgress", "Succeeded", "Failed", "200", "202", "404", "409", "503"}
  Options <- ThreeOptions
  Faults = {"geterror", "cancel"}
INVARIANTS
  TypeOK
PROPERTIES
  ImplementsAwait
  PollingEnds
  CancelEndsPolling
CHECK_DEADLOCK FALSE
