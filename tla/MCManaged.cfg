SPECIFICATION ManagedSpec
CONSTANTS
  b1 = b1
  b2 = b2
  e1 = e1
  t1 = t1
  t2 = t2
  None = None
  Bodies = {b1, b2}
  Ephs = {e1}
  Configs <- OperationConfigs
  Faults = {"error", "lost", "crash"}
  MaxIds = 6
  MaxTries = 2
  MaxChanges = 2
  MaxFaults = 2
  Tokens = {t1, t2}
  Namespaces = {"kube-system", "default"}
  Names = {"terraform-rest", "other"}
  Account <- TokenAccounts
  Layouts <- TokenLayouts
  Values = {"v1", "v2"}
  Spaces = {"apps", "default"}
  MaxUids = 5
  MaxEvents = 2
INVARIANTS
  TypesOK
  StateTellsEffect
  OperatesOnlyWhenDue
  StateTellsRelease
  GrantsWhatItSays
  LeavesNothing
PROPERTIES
  EffectsKeepLedger
  ReleasesKeepLedger
  Settles
  Heals
CHECK_DEADLOCK FALSE
