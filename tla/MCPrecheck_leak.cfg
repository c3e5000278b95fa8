SPECIFICATION FairSpec
CONSTANTS
  o1 = o1
  o2 = o2
  o3 = o3
  a = a
  b = b
  Api = Api
  NoOp = NoOp
  Ops = {o1, o2}
  Keys = {a, b}
  Checks <- ApiLastChecks
  Faults = {"apicheck"}
PROPERTIES
  WaiterGetsMutex
CHECK_DEADLOCK FALSE
