SPECIFICATION Spec
CONSTANTS
  o1 = o1
  o2 = o2
  o3 = o3
  a = a
  b = b
  Api = Api
  NoOp = NoOp
  Ops = {o1, o2, o3}
  Keys = {a, b}
  Checks <- OrderedChecks
  Faults = {"apicheck", "cancel"}
INVARIANTS
  TypeOK
  MutualExclusion
  HoldsEarlierMutexes
  NoCircularWait
  TokenConservation
PROPERTIES
  ImplementsTable
