SPECIFICATION FairSpec
CONSTANTS
  Rpcs = {r1, r2, r3}
  n1 = n1
  n2 = n2
  n3 = n3
  AuthNames = {n1, n2, n3}
  None = None
  Security <- PasswordSecurity
  Retry <- RetryFive
  AuthRefs = {"default", n1, n2, n3}
  Faults = {"token", "file"}
INVARIANTS
  TypeOK
  OwnSecurity
PROPERTIES
  ImplementsClientTable
  EveryRpcConfigured
CHECK_DEADLOCK FALSE
