SPECIFICATION Spec
CONSTANTS
  Rpcs = {r1, r2, r3}
  n1 = n1
  n2 = n2
  n3 = n3
  AuthNames = {n1, n2, n3}
  None = None
  Security <- PasswordSecurity
  Retry <- RetryFive
  AuthRefs = {"default"}
  Faults = {"token"}
INVARIANTS
  ClientReturned
CHECK_DEADLOCK FALSE
