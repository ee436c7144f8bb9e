SPECIFICATION Spec
CONSTANTS
  here = here
  elsewhere = elsewhere
  alice = alice
  bob = bob
  carol = carol
  right = right
  wrong = wrong
  name = name
  status = status
  Nobody = Nobody
  Requests <- MCRequests
  Principals <- MCPrincipals
  MaxBytes = 3
  MaxFrames = 3
INVARIANT
  FailuresMapped
CHECK_DEADLOCK FALSE
