SPECIFICATION Spec
CONSTANTS
  r1 = r1
  r2 = r2
  Requests = {r1}
  Ids <- MCOneId
  Significands = 4
  Spacings = {1, 2, 4}
  Read = 6
  Write = 6
  Client = 3
  Grace = 1
  None = None
INVARIANTS
  NoPrematureAbort
CHECK_DEADLOCK FALSE
