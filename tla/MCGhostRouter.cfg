SPECIFICATION Spec
CONSTANTS
  r1 = r1
  r2 = r2
  Requests = {r1, r2}
  Ids <- MCIds
  Significands = 4
  Spacings = {1, 2, 4}
  Read = 4
  Write = 4
  Client = 2
  Grace = 1
  None = None
INVARIANTS
  TypeOK
  PromptBodyIsAnswered
  HandlersAreBounded
  GracefulExitDrains
  StatusIsEarned
  IdsAreEchoed
PROPERTIES
  RequestsEnd
CHECK_DEADLOCK FALSE
