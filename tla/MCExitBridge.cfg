SPECIFICATION Spec
CONSTANTS
  Blocks <- MCBlocks
  None = None
  MaxBlocks = 3
  MaxSessions = 2
INVARIANTS
  TypeOK
  OrderedPosts
  FailClose
  NoSilentSkip
  DuplicatesOnlyAtHead
PROPERTIES
  HeadsAreHandled
CHECK_DEADLOCK FALSE
