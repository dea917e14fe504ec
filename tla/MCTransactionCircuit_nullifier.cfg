SPECIFICATION Spec
CONSTANTS
  Order = 11
  Bits = 2
  Weight <- MCWeight
  None = None
  Witnesses <- MCReused
INVARIANTS
  NullifierOfNote
