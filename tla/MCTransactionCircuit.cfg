SPECIFICATION Spec
CONSTANTS
  Order = 11
  Bits = 2
  Weight <- MCWeight
  None = None
  Witnesses <- MCWitnesses
INVARIANTS
  TypeOK
  Soundness
  Completeness
  ShapeIndependent
