SPECIFICATION Spec
CONSTANTS
  Build = "std"
  ByteRange = 4
  Order = 3
  k1 = k1
  k2 = k2
  Malformed = Malformed
  VKs <- MCVKs
  Proofs <- MCProofs
  Calls <- MCCalls
  Withdrawals <- MCWithdrawals
  MaxTransfers = 3
  MaxEvents = 3
INVARIANTS
  InputsAreDistinct
