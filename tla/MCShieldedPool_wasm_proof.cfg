SPECIFICATION Spec
CONSTANTS
  Build = "wasm"
  ByteRange = 4
  Order = 3
  k1 = k1
  k2 = k2
  Malformed = Malformed
  VKs <- MCVKs
  Proofs <- MCProofs
  Calls <- MCCallsWasm
  Withdrawals <- MCWithdrawals
  MaxTransfers = 2
  MaxEvents = 2
INVARIANTS
  OnlyProvenTransfers
