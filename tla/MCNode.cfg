SPECIFICATION NodeSpec
CONSTANTS
  Build = "wasm"
  ByteRange = 3
  Order = 3
  alice = alice
  bob = bob
  carol = carol
  k = k
  Malformed = Malformed
  VKs = {k}
  Proofs = {}
  Calls <- MCCalls
  Withdrawals <- MCWithdrawals
  MaxTransfers = 3
  MaxEvents = 3
  Accounts <- MCAccounts
  Extrinsics <- MCExtrinsics
  Endowment = 4
  MinimumBalance = 1
  BlockLimit = 2
  Hashes <- MCHashes
  LastBlock = 3
  Option = {"instant-seal", "manual-seal-3000", "none"}
  Buffer = 1
  ReadyLimit = 3
  FutureLimit = 1
  PerBlock <- MCPerBlock
INVARIANTS
  NodeTypeOK
  NoncesInOrder
  SupplyShrinksByFees
  NoNullifierReuse
PROPERTIES
  ImplementsPool
  ImplementsByteLedger
  NeverDropped
  ReadyIsServed
CHECK_DEADLOCK FALSE
