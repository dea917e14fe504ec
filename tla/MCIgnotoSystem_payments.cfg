SPECIFICATION SystemSpec
CONSTANTS
  Build = "wasm"
  ByteRange = 2
  Order = 2
  alice = alice
  vk = vk
  SubmitTries = 1
  ExitTries = 1
  Malformed = Malformed
  None = None
  VKs = {vk}
  Proofs = {}
  Calls <- MCCalls
  Withdrawals <- MCWithdrawals
  MaxTransfers = 3
  MaxEvents = 3
  Accounts = {alice}
  Extrinsics <- MCExtrinsics
  Endowment = 9
  MinimumBalance = 1
  BlockLimit = 1
  Hashes <- MCHashes
  LastBlock = 2
  Option = {"manual-seal-3000"}
  Buffer = 0
  ReadyLimit = 1
  FutureLimit = 1
  PerBlock <- MCPerBlock
  Scripts <- MCScripts
  Period = 3
  MaxSessions = 1
  LastIncarnation = 2
INVARIANTS
  PaymentsAreExecuted
CHECK_DEADLOCK FALSE
