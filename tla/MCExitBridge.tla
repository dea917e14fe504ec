---------------------------- MODULE MCExitBridge ----------------------------
(***************************************************************************)
(* Blocks with a transfer before a withdrawal, and with a withdrawal       *)
(* between events the bridge passes over: another pallet's, and a          *)
(* withdrawal without address.                                             *)
(***************************************************************************)
EXTENDS ExitBridge

Withdraw(amount, address) ==
  [kind |-> "ShieldedWithdraw", amount |-> amount, address |-> address]
Other(kind) == [kind |-> kind, amount |-> None, address |-> None]

MCBlocks == {<<Other("Transferred"), Withdraw(5, "xmr")>>,
             <<Other("System.ExtrinsicSuccess"), Withdraw(7, "btc"), Withdraw(9, None)>>}
=============================================================================
