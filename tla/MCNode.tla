------------------------------- MODULE MCNode -------------------------------
(***************************************************************************)
(* Three accounts with 4 IGTO each and six extrinsics: two of alice in a   *)
(* row, the second of which expires after block 2; two of bob for one      *)
(* slot, the cheaper a transfer that overlaps alice's; and two of carol in *)
(* a row, the first of which empties her account, which bob's other one    *)
(* may fund again.                                                         *)
(***************************************************************************)
EXTENDS Node

CONSTANTS alice, bob, carol, k

MCHashes == {<<c, n>> : c \in {0, 1}, n \in 0..LastBlock}
MCAccounts == {alice, bob, carol}

MCTransfer(n) ==
  [origin |-> "signed", vk |-> k, proof |-> Malformed, inputs_commitment |-> <<0, 1>>,
   outputs_commitment |-> <<1, 2>>, inputs_nullifier |-> n]
MCCalls == {MCTransfer(<<0, 1>>), MCTransfer(<<1, 2>>)}
MCWithdrawal == [origin |-> "signed", amount |-> 5, address |-> "xmr"]
MCWithdrawals == {MCWithdrawal}

Xt(signer, n, tip, period, kind, args) ==
  [signer |-> signer, nonce |-> n, tip |-> tip, version |-> "current",
   birth |-> 0, hash |-> <<0, 0>>, period |-> period, kind |-> kind, args |-> args]
Pay(dest, amount) == [dest |-> dest, amount |-> amount]
Immortal == LastBlock + 1

\* The key, the proof and the commitments make a shielded transfer long.
MCPerBlock == [transfer_shielded |-> 1, shielded_withdraw |-> 2, transfer_allow_death |-> 2]

MCExtrinsics ==
  {Xt(alice, 0, 0, Immortal, "transfer_shielded", MCTransfer(<<0, 1>>)),
   Xt(alice, 1, 0, 3, "shielded_withdraw", MCWithdrawal),
   Xt(bob, 0, 0, Immortal, "transfer_shielded", MCTransfer(<<1, 2>>)),
   Xt(bob, 0, 1, Immortal, "transfer_allow_death", Pay(carol, 2)),
   Xt(carol, 0, 0, Immortal, "transfer_allow_death", Pay(bob, 3)),
   Xt(carol, 1, 0, Immortal, "shielded_withdraw", MCWithdrawal)}
=============================================================================
