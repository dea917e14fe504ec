--------------------------- MODULE MCIgnotoSystem ---------------------------
(***************************************************************************)
(* Both scripts sign as alice, as all scripts of the repository do:        *)
(* submit-tx.ts, which goes through the router and prints its hex, and     *)
(* exit-client.ts.  Two chains of up to three blocks with one extrinsic    *)
(* each, and eras of two blocks, so that one may pass.                     *)
(***************************************************************************)
EXTENDS IgnotoSystem

CONSTANTS alice, vk, SubmitTries, ExitTries

MCTransfer ==
  [origin |-> "signed", vk |-> vk, proof |-> Malformed, inputs_commitment |-> <<0, 1>>,
   outputs_commitment |-> <<1, 0>>, inputs_nullifier |-> <<0, 1>>]
MCCalls == {MCTransfer}
MCWithdrawal == [origin |-> "signed", amount |-> 5, address |-> "xmr"]
MCWithdrawals == {MCWithdrawal}

SubmitTx == [signer |-> alice, kind |-> "transfer_shielded", args |-> MCTransfer,
             printed |-> TRUE, limit |-> SubmitTries]
ExitClient == [signer |-> alice, kind |-> "shielded_withdraw", args |-> MCWithdrawal,
               printed |-> FALSE, limit |-> ExitTries]
MCScripts == {SubmitTx, ExitClient}

MCHashes == {<<0, 0>>} \cup {<<c, n>> : c \in 1..LastIncarnation, n \in 1..LastBlock}
MCExtrinsics ==
  {[signer |-> alice, nonce |-> n, tip |-> 0, version |-> "current",
    birth |-> h[2], hash |-> h, period |-> Period, kind |-> s.kind, args |-> s.args] :
     n \in 0..LastBlock, h \in MCHashes, s \in MCScripts}

\* The key, the proof and the commitments make a shielded transfer long.
MCPerBlock == [transfer_shielded |-> 1, shielded_withdraw |-> 2]

\* Three fees at most: the accounts are never used up.
ASSUME MCFunded == Funded
=============================================================================
