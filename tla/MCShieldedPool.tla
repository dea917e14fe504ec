--------------------------- MODULE MCShieldedPool ---------------------------
(***************************************************************************)
(* Four byte strings, three field elements: the byte string 3 is a second, *)
(* non-canonical name of the field element 0.                              *)
(***************************************************************************)
EXTENDS ShieldedPool

CONSTANTS k1, k2

MCVKs == {k1, k2}
MCInputs == <<0, 1>>
MCOutputs == {<<1, 2>>, <<3, 1>>}

\* Wallets have proved, under k1, four pairs of nullifiers for the outputs
\* <<1, 2>> (two that overlap, two that repeat one), and a statement under k2.
MCProofs ==
  {[vk |-> k1, inputs |-> <<0, 1, 1, 2, n[1], n[2]>>] :
     n \in {<<0, 1>>, <<1, 2>>, <<0, 0>>, <<2, 2>>}}
  \cup {[vk |-> k2, inputs |-> <<0, 1, 1, 2, 0, 1>>]}

MCCall(origins, vks, proofs, outputs) ==
  [origin : origins, vk : vks, proof : proofs,
   inputs_commitment : {MCInputs}, outputs_commitment : outputs,
   inputs_nullifier : Bytes \X Bytes]

\* Any key with any proof and any bytes, and an unsigned call.
MCCalls ==
  MCCall({"signed"}, MCVKs \cup {Malformed}, MCProofs \cup {Malformed}, MCOutputs)
  \cup {c \in MCCall({"none"}, {k1}, MCProofs, {<<1, 2>>}) :
          c.inputs_nullifier = <<0, 1>>}

\* For the build that accepts every signed call: one proof or none.
MCCallsWasm ==
  MCCall({"signed"}, {k1},
         {[vk |-> k1, inputs |-> <<0, 1, 1, 2, 0, 1>>], Malformed}, {<<3, 1>>})

MCWithdrawals ==
  {[origin |-> "signed", amount |-> 5, address |-> "xmr"],
   [origin |-> "none", amount |-> 5, address |-> "xmr"]}
=============================================================================
