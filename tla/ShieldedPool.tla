---------------------------- MODULE ShieldedPool ----------------------------
(***************************************************************************)
(* The Ignoto pallet (core-rust/pallets/ignoto/src/lib.rs): the storage of *)
(* the shielded pool, its two calls, and the proof verifier they use       *)
(* (core-rust/circuits/src/lib.rs, verify_ignoto_proof).                   *)
(*                                                                         *)
(* A [u8; 32] is a number below ByteRange (2^256 in the code) and a field  *)
(* element a number below Order (the BLS12-381 scalar order), so that some *)
(* byte strings are no canonical field element, as in the code.  A Groth16 *)
(* proof is the statement it proves: the verifying key it was made for and *)
(* the six public inputs, as field elements, in the order in which the     *)
(* circuit allocates them.  That a proof verifies exactly for its own      *)
(* statement is the cryptographic assumption of the model.                 *)
(***************************************************************************)
EXTENDS Integers, Sequences, FiniteSets

CONSTANTS
  Build,          \* "std": native build; "wasm": the no_std runtime blob
  ByteRange,      \* number of distinct 32-byte strings
  Order,          \* order of the scalar field
  VKs,            \* verifying keys that deserialize
  Proofs,         \* the proofs that exist
  Malformed,      \* bytes that do not deserialize
  Calls,          \* the transfer_shielded calls submitted
  Withdrawals,    \* the shielded_withdraw calls submitted
  MaxTransfers,   \* bound of the model: transfers accepted
  MaxEvents       \* bound of the model: events deposited in one block

Bytes == 0 .. ByteRange - 1
Scalars == 0 .. Order - 1

Origins == {"signed", "none"}
Errors == {"BadOrigin", "NullifierAlreadySpent", "InvalidZeroKnowledgeProof"}

Call == [origin : Origins,
         vk : VKs \cup {Malformed},
         proof : Proofs \cup {Malformed},
         inputs_commitment : Bytes \X Bytes,
         outputs_commitment : Bytes \X Bytes,
         inputs_nullifier : Bytes \X Bytes]

ASSUME PoolAssumption ==
  /\ Build \in {"std", "wasm"}
  /\ ByteRange \in Nat /\ Order \in Nat \ {0} /\ Order <= ByteRange
  /\ Proofs \subseteq [vk : VKs, inputs : [1..6 -> Scalars]]
  /\ Malformed \notin VKs /\ Malformed \notin Proofs /\ Malformed \notin Scalars
  /\ Calls \subseteq Call
  /\ \A w \in Withdrawals : w.origin \in Origins
  /\ MaxTransfers \in Nat /\ MaxEvents \in Nat

VARIABLES
  commitments,    \* Commitments<T>: StorageValue<Vec<[u8; 32]>>
  nullifiers,     \* Nullifiers<T>: the keys of the StorageMap
  events,         \* the pallet's events of the block being built
  outcome,        \* result of the last call: "ok" or the error returned
  accepted        \* history: the transfers that were executed, in order

vars == <<commitments, nullifiers, events, outcome, accepted>>
-----------------------------------------------------------------------------
(* The verifier. *)

\* Scalar::from_repr reads a byte string modulo the field order.
MutantReduces(b) == b % Order

\* Scalar::from_repr: only the canonical representation is a field element.
from_repr(b) == IF b < Order THEN b ELSE Malformed

\* The pallet lists the nullifiers before the commitments.
MutantOrder(c) ==
  <<c.inputs_nullifier[1], c.inputs_nullifier[2],
    c.inputs_commitment[1], c.inputs_commitment[2],
    c.outputs_commitment[1], c.outputs_commitment[2]>>

\* The statement the pallet hands to the verifier.
public_inputs(c) ==
  <<c.inputs_commitment[1], c.inputs_commitment[2],
    c.outputs_commitment[1], c.outputs_commitment[2],
    c.inputs_nullifier[1], c.inputs_nullifier[2]>>

\* The pairing check is dropped: whatever deserializes is accepted.
MutantNoPairing(vk, proof, inputs) ==
  IF vk = Malformed \/ proof = Malformed THEN "error" ELSE "valid"

verify_ignoto_proof(vk, proof, inputs) ==
  IF \/ vk = Malformed \/ proof = Malformed
     \/ \E i \in 1..6 : from_repr(inputs[i]) = Malformed
  THEN "error"
  ELSE IF /\ proof.vk = vk
          /\ \A i \in 1..6 : proof.inputs[i] = from_repr(inputs[i])
       THEN "valid"
       ELSE "invalid"

\* verify_zk_proof: the no_std build has no verifier and answers Ok(true).
verify_zk_proof(c) ==
  IF Build = "std"
  THEN verify_ignoto_proof(c.vk, c.proof, public_inputs(c))
  ELSE "valid"
-----------------------------------------------------------------------------
(* The calls. *)

Reject(error) ==
  /\ outcome' = error
  /\ UNCHANGED <<commitments, nullifiers, events, accepted>>

InputsOf(c) == {c.inputs_nullifier[1], c.inputs_nullifier[2]}

\* The loop looks at the first nullifier only.
MutantFirstOnly(c) == c.inputs_nullifier[1] \in nullifiers

AlreadySpent(c) == InputsOf(c) \cap nullifiers # {}

RejectUnproven(c) ==
  /\ c.origin = "signed" /\ ~AlreadySpent(c)
  /\ verify_zk_proof(c) # "valid"
  /\ Reject("InvalidZeroKnowledgeProof")

\* The insertion loop stops after the first nullifier.
MutantSpendFirst(c) == nullifiers \cup {c.inputs_nullifier[1]}

\* for nullifier in &inputs_nullifier { Nullifiers::insert(nullifier, ()) }
Spend(c) == nullifiers \cup InputsOf(c)

\* The event reports the commitments that were consumed.
MutantWrongEvent(c) == [kind |-> "Transferred",
                        inputs_nullifier |-> c.inputs_nullifier,
                        outputs_commitment |-> c.inputs_commitment]

Transferred(c) == [kind |-> "Transferred",
                   inputs_nullifier |-> c.inputs_nullifier,
                   outputs_commitment |-> c.outputs_commitment]

\* Both outputs go in as one entry of 64 bytes.
MutantPacked(c) ==
  Append(commitments, c.outputs_commitment[1] * ByteRange + c.outputs_commitment[2])

\* list.push(outputs_commitment[0]); list.push(outputs_commitment[1])
PushOutputs(c) == commitments \o c.outputs_commitment

AcceptTransfer(c) ==
  /\ c.origin = "signed" /\ ~AlreadySpent(c)
  /\ verify_zk_proof(c) = "valid"
  /\ Len(accepted) < MaxTransfers /\ Len(events) < MaxEvents
  /\ nullifiers' = Spend(c)
  /\ commitments' = PushOutputs(c)
  /\ events' = Append(events, Transferred(c))
  /\ accepted' = Append(accepted, c)
  /\ outcome' = "ok"

transfer_shielded(c) ==
  \/ c.origin # "signed" /\ Reject("BadOrigin")
  \/ c.origin = "signed" /\ AlreadySpent(c) /\ Reject("NullifierAlreadySpent")
  \/ RejectUnproven(c)
  \/ AcceptTransfer(c)

ShieldedWithdraw(w) == [kind |-> "ShieldedWithdraw",
                        amount |-> w.amount, external_address |-> w.address]

\* A signed request only deposits an event: no storage item is debited.
shielded_withdraw(w) ==
  \/ w.origin # "signed" /\ Reject("BadOrigin")
  \/ /\ w.origin = "signed" /\ Len(events) < MaxEvents
     /\ events' = Append(events, ShieldedWithdraw(w))
     /\ outcome' = "ok"
     /\ UNCHANGED <<commitments, nullifiers, accepted>>

\* frame_system resets the event list when the executive opens a block.
initialize_block ==
  /\ events # <<>>
  /\ events' = <<>>
  /\ UNCHANGED <<commitments, nullifiers, outcome, accepted>>
-----------------------------------------------------------------------------
Init ==
  /\ commitments = <<>>
  /\ nullifiers = {}
  /\ events = <<>>
  /\ outcome = "none"
  /\ accepted = <<>>

Next ==
  \/ \E c \in Calls : transfer_shielded(c)
  \/ \E w \in Withdrawals : shielded_withdraw(w)
  \/ initialize_block

Spec == Init /\ [][Next]_vars
-----------------------------------------------------------------------------
(* Properties. *)

EventSet ==
  {Transferred(c) : c \in Calls} \cup {ShieldedWithdraw(w) : w \in Withdrawals}

\* Every state component keeps the shape its storage item declares.
TypeOK ==
  /\ commitments \in Seq(Bytes)
  /\ nullifiers \subseteq Bytes
  /\ events \in Seq(EventSet)
  /\ outcome \in {"none", "ok"} \cup Errors
  /\ accepted \in Seq(Calls)

ScalarInputs(c) == {n % Order : n \in InputsOf(c)}

\* No field element is consumed as nullifier by two executed transfers, even
\* when the byte strings naming it differ ("Double spend check", lib.rs:78).
NoDoubleSpend ==
  \A i, j \in DOMAIN accepted :
    i # j => ScalarInputs(accepted[i]) \cap ScalarInputs(accepted[j]) = {}

\* The same over the stored byte strings, which is all a build without the
\* verifier can tell apart.
NoNullifierReuse ==
  \A i, j \in DOMAIN accepted :
    i # j => InputsOf(accepted[i]) \cap InputsOf(accepted[j]) = {}

\* The statement a wallet proves, in the order of the circuit's alloc_input.
Statement(c) ==
  [i \in 1..6 |-> CASE i \in {1, 2} -> c.inputs_commitment[i]
                    [] i \in {3, 4} -> c.outputs_commitment[i - 2]
                    [] OTHER        -> c.inputs_nullifier[i - 4]] 

Proven(c) ==
  c.proof \in Proofs /\ c.proof.vk = c.vk /\ c.proof.inputs = Statement(c)

\* Each executed transfer carried a proof of exactly what it did to the pool:
\* the nullifiers it spent and the commitments it appended (lib.rs:4, "verify
\* transactions via zk-SNARKs").
OnlyProvenTransfers == \A i \in DOMAIN accepted : Proven(accepted[i])

\* The two storage items together are exactly the executed transfers: all their
\* nullifiers and no others, their outputs pairwise and in execution order.
StorageIsHistory ==
  /\ nullifiers = UNION {InputsOf(accepted[i]) : i \in DOMAIN accepted}
  /\ Len(commitments) = 2 * Len(accepted)
  /\ \A i \in DOMAIN accepted :
       /\ commitments[2*i - 1] = accepted[i].outputs_commitment[1]
       /\ commitments[2*i] = accepted[i].outputs_commitment[2]

TransferEvents == {k \in DOMAIN events : events[k].kind = "Transferred"}

\* The Transferred events of a block, in order, are its executed transfers: an
\* observer that reads events (the bridge) sees each pool change once.
EventsReportTransfers ==
  LET first == Len(accepted) - Cardinality(TransferEvents)
      rank(k) == Cardinality({j \in TransferEvents : j <= k})
  IN  /\ first >= 0
      /\ \A k \in TransferEvents :
           LET c == accepted[first + rank(k)]
           IN  /\ events[k].inputs_nullifier = c.inputs_nullifier
               /\ events[k].outputs_commitment = c.outputs_commitment

\* A signed transfer whose proof covers its statement and whose nullifiers are
\* fresh passes verification: prover and pallet agree on the order of the
\* inputs, and only the double-spend check ever stops an honest wallet.
HonestTransferAccepted ==
  \A c \in Calls :
    c.origin = "signed" /\ ~AlreadySpent(c) /\ Proven(c)
      => verify_zk_proof(c) = "valid"

\* A transfer consumes two notes: the two nullifiers of a call differ.
InputsAreDistinct ==
  \A i \in DOMAIN accepted :
    accepted[i].inputs_nullifier[1] # accepted[i].inputs_nullifier[2]

\* The pool implements the abstract ledger: over field elements in the build
\* that verifies, over byte strings in every build.
ScalarLedger == INSTANCE NullifierLedger WITH
  Notes <- Scalars,
  spent <- {n % Order : n \in nullifiers},
  minted <- [i \in DOMAIN commitments |-> commitments[i] % Order],
  consumed <- [i \in DOMAIN accepted |-> ScalarInputs(accepted[i])]
ByteLedger == INSTANCE NullifierLedger WITH
  Notes <- Bytes, spent <- nullifiers, minted <- commitments,
  consumed <- [i \in DOMAIN accepted |-> InputsOf(accepted[i])]

\* Seen as field elements, every step of the pallet is one ledger transfer or
\* leaves the ledger alone.
ImplementsScalarLedger == ScalarLedger!Spec

\* The same, seen as byte strings.
ImplementsByteLedger == ByteLedger!Spec
=============================================================================
