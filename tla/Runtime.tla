------------------------------- MODULE Runtime -------------------------------
(***************************************************************************)
(* The runtime (core-rust/pallets/runtime/src/lib.rs): what the executive  *)
(* does with a signed extrinsic.  The extensions of TxExtension check the  *)
(* signature with what it covers, the nonce, the block's room and the fee; *)
(* then the call is dispatched to a pallet, and a call that fails keeps    *)
(* its nonce and its fee.                                                  *)
(*                                                                         *)
(* The shielded pool is the one of ShieldedPool, here in the build of the  *)
(* WASM blob.  The variables are the state of the block under construction *)
(* or, between blocks, of the best block.  FRAME's pallets are modelled    *)
(* as lib.rs configures them: 1 IGTO per extrinsic, burned; an account     *)
(* below MinimumBalance is removed, and its nonce with it.                 *)
(***************************************************************************)
EXTENDS ShieldedPool

CONSTANTS
  Accounts,
  Extrinsics,       \* the signed extrinsics that exist
  Endowment,        \* genesis balance of every account
  MinimumBalance,   \* ExistentialDeposit of pallet_balances
  BlockLimit,       \* extrinsics a block has weight for
  Hashes,           \* block hashes
  LastBlock         \* bound of the model: block numbers stop here

VARIABLES
  nonce, balance,   \* frame_system::Account and its AccountData
  life,             \* history: how often an account was removed
  number,           \* frame_system::Number
  block_hash,       \* frame_system::BlockHash: entry n + 1 is block n's
  used,             \* extrinsics in the block under construction
  executed          \* history: what was dispatched, and in which life of its signer

accountVars == <<nonce, balance, life>>
headerVars == <<number, block_hash>>
runtimeVars == <<vars, accountVars, headerVars, used, executed>>

\* The part of the state that transaction validity depends on.
State == [nonce |-> nonce, balance |-> balance,
          number |-> number, block_hash |-> block_hash]

ASSUME RuntimeAssumption ==
  /\ Build = "wasm" /\ IsFiniteSet(Accounts)
  /\ Endowment \in Nat /\ MinimumBalance \in Nat \ {0} /\ Endowment >= MinimumBalance
  /\ BlockLimit \in Nat /\ LastBlock \in Nat
  /\ \A c \in Calls : c.origin = "signed"
  /\ \A w \in Withdrawals : w.origin = "signed"
  /\ \A x \in Extrinsics :
       /\ x.signer \in Accounts /\ x.nonce \in Nat /\ x.tip \in Nat
       /\ x.birth \in Nat /\ x.period \in Nat
       /\ \/ x.kind = "transfer_shielded" /\ x.args \in Calls
          \/ x.kind = "shielded_withdraw" /\ x.args \in Withdrawals
          \/ /\ x.kind = "transfer_allow_death"
             /\ x.args.dest \in Accounts /\ x.args.amount \in Nat
-----------------------------------------------------------------------------
(* The extensions. *)

\* The era is checked by block number only.
MutantSignature(x, s) ==
  /\ x.version = "current"
  /\ x.birth < s.number /\ s.number < x.birth + x.period

\* The signature covers the versions, the genesis hash and the hash of the block
\* at which the era begins, and none of them is sent: the node fills in its own
\* (CheckSpecVersion, CheckTxVersion, CheckGenesis, CheckEra).
CheckSignature(x, s) ==
  /\ x.version = "current"
  /\ x.birth < s.number /\ s.number < x.birth + x.period
  /\ s.block_hash[x.birth + 1] = x.hash

\* WeightToFee = NoFee, LengthToFee = FixedFee<1>.
Fee(x) == 1 + x.tip

\* The fee may not take the account below the minimum balance.
ChargeTransactionPayment(x, s) ==
  s.balance[x.signer] >= Fee(x) + MinimumBalance

\* The nonce is only checked by the block, and only against gaps.
MutantNotStale(x, s) == TRUE

NotStale(x, s) == x.nonce >= s.nonce[x.signer]

CheckNonce(x, s) == NotStale(x, s) /\ x.nonce <= s.nonce[x.signer]

\* s with the next block opened on it, h being the hash of its head.
Opened(s, h) ==
  IF s.number = LastBlock THEN s
  ELSE [s EXCEPT !.number = @ + 1, !.block_hash = Append(@, h)]

\* validate_transaction: as if in a block on top of s; the nonce may lie ahead.
Acceptable(x, s) ==
  /\ CheckSignature(x, s)
  /\ NotStale(x, s)
  /\ ChargeTransactionPayment(x, s)

Applicable(x, s) ==
  CheckSignature(x, s) /\ CheckNonce(x, s) /\ ChargeTransactionPayment(x, s)
-----------------------------------------------------------------------------
(* Dispatch. *)

\* The fee is taken from the signer and burned.
Paid(x) == [balance EXCEPT ![x.signer] = @ - Fee(x)]

Charged(x) ==
  /\ balance' = Paid(x)
  /\ nonce' = [nonce EXCEPT ![x.signer] = @ + 1]
  /\ UNCHANGED life

\* Balances::transfer_allow_death, after the fee: what moves, and who is left
\* with less than the minimum.
CanMove(x) == /\ x.args.amount <= Paid(x)[x.signer]
              /\ Paid(x)[x.args.dest] + x.args.amount >= MinimumBalance
Moved(x) ==
  [[Paid(x) EXCEPT ![x.signer] = @ - x.args.amount]
            EXCEPT ![x.args.dest] = @ + x.args.amount]

TransferFails(x) == ~CanMove(x) /\ Charged(x)

TransferMoves(x) ==
  /\ CanMove(x) /\ Moved(x)[x.signer] >= MinimumBalance
  /\ balance' = Moved(x)
  /\ nonce' = [nonce EXCEPT ![x.signer] = @ + 1]
  /\ UNCHANGED life

\* What is left is dust and burned; a later deposit starts a new account.
TransferReaps(x) ==
  /\ CanMove(x) /\ Moved(x)[x.signer] < MinimumBalance
  /\ balance' = [Moved(x) EXCEPT ![x.signer] = 0]
  /\ nonce' = [nonce EXCEPT ![x.signer] = 0]
  /\ life' = [life EXCEPT ![x.signer] = @ + 1]

\* A call that returns an error is rolled back with its fee and its nonce.
MutantDispatch(x) ==
  \/ /\ x.kind = "transfer_shielded" /\ transfer_shielded(x.args)
     /\ IF outcome' = "ok" THEN Charged(x) ELSE UNCHANGED accountVars
  \/ x.kind = "shielded_withdraw" /\ shielded_withdraw(x.args) /\ Charged(x)
  \/ /\ x.kind = "transfer_allow_death"
     /\ TransferFails(x) \/ TransferMoves(x) \/ TransferReaps(x)
     /\ UNCHANGED vars

Dispatch(x) ==
  \/ x.kind = "transfer_shielded" /\ transfer_shielded(x.args) /\ Charged(x)
  \/ x.kind = "shielded_withdraw" /\ shielded_withdraw(x.args) /\ Charged(x)
  \/ /\ x.kind = "transfer_allow_death"
     /\ TransferFails(x) \/ TransferMoves(x) \/ TransferReaps(x)
     /\ UNCHANGED vars

\* An extrinsic that its extensions refuse leaves no trace.
apply_extrinsic(x) ==
  /\ used < BlockLimit
  /\ Applicable(x, State)
  /\ Dispatch(x)
  /\ used' = used + 1
  /\ executed' = Append(executed, [xt |-> x, life |-> life[x.signer]])
  /\ UNCHANGED headerVars

\* The block is built on the storage of genesis.
MutantOpen(h) ==
  /\ LET s == Opened(State, h)
     IN  number' = s.number /\ block_hash' = s.block_hash
  /\ used' = 0
  /\ events' = <<>> /\ commitments' = <<>> /\ nullifiers' = {}
  /\ UNCHANGED <<outcome, accepted, accountVars, executed>>

\* The header has its parent's number.
MutantSibling(h) ==
  /\ used' = 0
  /\ events' = <<>>
  /\ UNCHANGED <<commitments, nullifiers, outcome, accepted, accountVars, headerVars, executed>>

\* Executive::initialize_block on a header whose parent has hash h.
open_block(h) ==
  /\ LET s == Opened(State, h)
     IN  number' = s.number /\ block_hash' = s.block_hash
  /\ used' = 0
  /\ events' = <<>>
  /\ UNCHANGED <<commitments, nullifiers, outcome, accepted, accountVars, executed>>
-----------------------------------------------------------------------------
\* development_config_genesis: every keyring account is endowed alike.
RuntimeInit ==
  /\ Init
  /\ nonce = [a \in Accounts |-> 0]
  /\ balance = [a \in Accounts |-> Endowment]
  /\ life = [a \in Accounts |-> 0]
  /\ number = 0 /\ block_hash = <<>>
  /\ used = 0 /\ executed = <<>>

\* Any header may be presented; that its parent is the best block is the node's
\* business.
RuntimeNext ==
  \/ \E x \in Extrinsics : apply_extrinsic(x)
  \/ \E h \in Hashes : open_block(h)

RuntimeSpec == RuntimeInit /\ [][RuntimeNext]_runtimeVars
-----------------------------------------------------------------------------
(* Properties. *)

\* Accounts, headers and history keep their types, and the pool its own.
RuntimeTypeOK ==
  /\ TypeOK
  /\ nonce \in [Accounts -> Nat] /\ balance \in [Accounts -> Nat]
  /\ life \in [Accounts -> Nat]
  /\ number \in 0..LastBlock
  /\ block_hash \in Seq(Hashes) /\ Len(block_hash) = number
  /\ used \in 0..BlockLimit
  /\ executed \in Seq([xt : Extrinsics, life : Nat])

\* In one life of its signer an extrinsic is executed once, failed dispatches
\* included, and after those with smaller nonces (CheckNonce, lib.rs:97).
NoncesInOrder ==
  \A i, j \in DOMAIN executed :
    /\ i < j
    /\ executed[i].xt.signer = executed[j].xt.signer
    /\ executed[i].life = executed[j].life
    => executed[i].xt.nonce < executed[j].xt.nonce

\* Whatever is executed, fails or is refused, in whichever order: seen from the
\* pool, the runtime does what the pallet alone may do.
ImplementsPool == Spec
=============================================================================
