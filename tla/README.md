# A TLA+ model of Ignoto

This directory holds TLA+ specifications of the Ignoto repository, the TLC
configurations that check them on small instances and the TLAPS proofs of what
holds in general. `PROJECT.json` maps every definition to the lines it models.

## The system

A wallet builds a shielded transfer or a withdrawal, sends it to the **Ghost
Router**, which posts it through **Tor** to the **node**. The node authors blocks
and executes the extrinsics in the **runtime**, whose **Ignoto pallet** checks a
Groth16 proof made with the **transaction circuit** and updates the shielded
pool. The **exit bridge** follows the block headers of the node, reads the events
of each block and posts a payment, through Tor, for each withdrawal.

| Component | State | Operations | Talks to |
|---|---|---|---|
| Ignoto pallet (`core-rust/pallets/ignoto`) | commitments (one vector), nullifiers (map), events of the block | `transfer_shielded`, `shielded_withdraw` | circuit crate (verifier), runtime |
| Transaction circuit (`core-rust/circuits`) | the constraint system being synthesized | `synthesize`, `enforce_range_proof`, `verify_ignoto_proof`, setup/prove/verify session | bellman |
| Runtime (`core-rust/pallets/runtime`) | accounts, nonces, balances, block number | transaction extensions, fixed fee, block execution, runtime API | pallet, node |
| Node (`core-rust/node`) | transaction pool, chain, command channel (1024) | instant seal, manual seal timer, RPC | runtime, router, bridge |
| Ghost Router (`router-go`) | requests in flight, timers, shutdown | accept, decode, post, relay, shutdown | clients, Tor, node |
| Exit bridge (`bridge-python`) | announced heads, position in the block; nothing on disk | subscribe, read block, pay, exit | node, Tor, payment API |
| Client scripts (`client-node`) | none | sign on the best block, submit, print the bytes | router, node |
| Canary, Tor and compose files | none; the compose file starts the node with `--tmp` | | all |

Hard behaviours, and what makes each component correct:

* **Pallet.** A call writes three storage items and an event; nullifiers are
  compared as bytes but proved as scalars; the build without `std` has no
  verifier; the order of the public inputs is written down in three places.
  Correct: no note is spent twice, every execution was proved, storage and events
  tell the same history.
* **Circuit.** Arithmetic is modulo the field order; setup and prover run the same
  code on absent and present values. Correct: sound against every prover,
  complete for the code's prover, shape independent of the witness.
* **Bridge.** Payments take up to 30 s inside the header callback; the node, Tor and
  the API fail independently; a restart begins at the best block. Correct: posts
  follow the chain in order, nothing is invented or passed over, a failed proxy
  ends the process, duplicates are confined.
* **Router.** Three overlapping timeouts and a shutdown grace shorter than one of
  them. Correct: the answer of the node reaches the client with its status, no
  handler lives for ever, a clean exit cuts nobody off.
* **Runtime.** Extensions run before dispatch and are not rolled back with it; an
  account that falls below the minimum balance loses its nonce. Correct: nothing is
  executed twice, in order of nonces, IGTO leave as fees only, and the pool inside
  does what the pallet alone may do.
* **Node.** Timer, engine, transaction pool and RPC are tasks of their own; the channel
  between timer and engine is bounded and drops; transactions are validated on the
  best block and applied on the block under construction; the pool has limits, beyond
  which valid transactions go. Correct: a ready transaction is served, and none is
  dropped without a reason.
* **All together.** Answers get lost and bytes are sent again; the node forgets
  everything on restart while scripts, requests and bridge go on. Correct: sending
  again never executes twice, the bridge pays only for what was executed, and what
  was accepted is kept unless a later submission outbids it.

## Modules

| Module | Models |
|---|---|
| `NullifierLedger` | abstract ledger: a transfer consumes fresh notes and mints two, in one step |
| `ShieldedPool` | the pallet and its verifier |
| `MCShieldedPool` | instance: 4 byte strings, 3 field elements, two keys |
| `ShieldedPoolProofs` | theorems about the pallet |
| `TransactionCircuit` | synthesis of the circuit, one action per loop iteration, and the Groth16 session |
| `MCTransactionCircuit` | instance: field of 11, values of 2 bits |
| `TransactionCircuitProofs` | types, soundness, completeness and shape for every field and width |
| `ExitBridge`, `MCExitBridge` | the bridge with its node, websocket and API; instance of 3 blocks, 2 sessions |
| `ExitBridgeProofs` | theorems about the bridge, for every chain and number of sessions |
| `GhostRouter`, `MCGhostRouter` | the router with its clients, proxy and node; instance of 2 requests |
| `GhostRouterProofs` | theorems about the router, for any number of requests and all timeouts |
| `Runtime` | extensions, fees, nonces, balances, dispatch, block initialisation (extends `ShieldedPool`) |
| `RuntimeProofs` | theorems about the runtime, for every set of extrinsics and block size |
| `Node`, `MCNode` | one life of the node process (extends `Runtime`); instance of 3 accounts, 6 extrinsics, 3 blocks |
| `NodeProofs` | theorems about the node, for every channel, block size and consensus mode; sums over finite sets |
| `IgnotoSystem`, `MCIgnotoSystem` | scripts, node and bridge together (extends `Node`, instantiates `ExitBridge`); instance of 2 scripts, 2 chains |
| `IgnotoSystemProofs` | theorems about the composed system, for any number of scripts and chains |
| `PaymentProofs` | the theorem about what the bridge pays in the composed system |

### ShieldedPool

`commitments` and `nullifiers` are the storage items, `events` the pallet's events
of the block under construction, `outcome` the `DispatchResult` of the last call;
`accepted` is a history of executed transfers. Each call is one action with one
disjunct per way it returns, in the order of the code: origin, double-spend loop,
verifier, effects. `Build` selects the `cfg(feature = "std")` branch. A 32-byte
string is a number below `ByteRange`, a scalar a number below `Order`;
`from_repr` fails above the order. A proof *is* the statement it proves (key and
six inputs in the circuit's order); that a proof verifies for nothing else is the
cryptographic assumption. `initialize_block` (frame_system) clears events.
A failing call changes nothing: the code writes only after its last check.

The ledger records what each transfer consumed, so that a transfer of which one input
was already spent is no ledger step. The refinement is stated twice: over byte strings
(`ImplementsByteLedger`, all builds) and over field elements
(`ImplementsScalarLedger`, verifying build). The ledger does not require inputs to
have been minted, because the pallet never looks input commitments up, and it does
not require the two inputs to differ, because the pallet does not.

### TransactionCircuit

`wire`, `i`, `coeff` are the loop registers of `enforce_range_proof` (`coeff` is
doubled in the field at each iteration); `acc` is the value of
`sum(coeff * bit)` over the bits pushed so far, `sat` whether the assignment
satisfies all constraints enforced so far, `shape` the number of variables and
constraints. `StartSetup` uses the empty circuit, in which no closure is called;
`StartProof(w, p)` runs the code (`p = "code"`) or an arbitrary assignment of the
bit variables (`p = "any"`). A missing value ends synthesis with
`AssignmentMissing`. `Verify` accepts iff the constraints hold and the shape is the
one of the setup. The loop `for i in 0..bits` and its constants follow the code, with
`Bits` for 64. Blindings, output serials and commitments only appear in constraints
that always hold and are one field of the witness, `others`.

### ExitBridge

A process is a *session*. `heads` is the queue of announced block numbers, `block`
the block in `_block_handler`, `batch` its events, fetched once, `k` the loop position,
`reply` what the API will do with the request under way, `posts` the history of
requests. A payment is two steps, `SendPayment` and `PaymentReturns`, so that imports,
a lost link and a crash fall between them. `SkipBlock` is every path of
`_block_handler` that returns or is caught before the events are known. `Stop` is
`sys.exit(1)`: `SystemExit` is not an `Exception`, so neither `_process_event` nor
`_block_handler` stops it. `Crash` is a kill at any point. A new session may be told
the best block at once, or nothing; both are allowed. `SubstrateInterface` may open a
new websocket when a request finds the old one closed: `Reconnect`, after which the
link is `"deaf"`, without a subscription. Notices are assumed to come in order, once
each, as long as the subscription lives.

Two waits of the bridge need not end. The websocket is opened without a timeout
(`bridge.py:41`), so that `get_block_hash` and `get_events` (79, 82) block on a node that
neither answers nor closes: `Hang` makes the link `"mute"`, on which no block is read and none
is given up, until the link is lost. The `timeout=30` of a payment (16) is per read, so that
a reply that trickles may be `"endless"`, and `PaymentReturns` never comes. Notices that
are sent while the link is mute are left out: it is the same as a deaf one for them.

### GhostRouter

A request goes through `reading`, `dialing`, `waiting`, `receiving` and ends
`answered`, `lost` (the write deadline had passed), `gone` (the client left) or `cut`
(forced exit). A request may begin while the server drains, on a connection that was
accepted before the signal (`Accept`). `age` counts from the headers, as the write deadline of `net/http`
does. `Tick` advances time only when no timer is due (`ReadDue`, `PostDue`, end of
the grace period); what is due and what happens by itself at the same tick race.
`PostFails` is allowed at any time, which covers the cancellation of the request
context by `net/http` as well. Fail-close is structural: `Tunnel` is the only way to
the node, as the SOCKS5 dialer is the only dialer of the transport. `ErrorStatus` and
`Relayed` are the status mapping of the handler. `Sent` is what `core.Transaction` does
to an id: a number goes through a float64 (`Float`, round to nearest even: there are
`Significands`, 2^53 for a float64, and each power of two in `Spacings` that is a distance between
neighbours), null and a missing id are both left out.

### Runtime

`apply_extrinsic` is `Applicable`, the extensions of `TxExtension` that can refuse,
then `Dispatch`. An extrinsic is a record of what its bytes fix: signer, nonce, tip,
version, the block its era begins with (`birth`, and the `hash` that was signed),
the `period` of the era, and the call. The signature covers hashes that are not sent,
so a signature made on another chain or fork fails in `CheckSignature`. Calls of the
pallet are the actions of `ShieldedPool`, in the build of the WASM blob, and are
charged whether they succeed or fail; `transfer_allow_death` is modelled with its
three ends, the last of which removes the sender's account and with it its nonce
(`TransferReaps`). `life` counts such removals and `executed` what was dispatched: both
are history. Accounts that do not exist have balance and nonce 0. The weight of a
block is a number of extrinsics (`BlockLimit`); a reap always leaves nothing, the dust
being burned. The timestamp inherent, which has no signer and no fee, is left out.

### Node

The runtime's variables are the overlay of the block being built; `best` is what the
pool, the RPC and the scripts read. `mode` is the outcome of `from_str`. In manual
seal the timer puts commands into the channel (`TimerFires`), in instant seal the
pool's notifications do (`Notifications`); both are dropped when it is full.
`StartBlock` takes one command, opens a block and asks the pool for what is ready;
`PushExtrinsic` and `RefuseExtrinsic` are the proposer's loop; `SealBlock` ends it,
imports the block and prunes the pool in one step, for with one authoring task
nobody can tell them apart. Pool operations (`author_submitExtrinsic` with its
replacement rule, `Revalidate`) interleave with all of that. Where the SDK leaves a
choice (notifications of promoted transactions, the proposal's deadline, whether
instant seal skips a command with nothing ready), the model leaves it too. `silent`
records that a transaction became ready without a notification.

`main.rs:206` gives the pool the options of the command line, and with them limits for the
transactions that are ready and for those that wait for a nonce. `author_submitExtrinsic`
ends, as the SDK's import does, with their enforcement (`Enforced`): of the ready ones, the
lowest in priority go one at a time with what needs them, of those that wait as many as are
too many; the newcomer may be among them. `Priority` is that of `ChargeTransactionPayment`
(`runtime/src/lib.rs:102`): the tip plus one, times how often the extrinsic fits into a block
(`PerBlock`, by weight and length), so that of two with the same tip the shorter one takes the slot.
Four simplifications: a limit is a number of transactions, not of bytes; where the SDK
prefers the oldest (those that wait, and ties in priority) the model takes any; two that
wait for the same slot compete when the second arrives, in the SDK perhaps only when they become ready;
and a transaction that was turned out or removed is not banned for a while, so that the model may
import it again at once.

### IgnotoSystem

A script signs (`Signable`), sends, and hears of success or failure; a lost request and a
lost answer both are a failure to it. `signAsync` (`submit-tx.ts:68`) reads the nonce of the
best block and the header of the finalized one in two requests. With manual seal, which
the instance uses, blocks are finalized when they are sealed (`main.rs:357`); with instant seal the
header is that of an earlier block. So a signature combines the nonce that the signer has
or had on this chain (`NoncesRead`) with the header of any block of it. Reads on either side of a
restart are not combined: they are sent together, and what is pending when the websocket closes
fails. A submission is answered with a hash only if the pool keeps it, limits included (`Arrive`).
`displaced` is a history of what submissions have turned out of the pool. A script may be run
again after a failure, and the bytes that `submit-tx.ts` prints may be posted again after anything (`Repost`). All scripts sign as alice. `Restart` ends the
node's process at any point and begins a new chain (`incarnation`), `past` keeps what
the old one held; the scripts, their requests and the bridge are untouched except
that the websocket closes. The bridge reads the events the node's blocks have
(`Seen`). The bridge's own crashes and lost links are in its own run.

## Runs

| Run | Checks | Distinct states |
|---|---|---|
| `pool_std` | types, both double-spend guarantees at scalar level, proofs, history, events, honest transfers, scalar ledger | 661 |
| `pool_wasm_proof` | *violation*: a transfer executes without a proof | |
| `pool_two_inputs` | *violation*: one call spends one nullifier twice | |
| `circuit` | soundness, completeness, shape | about 210 000 |
| `circuit_nullifier` | *violation*: nullifiers are not tied to the note | |
| `bridge` | order, fail-close, no silent skip, duplicates, liveness | about 876 000 |
| `router` | prompt bodies answered, bounded handlers, clean exit, status, ids, liveness | about 297 000 |
| `node` | types and channel bound, order of nonces, IGTO, refinement of the pallet, byte-level reuse and byte ledger in the build that accepts every proof, nothing dropped without a reason, ready transactions served | 66 375 |
| `system` | resubmission and accepted transactions, over two chains | about 1 508 000 |
| `payments` | payments of the bridge, over two chains | about 443 000 |
| `router_abort` | *violation*: slow body plus slow Tor loses the answer | |
| `router_raw` | *violation*: under the node's status the client gets a success for an empty body, or an error for one that broke off | |

Bounds, and why they are enough:

* Pool: four byte strings with three field elements give one non-canonical name
  (3 names 0); proofs exist for overlapping and repeating nullifier pairs and for a
  second key; at most 3 transfers (2 in the run of the no_std build) and 3
  events per block, so that every pair of calls meets in both orders and events
  survive from one call to the next.
* Circuit: 3 is the largest two-bit value, 4 the smallest outside, 10 is -1 and
  wraps with 1; all 625 combinations, plus one absent assignment of each kind.
* Bridge: three blocks make a queue of two behind a block in progress; two sessions
  are one restart; blocks hold a transfer before a withdrawal, and a withdrawal
  between ignored events.
* Router: the timeouts have the proportions of the code (60/60/30/10 s: ticks of
  15 s in `router`, with the grace rounded up to one tick; ticks of 10 s in the
  violation runs); two requests, so that a shutdown finds one finished and one
  running. Significands of two bits put 5 between two floating-point numbers; the
  ids tried are 0, an exact one, an inexact one and none.
* Node: two extrinsics fit a block and six exist, so blocks fill up and leave some
  over; two of alice depend on each other, the second expires after block 2; two
  of bob compete for a slot; carol's first empties her account, which bob's may fund
  again. The channel holds two commands, so that it overflows. Amounts are small
  enough for transfers to fail, to move and to reap. Three blocks and one nullifier
  that two transfers share, the second of the one and the first of the other, let a block meet what an
  earlier one has spent, in either order: what is left of the double-spend check where proofs do not count. The
  pool holds three ready transactions and one that waits, so that both limits are
  met; a shielded transfer takes twice the share of a block that the other calls do.
* System: two chains with one extrinsic in a block, two scripts on one account.
  An extrinsic signed on block n is valid in blocks n + 1 and n + 2 (`Period` = 3). In `system` a
  chain has three blocks, so that bytes executed in one block are sent again within their era and only
  their nonce stops them (without `NotStale` the run fails), and an era passes within
  a chain as well; each script makes two requests; one ready transaction and one that waits
  fit the pool, so that the second script's arrival meets the limits. The bridge does not run there
  (`MaxSessions` = 0). In `payments` it does, in one session that sees both chains, of two blocks,
  with one request of each script. The bridge run has the restarts of the bridge.

`CHECK_DEADLOCK FALSE` is set for the bridge, the router, the node and the system: all
really stop (a stopped bridge nobody restarts; a server that has exited, or no client
left; a node whose consensus is `none`; scripts that have made their requests). The
pool always accepts another call, and the circuit another session.

Fairness: the bridge has weak fairness on its own steps only, since it is one thread
that goes on whenever it can; nothing restarts it. Its waits do not all end (see `Hang`), and
nothing is assumed that would end them: listening on a mute link, or waiting for an endless reply, the
bridge has no step. `HeadsAreHandled` therefore says that a notice is dealt with *unless* the bridge hangs in
one of these two waits for ever, or again and again: every other path of the handler, the
failures of RPC, proxy and API and the other timeouts included, does end.
The router has weak fairness on time, on timers that are due and on the return of
`Shutdown`, not on clients, proxy or node. The node has weak fairness on its timer and on
its engine, which are tasks of their own and never wait for one another: the timer
uses `try_send`, the engine runs on a blocking thread. Nobody has to submit anything.
`system` and `payments` state no liveness: nothing there is promised beyond what `node` and
`bridge` check. `ReadyIsServed` is about the finitely many extrinsics of the instance: an
endless supply of better paying ones could keep a transaction waiting, or turn it out, for as long as it lasts.

To repeat them: `tlc -config MCExitBridge.cfg MCExitBridge`, and likewise for the other
configurations; `tlapm NodeProofs.tla`, and likewise for the other
modules named `...Proofs`, for the proofs. Operators named `Mutant...` are single-mistake variants of the
definition that follows them; each property of a passing run fails under one of them
(`PROJECT.json`, "mutants").

## Disagreements found

* The no_std runtime accepts every proof (`pallets/ignoto/src/lib.rs:153-157`), while
  line 4 promises verification.
* A nullifier may appear twice in one call (`lib.rs:79`; line 66 speaks of two inputs).
* Nullifiers are not derived from the serial number (`circuits/src/lib.rs:41`, 94-104).
* The write deadline can expire before the outbound call does
  (`router-go/cmd/main.go:71`; `onion_configuration_report.md:42`).
* An empty body becomes `{"status":"success"}` (`http.go:57-60`; report line 41).
* A body that breaks off is answered with `{"error": ...}` under the node's status, 200 included
  (`tor_client.go:78`, `http.go:46-50`; report line 41). `StatusIsEarned` allows it, the status being the
  node's; `RawRelay` does not. Its run may stop at either of the last two, which are equally deep.

A smaller one has no run of its own: the range proof accepts 0 where
`circuits/src/lib.rs:18` says positive. Three limits of
what the properties promise are worth knowing: ids above 2^53 come back rounded
(`IdsAreEchoed` is about the others); bytes signed on the genesis block are valid
once in *every* chain of a node started with `--tmp` (`ResubmissionIsSafe` excepts them);
and a shutdown that fails may cut a request off after the node has accepted its transaction
(`GracefulExitDrains` only says that it then exits with an error), after which the client may send the bytes again
without harm.

## Proofs

TLAPS checks, for all values of the constants that satisfy the named assumptions:

* `ShieldedPoolProofs` (from `PoolAssumption`: typed calls, proofs and keys,
  `Order <= ByteRange`): `TypeCorrect`; `NullifiersUsedOnce` in both builds;
  `TransfersAreProven` and `DoubleSpendFree` in the verifying build; the two
  refinements of the ledger, `RefinesByteLedger` in both builds and
  `RefinesScalarLedger` in the verifying one. The inductive invariant `PoolInv` adds `AllRecorded` (the map
  holds every nullifier of the history), without which the guard of the code says
  nothing about earlier transfers, and `OnlyProvenTransfers`, from which
  `ProvenIsCanonical` derives that executed nullifiers are canonical scalars: this
  is what lifts reuse of bytes to reuse of field elements. `StorageMatchesHistory` and
  `HonestTransfersVerify` hold in both builds. `EventsAreTransfers` counts:
  the `Transferred` events of the block are the last entries of the history, and the rank of an
  event among them (`Cardinality`) moves neither when a withdrawal is reported nor
  when another transfer is.
* `TransactionCircuitProofs` (from `CircuitAssumption` and `FieldIsIntegral`, the
  absence of zero divisors): `TypeCorrect` and `CircuitIsSound`. Soundness says
  nothing about a session under way; `LoopInv` does: while the constraints hold,
  the partial sum is below `Weight[i]` and `coeff = Weight[i]`, so nothing is reduced
  modulo the order (`BitStep`). `NoWraparound` turns the balance modulo the order
  into a balance of integers, which needs `2 * 2^Bits <= Order` (for 64 bits and
  BLS12-381, by far). `ShapesAgree` needs `ShapeInv`, the number of variables and
  constraints as a function of wire and bit alone; `CircuitIsComplete` needs
  `CompleteInv`: for the code's prover the partial sum is the value modulo `Weight[i]`
  (`HonestBit`), so that after the last bit it is the value itself.

* `RuntimeProofs` (from `RuntimeAssumption`: the build is the WASM one, extrinsics are
  typed and signed, the endowment covers the minimum balance): `RefinesPool`, every
  step of the runtime is a step of the pallet or none, from which
  `RuntimeNullifiersUsedOnce` follows by citing the pallet's theorem;
  `RuntimeTypeCorrect`; and `RuntimeNoncesInOrder`. The last one needs `UsedUp`: what was
  executed belongs to an earlier life of its signer, or has a nonce below the
  signer's present one. `FeeIsCovered` and `MovesNumbers` keep balances from
  going below zero, `AccountStep` says how each extrinsic leaves its signer.
* `NodeProofs` (adding `NodeAssumption`): `NodeRefinesRuntime`, one life of the node is a
  behaviour of the runtime, which carries the runtime's theorems over
  (`NodeNoncesInOrder`, `NodeImplementsPool`); `NodeTypeCorrect`; and `NodeNeverDrops`, for all limits of
  the pool: a transaction leaves it for its slot in the block, its validity, its own account,
  or because a submission turns it out, and then it was outbid in its slot or the pool was beyond a limit
  and it waited, or hung on one that no ready transaction left underbids (`TurnedOut`). That no block, refusal or
  revalidation takes a valid transaction for what others did is the part that needs an invariant; that
  the limits take no other transaction than these is `SubmissionTurnsOut`. The
  inductive invariant `ProposalInv` describes a block under construction: its header is
  the one the pool validates for, accounts without an extrinsic in the block
  are as in the best block or richer, and what is offered of such an account has
  no gap in its nonces. Hence (`RefusalHasReason`) an offered extrinsic is refused only if
  its own account was changed in the same block.
* `ExitBridgeProofs` (from `BridgeAssumption`): `BridgeTypeCorrect`, `PaymentsInOrder`,
  `BridgeFailsClosed`, `NothingPassedOver` and `RestartsRepeatOneBlock`. The invariant
  `Running` says there is a frontier `f`, the first block not taken from the queue,
  such that the queue holds `f, f + 1, ...` up to the head of the chain while the link is up
  (`Queue`), the requests of the session lie before it and before the cursor (`Behind`),
  and every payable event passed is paid for (`Done`). `Sent` relates sessions: what
  was paid before a session started is not past its first block, and what it pays itself
  is not before it.

* `GhostRouterProofs` (from `RouterAssumption`: the timeouts are numbers): `RouterTypeCorrect`,
  `PromptBodyAnswered`, `HandlersBounded`, `GracefulExit`, `StatusEarned` and `IdsEchoed`, for any
  number of requests and any timeouts. The inductive invariant `RouterInv` describes each
  request on its own (`Good`) and the server (`ServerGood`). Time enters through
  `InTime`: while a body is read, `age <= Read`, and while the node is asked,
  `age <= decoded + Client`; a tick keeps both because it does not happen while a timer
  is due. `SmallNumbersAreExact` shows of the rounding to a float64 that it changes
  no number up to `Significands`.
* `NodeProofs` also has `NodeSupply`, from `MinimumBalance = 1`, the existential deposit
  of pallet_balances' `TestDefaultConfig` (`lib.rs:161`): with a larger one a removed
  account may leave dust, which the model burns. The sums are folds over
  finite sets; the module's section on sums proves what is needed of them by unfolding the recursion over the
  subsets of the set (well-founded, since the set is finite): the empty sum, what a sum
  becomes when one term changes (`SumChange`) and when one is added (`SumNext`).
* `IgnotoSystemProofs` (adding `SystemAssumption`): every step of scripts, bridge and node that
  is not a restart is a step of the runtime or none, so the runtime's invariants carry
  over to each chain (`SystemNoncesInOrder`). `ResubmissionSafe` adds `SignInv` (the hashes
  that a chain stores, and those that its extrinsics signed, name that chain) and `PastInv`
  (so they did on the chains that are gone): two chains can only share what was signed on
  the genesis block. `AcceptedKept` adds `QueueInv` and `ToldInv`: nonces below an account's are all
  used up (`Filled`), what is offered to a block continues its signer's nonce without a
  gap (`OfferContinues`), whatever becomes of the pool meanwhile, and an extrinsic the script was told of is
  timely, and waits, was turned out by a later submission, is executed or is expired (`Promise`). On the way it turns out that the proposer never
  refuses an extrinsic of these scripts (`NothingOfferedIsRefused`), although `Node` alone
  allows it.

  Two hypotheses on what the scripts send: a removed account would lose its nonce and its
  slots could be filled again, so `ResubmissionSafe` assumes `NoTransfers` (true of
  `submit-tx.ts`, `trigger-e2e.ts` and `exit-client.ts`) or `Funded`; the others assume
  `Funded`: no chain is long enough for its extrinsics to use an endowment up
  (each costs 1, `transfer-balance.ts` 12 346, of 1 000 000: `lib.rs:37`). `MCIgnotoSystem` asserts
  that the instance TLC checks is funded.

* `PaymentProofs` has `PaymentsExecuted`, without a hypothesis on the scripts: for every
  payload `p`, `PaidFor(p)` is inductive. It says that (a) the events of the block under
  construction that pay `p` are no more than the withdrawals of `p` the block has dispatched
  (`BlockPays`), (b) the events on the chain that pay `p` are no more than what the chain
  earned, and (c) what the running session has paid, plus what the rest of the block it reads
  would pay, plus what the announced blocks would pay, stays within what all chains
  earned (`Bounded`). Sending moves one unit from the second term to the first, reading a
  block from the third to the second, an imported block adds to the third no
  more than it earned, and a restart of the node empties the third, because the queued
  numbers no longer name a block. `BridgeTyped` is needed for the third term: the numbers in the
  queue differ, and while the subscription lives they name blocks of the present chain, so that no
  block is counted for two notices.

Only model-checked: liveness (`ReadyIsServed`, `RequestsEnd`, `HeadsAreHandled`), since TLAPS
does not reason about fairness and ENABLED. Every invariant and action property of the
passing runs is also a theorem. `Weight` is a constant function characterised by an assumption, not a
recursive definition, because what a recursive definition computes for every input
would need induction over data.

## Plan

1. What a session of the bridge misses across a restart of the node: the bridge run has restarts
   of the bridge, `IgnotoSystem` those of the node, no run has both. The order of the payments
   and fail-close, proved of `ExitBridge`, can then be stated of the composed system too.

## Not modelled

Curve arithmetic and Groth16 themselves (assumed); the size of the commitments vector
(the code has no bound); the legitimacy of a verifying key and membership of input
commitments (the code checks neither); the maintenance subcommands of the node's command
line (they run instead of the node); networking, offchain workers and telemetry (a
development node has no peers); timestamps and other inherents, metadata and session
keys; `none` spelled with capitals, which `from_str` accepts, and other ways to write an
option; the canary, and the texts of the container and Tor files; the `/health` endpoint
and a failing `ListenAndServe` of the router, which touch no other state. FRAME's
pallets, the transaction pool, the proposer and the seal engines come from the SDK,
which is not in the repository: they are modelled as the code configures and uses
them, and marked external in `PROJECT.json`.
