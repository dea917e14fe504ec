-------------------------------- MODULE Node --------------------------------
(***************************************************************************)
(* The node (core-rust/node/src/main.rs) in one life of its process: RPC   *)
(* submissions enter the transaction pool, a timer (manual seal) or the    *)
(* pool's notifications (instant seal) put commands into a channel, and    *)
(* one engine task takes a command at a time and authors a block.          *)
(*                                                                         *)
(* The runtime's variables are the overlay of the block under              *)
(* construction; what everybody else reads is best.  The engine, proposer  *)
(* and transaction pool are the SDK's, modelled as main.rs assembles them. *)
(***************************************************************************)
EXTENDS Runtime, FiniteSetsExt

CONSTANTS
  Option,           \* the values of --consensus tried
  Buffer,           \* size of the command channel (1024), besides the sender's slot
  ReadyLimit,       \* transactions the pool keeps: that are ready,
  FutureLimit,      \* and that wait for a smaller nonce
  PerBlock          \* how many extrinsics of a kind fit a block, by weight and length

\* No forks: a block is identified by its chain and its number.  Every chain has
\* the genesis block of the development specification.
BlockHash(c, n) == <<IF n = 0 THEN 0 ELSE c, n>>

ASSUME NodeAssumption ==
  /\ Buffer \in Nat /\ ReadyLimit \in Nat /\ FutureLimit \in Nat
  /\ \A x \in Extrinsics : PerBlock[x.kind] \in Nat \ {0}
  /\ Option \subseteq {"instant-seal", "manual-seal-3000", "none"}
  /\ \A n \in 0..LastBlock : BlockHash(1, n) \in Hashes

VARIABLES
  mode,             \* cli::Consensus
  txpool,           \* the transaction pool, ready and future
  commands,         \* SealNewBlock commands waiting in the channel
  engine,           \* "idle" or "proposing"
  offer,            \* the ready transactions left of the proposer's iterator
  best,             \* State at the best block
  silent,           \* history: a transaction became ready without notification
  incarnation       \* which chain this is: a node without database starts a new one

poolVars == <<txpool, commands, silent>>
process == <<mode, incarnation>>
nodeVars == <<runtimeVars, process, poolVars, engine, offer, best>>

Capacity == Buffer + 1

HashOf(n) == BlockHash(incarnation, n)
-----------------------------------------------------------------------------
(* The transaction pool. *)

\* The state in which the pool validates: the next block, on top of the best.
Upcoming == Opened(best, HashOf(best.number))

SameSlot(x, y) == x.signer = y.signer /\ x.nonce = y.nonce

ReadyIn(pool) ==
  LET next == Upcoming
      valid == {x \in pool : Acceptable(x, next)}
  IN  {x \in valid : \A n \in best.nonce[x.signer] .. x.nonce - 1 :
                       \E y \in valid : y.signer = x.signer /\ y.nonce = n}

Rivals(x) == {y \in txpool : SameSlot(x, y)}

\* Import notifications are buffered like commands; one too many is dropped.
Notify(n) == commands' = Min({commands + n, Capacity})

\* The pool reports the transaction it imports as ready; whether it also reports
\* those that its arrival makes ready is the pool implementation's choice.
Notifications(x, before, after) ==
  LET promoted == after \ (before \cup {x})
      own == Cardinality(after \cap {x})
  IN  IF mode = "instant"
      THEN \E told \in {0, Cardinality(promoted)} :
             /\ Notify(own + told)
             /\ silent' = (silent \/ told < Cardinality(promoted)
                                  \/ commands + own + told > Capacity)
      ELSE UNCHANGED <<commands, silent>>

\* ChargeTransactionPayment prefers what pays more for its share of a block.
Priority(x) == (x.tip + 1) * PerBlock[x.kind]

\* A transaction that is invalid, known, or no better than the one that holds its
\* slot is turned down.
Importable(x) ==
  /\ x \notin txpool /\ Acceptable(x, Upcoming)
  /\ \A y \in Rivals(x) : Priority(y) < Priority(x)

Joined(x) == (txpool \ Rivals(x)) \cup {x}

\* The ready transactions left when those above the limit are gone: one of the
\* lowest priority at a time, with those of its account that need it.
ReadyKept(ready) ==
  LET Needing(w) == {y \in ready : y.signer = w.signer /\ y.nonce >= w.nonce}
  IN  {kept \in SUBSET ready :
         /\ Cardinality(kept) <= ReadyLimit
         /\ kept # ready => \E last \in ready \ kept :
              /\ Cardinality(kept \cup Needing(last)) > ReadyLimit
              /\ \A y \in kept : Priority(last) <= Priority(y)
              /\ \A x \in ready \ kept : \E w \in ready \ kept :
                   x \in Needing(w) /\ Priority(w) <= Priority(last)
              /\ \A w \in ready \ kept : Needing(w) \cap kept = {}}

\* Of those that wait, as many as fit: the SDK gives up the oldest, the model any.
FutureKept(future) ==
  {kept \in SUBSET future : Cardinality(kept) = Min({FutureLimit, Cardinality(future)})}

\* enforce_limits, after each import; the newcomer may be the one that goes.
Enforced(pool) ==
  LET ready == ReadyIn(pool)
  IN  {kept \in SUBSET pool :
         kept \cap ready \in ReadyKept(ready) /\ kept \ ready \in FutureKept(pool \ ready)}

author_submitExtrinsic(x) ==
  /\ Importable(x)
  /\ txpool' \in Enforced(Joined(x))
  /\ Notifications(x, ReadyIn(txpool), ReadyIn(Joined(x)))
  /\ UNCHANGED <<runtimeVars, process, engine, offer, best>>

\* The pool revalidates in the background.
Revalidate(x) ==
  /\ x \in txpool /\ ~Acceptable(x, Upcoming)
  /\ txpool' = txpool \ {x}
  /\ UNCHANGED <<runtimeVars, process, commands, silent, engine, offer, best>>
-----------------------------------------------------------------------------
(* Seal commands. *)

\* The channel has no limit.
MutantTrySend(n) == n + 1

\* A full channel is logged and the command is gone.
TrySend(n) == IF n < Capacity THEN n + 1 ELSE n

\* Delay, then try_send, for ever.
TimerFires ==
  /\ mode = "manual"
  /\ commands' = TrySend(commands)
  /\ UNCHANGED <<runtimeVars, process, txpool, silent, engine, offer, best>>

Take(n) == n - 1

\* The proposer has a transaction pool of its own.
MutantProposable == {}

\* The proposer is given the pool that the RPC fills.
Proposable == ReadyIn(txpool)

\* The engine opens a block on the best one and asks the pool for what is ready.
StartBlock ==
  /\ engine = "idle" /\ commands > 0
  /\ commands' = Take(commands)
  /\ open_block(HashOf(number))
  /\ engine' = "proposing" /\ offer' = Proposable
  /\ UNCHANGED <<process, txpool, silent, best>>

\* Instant seal may pass over a command that finds nothing ready; manual seal
\* has create_empty set.
SkipEmpty ==
  /\ engine = "idle" /\ commands > 0
  /\ mode = "instant" /\ ReadyIn(txpool) = {}
  /\ commands' = Take(commands)
  /\ UNCHANGED <<runtimeVars, process, txpool, silent, engine, offer, best>>

\* The iterator yields the transactions of an account by nonce.
Offered(x) ==
  /\ engine = "proposing" /\ x \in offer /\ used < BlockLimit
  /\ \A y \in offer : y.signer = x.signer => y.nonce >= x.nonce

PushExtrinsic(x) ==
  /\ Offered(x)
  /\ apply_extrinsic(x)
  /\ offer' = offer \ {x}
  /\ UNCHANGED <<process, poolVars, engine, best>>

\* x and the ready transactions that need it.
Dependents(x) == {y \in ReadyIn(txpool) : y.signer = x.signer /\ y.nonce >= x.nonce}

\* Refused by the extensions: what depends on it is passed over, and the pool
\* removes both.
RefuseExtrinsic(x) ==
  /\ Offered(x) /\ ~Applicable(x, State)
  /\ offer' = {y \in offer : y.signer # x.signer}
  /\ txpool' = IF x \in txpool THEN txpool \ Dependents(x) ELSE txpool
  /\ UNCHANGED <<runtimeVars, process, commands, silent, engine, best>>

InBlock == {executed[i].xt : i \in Len(executed) - used + 1 .. Len(executed)}

\* Import prunes the slots the block has filled.
Prune == {x \in txpool : \A y \in InBlock : ~SameSlot(x, y)}

\* The block is full, nothing is left, or the proposal's deadline has passed
\* (it is first looked at after one transaction); the block is imported.
SealBlock ==
  /\ engine = "proposing"
  /\ used > 0 \/ offer = {}
  /\ UNCHANGED <<runtimeVars, process, commands>>
  /\ engine' = "idle" /\ offer' = {} /\ best' = State
  /\ txpool' = Prune
  /\ silent' = (silent \/ (mode = "instant" /\ ~(ReadyIn(txpool)' \subseteq ReadyIn(txpool))))
-----------------------------------------------------------------------------
from_str(s) ==
  CASE s = "instant-seal"     -> "instant"
    [] s = "manual-seal-3000" -> "manual"
    [] s = "none"             -> "none"

NodeInit ==
  /\ RuntimeInit
  /\ \E s \in Option : mode = from_str(s)
  /\ txpool = {} /\ commands = 0 /\ engine = "idle" /\ offer = {}
  /\ best = State /\ silent = FALSE /\ incarnation = 1

EngineStep ==
  \/ StartBlock \/ SkipEmpty \/ SealBlock
  \/ \E x \in Extrinsics : PushExtrinsic(x) \/ RefuseExtrinsic(x)

NodeNext ==
  \/ \E x \in Extrinsics : author_submitExtrinsic(x) \/ Revalidate(x)
  \/ TimerFires \/ EngineStep

\* The timer and the engine are tasks that never block on each other; nobody has
\* to submit anything.
NodeSpec == NodeInit /\ [][NodeNext]_nodeVars
            /\ WF_nodeVars(TimerFires) /\ WF_nodeVars(EngineStep)
-----------------------------------------------------------------------------
(* Properties. *)

\* The runtime's types, the channel within its capacity; between blocks, the
\* state is that of the best block.
NodeTypeOK ==
  /\ RuntimeTypeOK
  /\ mode \in {"instant", "manual", "none"}
  /\ txpool \subseteq Extrinsics /\ offer \subseteq Extrinsics
  /\ commands \in 0..Capacity
  /\ engine \in {"idle", "proposing"} /\ silent \in BOOLEAN
  /\ incarnation \in Nat
  /\ engine = "idle" => best = State

Total(f) == MapThenSumSet(LAMBDA a : f[a], DOMAIN f)
FeesPaid == [i \in DOMAIN executed |-> Fee(executed[i].xt)]

\* IGTO leave the accounts as fees only, one and the tip for each extrinsic that
\* was executed, whether its call succeeded or failed.
SupplyShrinksByFees ==
  Total(balance) + Total(FeesPaid) = Endowment * Cardinality(Accounts)

\* The submission of z turns x out: z is the better of two for one slot, or the
\* pool is beyond a limit, and x waits, or goes with one of its account that none
\* of the ready ones left underbids.
TurnedOut(x, z) ==
  LET ready == ReadyIn(Joined(z))
  IN  \/ SameSlot(x, z) /\ Priority(x) < Priority(z)
      \/ x \notin ready /\ Cardinality(Joined(z) \ ready) > FutureLimit
      \/ /\ Cardinality(ready) > ReadyLimit
         /\ \E w \in ready \ txpool' :
              /\ w.signer = x.signer /\ w.nonce <= x.nonce
              /\ \A y \in ready \cap txpool' : Priority(w) <= Priority(y)

\* A transaction leaves the pool because its slot is executed in the block, because
\* it is no longer valid, because its own account changed in the block under
\* construction, or because a submission turns it out.  No block, revalidation or
\* refusal costs an account a valid transaction for what other accounts did.
Touched(x) == \E y \in InBlock : y.signer = x.signer
NeverDropped ==
  [][\A x \in txpool \ txpool' :
       \/ \E y \in InBlock : SameSlot(x, y)
       \/ ~Acceptable(x, Upcoming)
       \/ Touched(x)
       \/ /\ UNCHANGED <<runtimeVars, engine, offer, best>>
          /\ \E z \in Extrinsics :
               Importable(z) /\ txpool' \subseteq Joined(z) /\ TurnedOut(x, z)]_nodeVars

\* With a sealing engine, whatever becomes ready is executed, loses its slot or
\* turns invalid, however full the channel and the blocks are; instant seal
\* guarantees that only while every ready transaction was notified.
ReadyIsServed ==
  \A x \in Extrinsics :
    (x \in ReadyIn(txpool) /\ mode # "none") ~> (x \notin ReadyIn(txpool) \/ silent)
=============================================================================
