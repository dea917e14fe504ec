----------------------------- MODULE NodeProofs -----------------------------
(***************************************************************************)
(* Proofs about the node for every set of extrinsics, channel size, block  *)
(* size and consensus mode: within one life of the process the node is the *)
(* runtime under some schedule, its channel and its best block keep their  *)
(* types, and the transaction pool drops nothing without a reason.         *)
(***************************************************************************)
EXTENDS Node, RuntimeProofs, FiniteSetTheorems

ProcessOK == incarnation = 1 /\ mode \in {"instant", "manual", "none"}

\* Nobody but the engine executes anything, and the hash it opens a block with is
\* a hash.
LEMMA NodeStepIsRuntimeStep ==
  ASSUME ProcessOK, RuntimeTypes, [NodeNext]_nodeVars
  PROVE  [RuntimeNext]_runtimeVars
<1>1. CASE StartBlock
  <2>1. HashOf(number) \in Hashes
    BY NodeAssumption DEF ProcessOK, RuntimeTypes, HeadersOK, HashOf
  <2> QED BY <1>1, <2>1 DEF StartBlock, RuntimeNext
<1>2. ASSUME NEW x \in Extrinsics, PushExtrinsic(x)
      PROVE  RuntimeNext
  BY <1>2 DEF PushExtrinsic, RuntimeNext
<1>3. ASSUME NEW x \in Extrinsics,
             author_submitExtrinsic(x) \/ Revalidate(x) \/ RefuseExtrinsic(x)
      PROVE  UNCHANGED runtimeVars
  BY <1>3 DEF author_submitExtrinsic, Revalidate, RefuseExtrinsic
<1>4. CASE TimerFires \/ SkipEmpty \/ SealBlock
  BY <1>4 DEF TimerFires, SkipEmpty, SealBlock
<1>5. CASE UNCHANGED nodeVars
  BY <1>5 DEF nodeVars
<1> QED BY <1>1, <1>2, <1>3, <1>4, <1>5 DEF NodeNext, EngineStep

\* Mode and incarnation are those the process was started with.
LEMMA ProcessKeeps ==
  ASSUME ProcessOK, [NodeNext]_nodeVars
  PROVE  ProcessOK'
<1>1. UNCHANGED process
  BY DEF NodeNext, EngineStep, nodeVars, author_submitExtrinsic, Revalidate, TimerFires,
         StartBlock, SkipEmpty, SealBlock, PushExtrinsic, RefuseExtrinsic
<1> QED BY <1>1 DEF process, ProcessOK

\* The runtime inside the node keeps its types.
LEMMA NodeBase ==
  /\ NodeInit => ProcessOK /\ RuntimeTypes
  /\ ProcessOK /\ RuntimeTypes /\ [NodeNext]_nodeVars => ProcessOK' /\ RuntimeTypes'
<1>1. NodeInit => ProcessOK
  BY NodeAssumption DEF NodeInit, ProcessOK, from_str
<1>2. NodeInit => RuntimeTypes
  BY TypesInductive DEF NodeInit
<1>3. ProcessOK /\ RuntimeTypes /\ [NodeNext]_nodeVars => ProcessOK' /\ RuntimeTypes'
  BY NodeStepIsRuntimeStep, ProcessKeeps, TypesInductive
<1> QED BY <1>1, <1>2, <1>3

\* Timers, notifications and the transaction pool only choose what the runtime
\* does next: every life of the node is a behaviour of the runtime.
THEOREM NodeRefinesRuntime == NodeSpec => RuntimeSpec
<1>1. NodeSpec => [](ProcessOK /\ RuntimeTypes)
  BY NodeBase, PTL DEF NodeSpec
<1>2. NodeInit => RuntimeInit
  BY DEF NodeInit
<1>3. ProcessOK /\ RuntimeTypes /\ [NodeNext]_nodeVars => [RuntimeNext]_runtimeVars
  BY NodeStepIsRuntimeStep
<1> QED BY <1>1, <1>2, <1>3, PTL DEF NodeSpec, RuntimeSpec

\* What the node executes, in whichever mode, is executed once and in the order
\* of its signer's nonces.
THEOREM NodeNoncesInOrder == NodeSpec => []NoncesInOrder
BY NodeRefinesRuntime, RuntimeNoncesInOrder, PTL

\* The pool inside the node only takes the steps of the pallet.
THEOREM NodeImplementsPool == NodeSpec => ImplementsPool
BY NodeRefinesRuntime, RefinesPool, PTL
-----------------------------------------------------------------------------
States == [nonce : [Accounts -> Nat], balance : [Accounts -> Nat],
           number : 0..LastBlock, block_hash : Seq(Hashes)]

ChannelOK == commands \in 0..Capacity /\ silent \in BOOLEAN
TxPoolOK == txpool \subseteq Extrinsics /\ IsFiniteSet(txpool)
EngineOK ==
  /\ engine \in {"idle", "proposing"} /\ offer \subseteq Extrinsics
  /\ best \in States
  /\ engine = "idle" => best = State

NodeTypes == ProcessOK /\ RuntimeTypes /\ ChannelOK /\ TxPoolOK /\ EngineOK

\* The state that a best block has.
LEMMA StateTyped == RuntimeTypes => State \in States
BY DEF RuntimeTypes, AccountsOK, HeadersOK, State, States

\* What is ready is in the pool.
LEMMA ReadyAreInPool == \A pool : ReadyIn(pool) \subseteq pool
BY DEF ReadyIn

\* A command fits, or takes the last place.
LEMMA NotifyKeeps ==
  ASSUME ChannelOK, NEW n \in Nat, Notify(n)
  PROVE  commands' \in 0..Capacity
<1> DEFINE S == {commands + n, Capacity}
<1>1. commands \in Nat /\ Capacity \in Nat
  BY NodeAssumption DEF ChannelOK, Capacity
<1>2. \E m \in S : \A y \in S : m <= y
  BY <1>1
<1>3. Min(S) \in S /\ Min(S) <= Capacity
  BY <1>2 DEF Min
<1>4. commands' = Min(S)
  BY DEF Notify
<1> QED BY <1>1, <1>3, <1>4

\* The limits only take away: from what is ready, from what waits, and so from both.
LEMMA LimitsOnlyDrop ==
  ASSUME NEW pool, NEW kept \in Enforced(pool)
  PROVE  /\ kept \subseteq pool
         /\ kept \cap ReadyIn(pool) \in ReadyKept(ReadyIn(pool))
         /\ kept \ ReadyIn(pool) \in FutureKept(pool \ ReadyIn(pool))
BY DEF Enforced

\* The pool with a newcomer in it is finite.
LEMMA JoinedIsPool ==
  ASSUME TxPoolOK, NEW x \in Extrinsics
  PROVE  Joined(x) \subseteq Extrinsics /\ IsFiniteSet(Joined(x))
<1>1. IsFiniteSet(txpool \ Rivals(x))
  BY FS_Difference DEF TxPoolOK
<1> QED BY <1>1, FS_AddElement DEF Joined, TxPoolOK

\* A submission keeps channel and pool within their types.
LEMMA SubmitKeeps ==
  ASSUME NodeTypes, NEW x \in Extrinsics, author_submitExtrinsic(x)
  PROVE  ChannelOK' /\ TxPoolOK'
<1>1. txpool' \subseteq Joined(x)
  BY LimitsOnlyDrop DEF author_submitExtrinsic
<1>2. Joined(x) \subseteq Extrinsics /\ IsFiniteSet(Joined(x))
  BY JoinedIsPool DEF NodeTypes
<1>3. TxPoolOK'
  BY <1>1, <1>2, FS_Subset DEF TxPoolOK
<1>4. CASE mode = "instant"
  <2> DEFINE after == ReadyIn(Joined(x))
             promoted == after \ (ReadyIn(txpool) \cup {x})
             own == Cardinality(after \cap {x})
  <2>1. IsFiniteSet(after)
    BY <1>2, ReadyAreInPool, FS_Subset
  <2>2. Cardinality(promoted) \in Nat /\ own \in Nat
    BY <2>1, FS_Difference, FS_Intersection, FS_CardinalityType
  <2> HIDE DEF promoted, own
  <2>3. PICK told \in {0, Cardinality(promoted)} :
          /\ Notify(own + told)
          /\ silent' = (silent \/ told < Cardinality(promoted)
                               \/ commands + own + told > Capacity)
    BY <1>4 DEF author_submitExtrinsic, Notifications, promoted, own
  <2>4. own + told \in Nat
    BY <2>2, <2>3
  <2>5. commands' \in 0..Capacity
    BY <2>3, <2>4, NotifyKeeps DEF NodeTypes
  <2>6. silent' \in BOOLEAN
    BY <2>3
  <2> QED BY <1>3, <2>5, <2>6 DEF ChannelOK, Capacity
<1>5. CASE mode # "instant"
  <2>1. UNCHANGED <<commands, silent>>
    BY <1>5 DEF author_submitExtrinsic, Notifications
  <2> QED BY <1>3, <2>1 DEF NodeTypes, ChannelOK, Capacity
<1> QED BY <1>4, <1>5

\* Taking a command leaves the channel within its bounds.
LEMMA TakeKeeps ==
  ASSUME ChannelOK, commands > 0
  PROVE  Take(commands) \in 0..Capacity
BY NodeAssumption DEF ChannelOK, Capacity, Take

\* So does the engine.
LEMMA EngineKeeps ==
  ASSUME NodeTypes, EngineStep, RuntimeTypes'
  PROVE  ChannelOK' /\ TxPoolOK' /\ EngineOK'
<1> USE DEF NodeTypes
<1>1. CASE StartBlock
  <2>1. ReadyIn(txpool) \subseteq Extrinsics
    BY ReadyAreInPool DEF TxPoolOK
  <2>2. ChannelOK'
    BY <1>1, TakeKeeps DEF StartBlock, ChannelOK, Capacity
  <2>3. TxPoolOK'
    BY <1>1 DEF StartBlock, TxPoolOK
  <2>4. EngineOK'
    BY <1>1, <2>1 DEF StartBlock, Proposable, EngineOK, States
  <2> QED BY <2>2, <2>3, <2>4
<1>2. CASE SkipEmpty
  <2>1. ChannelOK'
    BY <1>2, TakeKeeps DEF SkipEmpty, ChannelOK, Capacity
  <2>2. TxPoolOK'
    BY <1>2 DEF SkipEmpty, TxPoolOK
  <2>3. EngineOK'
    BY <1>2 DEF SkipEmpty, EngineOK, State, States, runtimeVars, accountVars, headerVars
  <2> QED BY <2>1, <2>2, <2>3
<1>3. CASE SealBlock
  <2>1. UNCHANGED commands /\ silent' \in BOOLEAN
    BY <1>3 DEF SealBlock, ChannelOK
  <2>2. txpool' \subseteq txpool
    BY <1>3 DEF SealBlock, Prune
  <2>3. TxPoolOK'
    BY <2>2, FS_Subset DEF TxPoolOK
  <2>4. State' = State
    BY <1>3 DEF SealBlock, State, runtimeVars, accountVars, headerVars
  <2>5. EngineOK'
    BY <1>3, <2>4, StateTyped DEF SealBlock, EngineOK, States
  <2> QED BY <2>1, <2>3, <2>5 DEF ChannelOK, Capacity
<1>4. ASSUME NEW x \in Extrinsics, PushExtrinsic(x)
      PROVE  ChannelOK' /\ TxPoolOK' /\ EngineOK'
  <2>1. ChannelOK' /\ TxPoolOK'
    BY <1>4 DEF PushExtrinsic, poolVars, ChannelOK, TxPoolOK, Capacity
  <2>2. EngineOK'
    BY <1>4 DEF PushExtrinsic, Offered, EngineOK, States
  <2> QED BY <2>1, <2>2
<1>5. ASSUME NEW x \in Extrinsics, RefuseExtrinsic(x)
      PROVE  ChannelOK' /\ TxPoolOK' /\ EngineOK'
  <2>1. ChannelOK'
    BY <1>5 DEF RefuseExtrinsic, ChannelOK, Capacity
  <2>2. txpool' \subseteq txpool
    BY <1>5 DEF RefuseExtrinsic
  <2>3. TxPoolOK'
    BY <2>2, FS_Subset DEF TxPoolOK
  <2>4. EngineOK'
    BY <1>5 DEF RefuseExtrinsic, Offered, EngineOK, States
  <2> QED BY <2>1, <2>3, <2>4
<1> QED BY <1>1, <1>2, <1>3, <1>4, <1>5 DEF EngineStep

\* The types of the node, by induction.
LEMMA NodeTypesInductive ==
  /\ NodeInit => NodeTypes
  /\ NodeTypes /\ [NodeNext]_nodeVars => NodeTypes'
<1>1. ASSUME NodeInit
      PROVE  NodeTypes
  <2>1. ProcessOK /\ RuntimeTypes
    BY <1>1, NodeBase
  <2>2. txpool = {} /\ commands = 0 /\ silent = FALSE
    BY <1>1 DEF NodeInit
  <2>3. ChannelOK
    <3>1. 0 \in 0..Capacity
      BY NodeAssumption DEF Capacity
    <3> QED BY <2>2, <3>1 DEF ChannelOK
  <2>4. TxPoolOK
    BY <2>2, FS_EmptySet DEF TxPoolOK
  <2>5. EngineOK
    BY <1>1, <2>1, StateTyped DEF NodeInit, EngineOK
  <2> QED BY <2>1, <2>3, <2>4, <2>5 DEF NodeTypes
<1>2. ASSUME NodeTypes, [NodeNext]_nodeVars
      PROVE  NodeTypes'
  <2>1. ProcessOK' /\ RuntimeTypes'
    BY <1>2, NodeBase DEF NodeTypes
  <2>2. ASSUME UNCHANGED <<runtimeVars, engine, offer, best>>
        PROVE  EngineOK'
    BY <1>2, <2>2 DEF NodeTypes, EngineOK, State, States, runtimeVars, accountVars, headerVars
  <2>3. ASSUME NEW x \in Extrinsics, author_submitExtrinsic(x)
        PROVE  NodeTypes'
    <3>1. EngineOK'
      BY <2>2, <2>3 DEF author_submitExtrinsic
    <3> QED BY <1>2, <2>1, <2>3, <3>1, SubmitKeeps DEF NodeTypes
  <2>4. ASSUME NEW x \in Extrinsics, Revalidate(x)
        PROVE  NodeTypes'
    <3>1. EngineOK'
      BY <2>2, <2>4 DEF Revalidate
    <3>2. TxPoolOK'
      BY <1>2, <2>4, FS_RemoveElement DEF Revalidate, NodeTypes, TxPoolOK
    <3>3. ChannelOK'
      BY <1>2, <2>4 DEF Revalidate, NodeTypes, ChannelOK, Capacity
    <3> QED BY <2>1, <3>1, <3>2, <3>3 DEF NodeTypes
  <2>5. CASE TimerFires
    <3>1. EngineOK'
      BY <2>2, <2>5 DEF TimerFires
    <3>2. TxPoolOK'
      BY <1>2, <2>5 DEF TimerFires, NodeTypes, TxPoolOK
    <3>3. ChannelOK'
      BY <1>2, <2>5, NodeAssumption DEF TimerFires, TrySend, NodeTypes, ChannelOK, Capacity
    <3> QED BY <2>1, <3>1, <3>2, <3>3 DEF NodeTypes
  <2>6. CASE EngineStep
    BY <1>2, <2>1, <2>6, EngineKeeps DEF NodeTypes
  <2>7. CASE UNCHANGED nodeVars
    <3>1. EngineOK'
      BY <2>2, <2>7 DEF nodeVars
    <3>2. TxPoolOK' /\ ChannelOK'
      BY <1>2, <2>7 DEF nodeVars, poolVars, NodeTypes, TxPoolOK, ChannelOK, Capacity
    <3> QED BY <2>1, <3>1, <3>2 DEF NodeTypes
  <2> QED BY <1>2, <2>3, <2>4, <2>5, <2>6, <2>7 DEF NodeNext
<1> QED BY <1>1, <1>2

\* The types of the whole node, for every channel size: the channel never holds
\* more than its capacity (main.rs:351), and the best block is the state of the
\* runtime whenever no block is being built.
THEOREM NodeTypeCorrect == NodeSpec => []NodeTypeOK
<1>1. NodeSpec => []NodeTypes
  BY NodeTypesInductive, PTL DEF NodeSpec
<1>2. NodeSpec => []RuntimeTypeOK
  BY NodeRefinesRuntime, RuntimeTypeCorrect, PTL
<1>3. NodeTypes /\ RuntimeTypeOK => NodeTypeOK
  BY DEF NodeTypes, ProcessOK, ChannelOK, TxPoolOK, EngineOK, NodeTypeOK
<1> QED BY <1>1, <1>2, <1>3, PTL
-----------------------------------------------------------------------------
\* While a block is built, its header is the one the pool validates for; an
\* account that has no extrinsic in the block has the nonce it had at the best
\* block and no less money; and what is offered of such an account begins with its
\* next nonce and has no gap.
HeaderAgrees == number = Upcoming.number /\ block_hash = Upcoming.block_hash

Stirred(a) == \E y \in InBlock : y.signer = a
OthersUntouched ==
  \A a \in Accounts : ~Stirred(a) => nonce[a] = best.nonce[a] /\ balance[a] >= best.balance[a]

OfferValid == \A x \in offer : Acceptable(x, Upcoming)
OfferClosed ==
  \A x \in offer : ~Stirred(x.signer) =>
    \A n \in best.nonce[x.signer] .. x.nonce - 1 :
      \E y \in offer : y.signer = x.signer /\ y.nonce = n

Proposal == HeaderAgrees /\ OthersUntouched /\ OfferValid /\ OfferClosed

ProposalInv == used <= Len(executed) /\ (engine = "proposing" => Proposal)

\* The pool validates against the accounts of the best block.
LEMMA UpcomingFields ==
  ASSUME NodeTypes
  PROVE  Upcoming.nonce = best.nonce /\ Upcoming.balance = best.balance
BY DEF NodeTypes, EngineOK, States, Upcoming, Opened

\* Executing an extrinsic takes nothing from anybody but its signer.
LEMMA OthersKeep ==
  ASSUME AccountsOK, NEW x \in Extrinsics, apply_extrinsic(x), NEW a \in Accounts, a # x.signer
  PROVE  nonce'[a] = nonce[a] /\ balance'[a] >= balance[a]
<1>1. x.signer \in Accounts /\ Paid(x) \in [Accounts -> Nat] /\ Paid(x)[a] = balance[a]
  BY FeeIsCovered DEF apply_extrinsic, Paid, AccountsOK
<1>2. nonce'[a] = nonce[a]
  BY AccountStep, <1>1 DEF AccountsOK
<1>3. CASE Charged(x)
  BY <1>1, <1>2, <1>3 DEF Charged, AccountsOK
<1>4. CASE x.kind = "transfer_allow_death" /\ (TransferMoves(x) \/ TransferReaps(x))
  <2> DEFINE sent == [Paid(x) EXCEPT ![x.signer] = @ - x.args.amount]
  <2>1. x.args.dest \in Accounts /\ x.args.amount \in Nat
    BY <1>4, RuntimeAssumption
  <2>2. sent[a] = balance[a] /\ a \in DOMAIN sent /\ balance[a] \in Nat
    BY <1>1 DEF AccountsOK
  <2>3. Moved(x) = [sent EXCEPT ![x.args.dest] = @ + x.args.amount]
    BY DEF Moved
  <2>4. Moved(x)[a] >= balance[a]
    BY <2>1, <2>2, <2>3
  <2>5. balance' = Moved(x) \/ balance' = [Moved(x) EXCEPT ![x.signer] = 0]
    BY <1>4 DEF TransferMoves, TransferReaps
  <2>6. balance'[a] = Moved(x)[a]
    <3>1. Moved(x) \in [Accounts -> Nat]
      BY <1>4, MovesNumbers DEF apply_extrinsic, TransferMoves, TransferReaps
    <3> QED BY <2>5, <3>1
  <2> QED BY <1>2, <2>4, <2>6
<1> QED BY <1>3, <1>4 DEF apply_extrinsic, Dispatch, TransferFails

\* Executing an extrinsic adds it to the block.
LEMMA InBlockGrows ==
  ASSUME RuntimeTypes, used <= Len(executed), NEW x, apply_extrinsic(x)
  PROVE  /\ used' <= Len(executed')
         /\ InBlock \subseteq InBlock' /\ x \in InBlock'
<1> DEFINE n == Len(executed)
           e == [xt |-> x, life |-> life[x.signer]]
<1>1. executed \in Seq([xt : Extrinsics, life : Nat]) /\ n \in Nat /\ used \in Nat
  BY RuntimeAssumption DEF RuntimeTypes, HistoryOK
<1>2. executed' = Append(executed, e) /\ used' = used + 1
  BY DEF apply_extrinsic
<1>3. /\ Len(executed') = n + 1 /\ executed'[n + 1] = e
      /\ \A i \in 1..n : executed'[i] = executed[i]
  BY <1>1, <1>2
<1>4. Len(executed') - used' + 1 = n - used + 1
  BY <1>1, <1>2, <1>3
<1>5. InBlock' = {executed'[i].xt : i \in n - used + 1 .. n + 1}
  BY <1>3, <1>4 DEF InBlock
<1>6. InBlock \subseteq InBlock'
  <2>1. ASSUME NEW i \in n - used + 1 .. n
        PROVE  executed[i].xt \in InBlock'
    <3>1. i \in 1..n /\ i \in n - used + 1 .. n + 1
      BY <1>1, <2>1
    <3>2. executed'[i] = executed[i]
      BY <1>3, <3>1
    <3> QED BY <1>5, <3>1, <3>2
  <2> QED BY <2>1 DEF InBlock
<1>7. x \in InBlock'
  <2>1. n + 1 \in n - used + 1 .. n + 1
    BY <1>1
  <2>2. executed'[n + 1].xt = x
    BY <1>3
  <2> QED BY <1>5, <2>1, <2>2
<1> QED BY <1>1, <1>2, <1>3, <1>6, <1>7

\* A block begins as a good proposal,
LEMMA BlockOpens ==
  ASSUME NodeTypes, StartBlock
  PROVE  ProposalInv'
<1>1. /\ best = State /\ best' = best /\ Upcoming' = Upcoming
      /\ nonce' = nonce /\ balance' = balance /\ used' = 0 /\ executed' = executed
      /\ offer' = ReadyIn(txpool)
      /\ number' = Opened(State, HashOf(number)).number
      /\ block_hash' = Opened(State, HashOf(number)).block_hash
  BY DEF StartBlock, Proposable, open_block, accountVars, NodeTypes, EngineOK, Upcoming, HashOf,
         process
<1>2. /\ best.nonce = nonce /\ best.balance = balance /\ best.number = number
  BY <1>1 DEF State
<1>3. HeaderAgrees'
  BY <1>1, <1>2 DEF HeaderAgrees, Upcoming
<1>4. OthersUntouched'
  <2>1. balance \in [Accounts -> Nat]
    BY DEF NodeTypes, RuntimeTypes, AccountsOK
  <2> QED BY <1>1, <1>2, <2>1 DEF OthersUntouched
<1>5. OfferValid'
  BY <1>1 DEF OfferValid, ReadyIn
<1>6. OfferClosed'
  <2>1. ASSUME NEW x \in ReadyIn(txpool), NEW n \in best.nonce[x.signer] .. x.nonce - 1
        PROVE  \E y \in ReadyIn(txpool) : y.signer = x.signer /\ y.nonce = n
    <3>1. PICK y \in txpool : /\ Acceptable(y, Upcoming)
                              /\ y.signer = x.signer /\ y.nonce = n
      BY <2>1 DEF ReadyIn
    <3>2. x \in Extrinsics /\ x.nonce \in Nat /\ best.nonce[x.signer] \in Nat
      BY <2>1, <1>2, ReadyAreInPool, RuntimeAssumption
      DEF NodeTypes, TxPoolOK, RuntimeTypes, AccountsOK
    <3>3. best.nonce[y.signer] .. y.nonce - 1 \subseteq best.nonce[x.signer] .. x.nonce - 1
      BY <3>1, <3>2
    <3>4. y \in ReadyIn(txpool)
      BY <2>1, <3>1, <3>3 DEF ReadyIn
    <3> QED BY <3>1, <3>4
  <2> QED BY <1>1, <2>1 DEF OfferClosed
<1>7. used' <= Len(executed')
  BY <1>1 DEF NodeTypes, RuntimeTypes, HistoryOK
<1> QED BY <1>3, <1>4, <1>5, <1>6, <1>7 DEF ProposalInv, Proposal

\* stays one when an extrinsic is executed,
LEMMA PushKeepsProposal ==
  ASSUME NodeTypes, ProposalInv, NEW x \in Extrinsics, PushExtrinsic(x)
  PROVE  ProposalInv'
<1>1. /\ apply_extrinsic(x) /\ offer' = offer \ {x} /\ best' = best /\ Proposal
      /\ Upcoming' = Upcoming /\ number' = number /\ block_hash' = block_hash
  BY DEF PushExtrinsic, Offered, ProposalInv, apply_extrinsic, headerVars, Upcoming, HashOf,
         process
<1>2. /\ used' <= Len(executed') /\ InBlock \subseteq InBlock' /\ x \in InBlock'
  BY <1>1, InBlockGrows DEF NodeTypes, ProposalInv
<1>3. \A a : ~Stirred(a)' => ~Stirred(a) /\ a # x.signer
  BY <1>2 DEF Stirred
<1>4. HeaderAgrees' /\ OfferValid'
  BY <1>1 DEF Proposal, HeaderAgrees, OfferValid
<1>5. OthersUntouched'
  <2>1. ASSUME NEW a \in Accounts, ~Stirred(a)'
        PROVE  nonce'[a] = best'.nonce[a] /\ balance'[a] >= best'.balance[a]
    <3>1. nonce[a] = best.nonce[a] /\ balance[a] >= best.balance[a]
      BY <1>1, <1>3, <2>1 DEF Proposal, OthersUntouched
    <3>2. nonce'[a] = nonce[a] /\ balance'[a] >= balance[a]
      BY <1>1, <1>3, <2>1, OthersKeep DEF NodeTypes, RuntimeTypes
    <3>3. balance[a] \in Nat /\ balance'[a] \in Nat /\ best.balance[a] \in Nat
      BY <1>1, AccountStep DEF NodeTypes, RuntimeTypes, AccountsOK, EngineOK, States
    <3> QED BY <1>1, <3>1, <3>2, <3>3
  <2> QED BY <2>1 DEF OthersUntouched
<1>6. OfferClosed'
  <2>1. ASSUME NEW z \in offer', ~Stirred(z.signer)',
               NEW n \in best.nonce[z.signer] .. z.nonce - 1
        PROVE  \E y \in offer' : y.signer = z.signer /\ y.nonce = n
    <3>1. PICK y \in offer : y.signer = z.signer /\ y.nonce = n
      BY <1>1, <1>3, <2>1 DEF Proposal, OfferClosed
    <3>2. y # x
      BY <1>3, <2>1, <3>1
    <3> QED BY <1>1, <3>1, <3>2
  <2> QED BY <1>1, <2>1 DEF OfferClosed
<1> QED BY <1>2, <1>4, <1>5, <1>6 DEF ProposalInv, Proposal

\* and when one is refused.
LEMMA RefuseKeepsProposal ==
  ASSUME NodeTypes, ProposalInv, NEW x \in Extrinsics, RefuseExtrinsic(x)
  PROVE  ProposalInv'
<1>1. /\ offer' = {y \in offer : y.signer # x.signer} /\ best' = best /\ Proposal
      /\ Upcoming' = Upcoming /\ number' = number /\ block_hash' = block_hash
      /\ nonce' = nonce /\ balance' = balance /\ used' = used /\ executed' = executed
  BY DEF RefuseExtrinsic, Offered, ProposalInv, runtimeVars, accountVars, headerVars, Upcoming,
         HashOf, process
<1>2. InBlock' = InBlock
  BY <1>1 DEF InBlock
<1>3. HeaderAgrees' /\ OfferValid'
  BY <1>1 DEF Proposal, HeaderAgrees, OfferValid
<1>4. OthersUntouched'
  BY <1>1, <1>2 DEF Proposal, OthersUntouched, Stirred
<1>5. OfferClosed'
  BY <1>1, <1>2 DEF Proposal, OfferClosed, Stirred
<1> QED BY <1>1, <1>3, <1>4, <1>5 DEF ProposalInv, Proposal

\* The block under construction, by induction.
LEMMA ProposalInductive ==
  /\ NodeInit => ProposalInv
  /\ NodeTypes /\ ProposalInv /\ [NodeNext]_nodeVars => ProposalInv'
<1>1. NodeInit => ProposalInv
  BY DEF NodeInit, RuntimeInit, ProposalInv
<1>2. ASSUME NodeTypes, ProposalInv, [NodeNext]_nodeVars
      PROVE  ProposalInv'
  <2>1. ASSUME UNCHANGED <<runtimeVars, process, engine, offer, best>>
        PROVE  ProposalInv'
    <3>1. /\ UNCHANGED <<number, block_hash, nonce, balance, used, executed, engine, offer, best>>
          /\ Upcoming' = Upcoming
      BY <2>1 DEF runtimeVars, accountVars, headerVars, process, Upcoming, HashOf
    <3>2. InBlock' = InBlock
      BY <3>1 DEF InBlock
    <3> QED BY <1>2, <3>1, <3>2
    DEF ProposalInv, Proposal, HeaderAgrees, OthersUntouched, OfferValid, OfferClosed, Stirred
  <2>2. CASE SealBlock
    BY <1>2, <2>2 DEF SealBlock, ProposalInv, runtimeVars
  <2>3. ASSUME NEW x \in Extrinsics, author_submitExtrinsic(x) \/ Revalidate(x)
        PROVE  ProposalInv'
    BY <2>1, <2>3 DEF author_submitExtrinsic, Revalidate
  <2>4. CASE TimerFires \/ SkipEmpty \/ UNCHANGED nodeVars
    BY <2>1, <2>4 DEF TimerFires, SkipEmpty, nodeVars
  <2> QED BY <1>2, <2>2, <2>3, <2>4, BlockOpens, PushKeepsProposal, RefuseKeepsProposal
          DEF NodeNext, EngineStep
<1> QED BY <1>1, <1>2

\* An extrinsic that was offered can only be refused if its signer's account was
\* changed by another one in the same block.
LEMMA RefusalHasReason ==
  ASSUME NodeTypes, ProposalInv, NEW x \in Extrinsics, RefuseExtrinsic(x)
  PROVE  Stirred(x.signer)
<1> SUFFICES ASSUME ~Stirred(x.signer)
             PROVE  Applicable(x, State)
  BY DEF RefuseExtrinsic
<1>1. /\ Proposal /\ x \in offer
      /\ \A y \in offer : y.signer = x.signer => y.nonce >= x.nonce
  BY DEF RefuseExtrinsic, Offered, ProposalInv
<1>2. /\ x.signer \in Accounts /\ x.nonce \in Nat /\ x.tip \in Nat /\ MinimumBalance \in Nat
      /\ best.nonce[x.signer] \in Nat /\ best.balance[x.signer] \in Nat
      /\ balance[x.signer] \in Nat
  BY RuntimeAssumption DEF NodeTypes, EngineOK, States, RuntimeTypes, AccountsOK
<1>3. /\ CheckSignature(x, Upcoming) /\ x.nonce >= best.nonce[x.signer]
      /\ best.balance[x.signer] >= Fee(x) + MinimumBalance
  BY <1>1, UpcomingFields
  DEF Proposal, OfferValid, Acceptable, NotStale, ChargeTransactionPayment
<1>4. nonce[x.signer] = best.nonce[x.signer] /\ balance[x.signer] >= best.balance[x.signer]
  BY <1>1, <1>2 DEF Proposal, OthersUntouched
<1>5. CheckSignature(x, State)
  BY <1>1, <1>3 DEF CheckSignature, State, Proposal, HeaderAgrees
<1>6. CheckNonce(x, State)
  <2>1. ASSUME x.nonce > best.nonce[x.signer]
        PROVE  FALSE
    <3>1. best.nonce[x.signer] \in best.nonce[x.signer] .. x.nonce - 1
      BY <1>2, <2>1
    <3>2. PICK y \in offer : y.signer = x.signer /\ y.nonce = best.nonce[x.signer]
      BY <1>1, <3>1 DEF Proposal, OfferClosed
    <3> QED BY <1>1, <1>2, <2>1, <3>2
  <2> QED BY <1>2, <1>3, <1>4, <2>1 DEF CheckNonce, NotStale, State
<1>7. ChargeTransactionPayment(x, State)
  BY <1>2, <1>3, <1>4 DEF ChargeTransactionPayment, State, Fee
<1> QED BY <1>5, <1>6, <1>7 DEF Applicable

\* Priorities can be compared.
LEMMA PriorityIsNumber == \A x \in Extrinsics : Priority(x) \in Nat
<1> SUFFICES ASSUME NEW x \in Extrinsics PROVE Priority(x) \in Nat
  OBVIOUS
<1>1. x.tip + 1 \in Nat /\ PerBlock[x.kind] \in Nat
  BY RuntimeAssumption, NodeAssumption
<1> QED BY <1>1 DEF Priority

\* The limit on what waits is enforced only when it is exceeded,
LEMMA WaitingIsDropped ==
  ASSUME NEW future, IsFiniteSet(future), NEW kept \in FutureKept(future), kept # future
  PROVE  Cardinality(future) > FutureLimit
<1> DEFINE n == Cardinality(future)
           S == {FutureLimit, n}
<1>1. n \in Nat /\ FutureLimit \in Nat
  BY FS_CardinalityType, NodeAssumption
<1>2. kept \subseteq future /\ Cardinality(kept) = Min(S)
  BY DEF FutureKept
<1>3. Min(S) # n
  BY <1>2, FS_Subset
<1> SUFFICES ASSUME n <= FutureLimit PROVE FALSE
  BY <1>1
<1>4. \E m \in S : \A y \in S : m <= y
  BY <1>1
<1>5. Min(S) \in S /\ \A y \in S : Min(S) <= y
  BY <1>4 DEF Min
<1> QED BY <1>1, <1>3, <1>5

\* and so is the one on what is ready, from the lowest priority upwards.
LEMMA ReadyIsDropped ==
  ASSUME NEW ready, ready \subseteq Extrinsics, IsFiniteSet(ready),
         NEW kept \in ReadyKept(ready), NEW x \in ready \ kept
  PROVE  /\ Cardinality(ready) > ReadyLimit
         /\ \E w \in ready \ kept :
              /\ w.signer = x.signer /\ w.nonce <= x.nonce
              /\ \A y \in kept : Priority(w) <= Priority(y)
<1> DEFINE Needing(w) == {y \in ready : y.signer = w.signer /\ y.nonce >= w.nonce}
<1>1. kept \subseteq ready
  BY DEF ReadyKept
<1>2. PICK last \in ready \ kept :
        /\ Cardinality(kept \cup Needing(last)) > ReadyLimit
        /\ \A y \in kept : Priority(last) <= Priority(y)
        /\ \A v \in ready \ kept : \E w \in ready \ kept :
             v \in Needing(w) /\ Priority(w) <= Priority(last)
  BY DEF ReadyKept
<1>3. Cardinality(ready) > ReadyLimit
  <2> DEFINE more == kept \cup Needing(last)
  <2>1. more \subseteq ready
    BY <1>1
  <2> HIDE DEF more
  <2>2. IsFiniteSet(more) /\ Cardinality(more) <= Cardinality(ready)
    BY <2>1, FS_Subset
  <2>3. Cardinality(more) \in Nat /\ Cardinality(ready) \in Nat /\ ReadyLimit \in Nat
    BY <2>2, FS_CardinalityType, NodeAssumption
  <2>4. Cardinality(more) > ReadyLimit
    BY <1>2 DEF more
  <2> QED BY <2>2, <2>3, <2>4
<1>4. PICK w \in ready \ kept : x \in Needing(w) /\ Priority(w) <= Priority(last)
  BY <1>2
<1>5. w.signer = x.signer /\ w.nonce <= x.nonce
  BY <1>4, RuntimeAssumption
<1>6. \A y \in kept : Priority(w) <= Priority(y)
  BY <1>1, <1>2, <1>4, PriorityIsNumber
<1> QED BY <1>3, <1>4, <1>5, <1>6

\* What a submission pushes out was outbid, or waited.
LEMMA SubmissionTurnsOut ==
  ASSUME NodeTypes, NEW z \in Extrinsics, author_submitExtrinsic(z),
         NEW x \in txpool \ txpool'
  PROVE  txpool' \subseteq Joined(z) /\ TurnedOut(x, z)
<1> DEFINE ready == ReadyIn(Joined(z))
           future == Joined(z) \ ready
<1>1. /\ txpool' \subseteq Joined(z)
      /\ txpool' \cap ready \in ReadyKept(ready) /\ txpool' \ ready \in FutureKept(future)
  BY LimitsOnlyDrop DEF author_submitExtrinsic
<1>2. Joined(z) \subseteq Extrinsics /\ IsFiniteSet(Joined(z)) /\ ready \subseteq Joined(z)
  BY JoinedIsPool, ReadyAreInPool DEF NodeTypes
<1>3. IsFiniteSet(ready) /\ IsFiniteSet(future)
  BY <1>2, FS_Subset
<1>4. CASE x \in Rivals(z)
  BY <1>1, <1>4 DEF author_submitExtrinsic, Importable, Rivals, SameSlot, TurnedOut
<1>5. CASE x \in future
  <2>1. txpool' \ ready # future
    BY <1>5
  <2>2. Cardinality(future) > FutureLimit
    BY <1>1, <1>3, <2>1, WaitingIsDropped
  <2> QED BY <1>1, <1>5, <2>2 DEF TurnedOut
<1>6. CASE x \in ready
  <2> DEFINE kept == txpool' \cap ready
  <2>1. x \in ready \ kept /\ ready \ kept = ready \ txpool' /\ kept \in ReadyKept(ready)
    BY <1>1, <1>6
  <2>2. /\ Cardinality(ready) > ReadyLimit
        /\ \E w \in ready \ kept :
             /\ w.signer = x.signer /\ w.nonce <= x.nonce
             /\ \A y \in kept : Priority(w) <= Priority(y)
    <3> HIDE DEF ready, kept
    <3> QED BY <1>2, <1>3, <2>1, ReadyIsDropped
  <2> QED BY <1>1, <2>1, <2>2 DEF TurnedOut
<1>7. x \in Rivals(z) \/ x \in Joined(z)
  BY DEF Joined
<1> QED BY <1>4, <1>5, <1>6, <1>7

\* Each step drops a transaction only with a reason.
LEMMA PoolKeeps ==
  ASSUME NodeTypes, ProposalInv, [NodeNext]_nodeVars, NEW x \in txpool \ txpool'
  PROVE  \/ \E y \in InBlock : SameSlot(x, y)
         \/ ~Acceptable(x, Upcoming)
         \/ Touched(x)
         \/ /\ UNCHANGED <<runtimeVars, engine, offer, best>>
            /\ \E z \in Extrinsics :
                 Importable(z) /\ txpool' \subseteq Joined(z) /\ TurnedOut(x, z)
<1>1. ASSUME NEW z \in Extrinsics, author_submitExtrinsic(z)
      PROVE  /\ UNCHANGED <<runtimeVars, engine, offer, best>>
             /\ Importable(z) /\ txpool' \subseteq Joined(z) /\ TurnedOut(x, z)
  BY <1>1, SubmissionTurnsOut DEF author_submitExtrinsic
<1>2. ASSUME NEW z \in Extrinsics, Revalidate(z)
      PROVE  ~Acceptable(x, Upcoming)
  BY <1>2 DEF Revalidate
<1>3. ASSUME NEW z \in Extrinsics, RefuseExtrinsic(z)
      PROVE  Touched(x)
  <2>1. x.signer = z.signer
    BY <1>3 DEF RefuseExtrinsic, Dependents
  <2> QED BY <1>3, <2>1, RefusalHasReason DEF Stirred, Touched
<1>4. CASE SealBlock
  BY <1>4 DEF SealBlock, Prune
<1>5. ASSUME UNCHANGED txpool
      PROVE  FALSE
  BY <1>5
<1> QED BY <1>1, <1>2, <1>3, <1>4, <1>5
        DEF NodeNext, EngineStep, TimerFires, StartBlock, SkipEmpty, PushExtrinsic, nodeVars, poolVars

\* A transaction leaves the pool because its slot is executed, because it is no longer
\* valid, because its own account changed in the block, or because a submission turns
\* it out: of its slot with a higher priority, or of a pool beyond its limits
\* (main.rs:206), in which nothing cheaper is kept.  Transactions are checked on the
\* best block and applied on the overlay of the one under construction (main.rs:320).
THEOREM NodeNeverDrops == NodeSpec => NeverDropped
<1>1. NodeSpec => [](NodeTypes /\ ProposalInv)
  BY NodeTypesInductive, ProposalInductive, PTL DEF NodeSpec
<1>2. NodeTypes /\ ProposalInv /\ [NodeNext]_nodeVars =>
        [\A x \in txpool \ txpool' :
           \/ \E y \in InBlock : SameSlot(x, y)
           \/ ~Acceptable(x, Upcoming)
           \/ Touched(x)
           \/ /\ UNCHANGED <<runtimeVars, engine, offer, best>>
              /\ \E z \in Extrinsics :
                   Importable(z) /\ txpool' \subseteq Joined(z) /\ TurnedOut(x, z)]_nodeVars
  BY PoolKeeps
<1> QED BY <1>1, <1>2, PTL DEF NodeSpec, NeverDropped
-----------------------------------------------------------------------------
(***************************************************************************)
(* Sums.  The community modules' MapThenSumSet is a function chosen to     *)
(* satisfy a recursion over the subsets of its argument; that one exists   *)
(* for finite sets, is unique, and does not depend on the order in which   *)
(* elements are taken, is shown by induction over finite sets.             *)
(***************************************************************************)

\* The sum of f over a set.
SumOver(f, S) == MapThenSumSet(LAMBDA a : f[a], S)

\* A family G of sets that contains every subset of S whose proper subsets it
\* contains, contains all subsets of S.
LEMMA SubsetInduction ==
  ASSUME NEW S, IsFiniteSet(S), NEW G,
         \A s \in SUBSET S : (\A t \in SUBSET s : t # s => t \in G) => s \in G
  PROVE  \A s \in SUBSET S : s \in G
<1> DEFINE B == {s \in SUBSET S : s \notin G}
<1> SUFFICES ASSUME B # {} PROVE FALSE
  OBVIOUS
<1>1. IsWellFoundedOn(StrictSubsetOrdering(S), SUBSET S)
  <2>1. FiniteSubsetsOf(S) = SUBSET S
    BY FS_FiniteSubsetsOfFinite
  <2>2. IsWellFoundedOn(StrictSubsetOrdering(S), FiniteSubsetsOf(S))
    BY FS_StrictSubsetOrderingWellFounded
  <2> QED BY <2>1, <2>2, Zenon
<1>2. B \subseteq SUBSET S
  OBVIOUS
<1> HIDE DEF B
<1>3. PICK s \in B : \A t \in B : <<t, s>> \notin StrictSubsetOrdering(S)
  BY <1>1, <1>2, WFMin
<1>4. s \in SUBSET S /\ s \notin G
  BY <1>3 DEF B
<1>5. PICK t \in SUBSET s : t # s /\ t \notin G
  BY <1>4
<1>6. t \in B
  BY <1>4, <1>5 DEF B
<1>7. <<t, s>> \in StrictSubsetOrdering(S)
  BY <1>4, <1>5 DEF StrictSubsetOrdering
<1> QED BY <1>3, <1>6, <1>7
-----------------------------------------------------------------------------
Picked(s) == CHOOSE x \in s : TRUE
Step(f, it, s) == IF s = {} THEN 0 ELSE f[Picked(s)] + it[s \ {Picked(s)}]
IsIter(it, f, S) == it = [s \in SUBSET S |-> Step(f, it, s)]
Iter(f, S) == CHOOSE it : IsIter(it, f, S)

\* The element that is taken next.
LEMMA PickedIsElement ==
  ASSUME NEW s, s # {}
  PROVE  Picked(s) \in s
BY DEF Picked

\* The sum, as a recursion over subsets.
LEMMA SumIsIter ==
  ASSUME NEW f, NEW S
  PROVE  SumOver(f, S) = Iter(f, S)[S]
BY DEF SumOver, MapThenSumSet, MapThenFoldSet, Iter, IsIter, Step, Picked

\* Two solutions agree where both are defined.
LEMMA IterUnique ==
  ASSUME NEW f, NEW S, NEW T, NEW a, NEW b, IsIter(a, f, S), IsIter(b, f, T),
         NEW U, U \subseteq S, U \subseteq T, IsFiniteSet(U)
  PROVE  a[U] = b[U]
<1> DEFINE G == {s \in SUBSET U : a[s] = b[s]}
<1>1. ASSUME NEW s \in SUBSET U, \A t \in SUBSET s : t # s => t \in G
      PROVE  s \in G
  <2>1. a[s] = Step(f, a, s) /\ b[s] = Step(f, b, s)
    <3>1. s \in SUBSET S /\ s \in SUBSET T
      OBVIOUS
    <3> QED BY <3>1 DEF IsIter
  <2>2. CASE s = {}
    BY <2>1, <2>2 DEF Step
  <2>3. CASE s # {}
    <3>1. s \ {Picked(s)} \in SUBSET s /\ s \ {Picked(s)} # s
      BY <2>3, PickedIsElement
    <3>2. a[s \ {Picked(s)}] = b[s \ {Picked(s)}]
      BY <1>1, <3>1
    <3> QED BY <2>1, <2>3, <3>2 DEF Step
  <2> QED BY <2>2, <2>3
<1> HIDE DEF G
<1>2. \A s \in SUBSET U : s \in G
  BY <1>1, SubsetInduction
<1> QED BY <1>2 DEF G

\* The recursion has a solution over every finite set.
LEMMA IterExists ==
  ASSUME NEW f, NEW S, IsFiniteSet(S)
  PROVE  IsIter(Iter(f, S), f, S)
<1> DEFINE G == {s \in SUBSET S : IsIter(Iter(f, s), f, s)}
<1>1. ASSUME NEW s \in SUBSET S, \A t \in SUBSET s : t # s => t \in G
      PROVE  s \in G
  <2> DEFINE it == [t \in SUBSET s |->
                      IF t = {} THEN 0
                      ELSE f[Picked(t)] + Iter(f, t \ {Picked(t)})[t \ {Picked(t)}]]
  <2>1. ASSUME NEW t \in SUBSET s
        PROVE  it[t] = Step(f, it, t)
    <3>1. CASE t = {}
      BY <3>1 DEF Step
    <3>2. CASE t # {}
      <4> DEFINE u == t \ {Picked(t)}
      <4>1. u \in SUBSET s /\ u # s
        BY <3>2, PickedIsElement
      <4>2. IsIter(Iter(f, u), f, u) /\ IsFiniteSet(u)
        BY <1>1, <4>1, FS_Subset
      <4>3. Iter(f, u)[u] = it[u]
        <5>1. Iter(f, u)[u] = Step(f, Iter(f, u), u)
          BY <4>2 DEF IsIter
        <5>2. CASE u = {}
          BY <4>1, <5>1, <5>2 DEF Step
        <5>3. CASE u # {}
          <6> DEFINE w == u \ {Picked(u)}
          <6>1. w \in SUBSET s /\ w # s /\ w \subseteq u
            BY <4>1, <5>3, PickedIsElement
          <6>2. IsIter(Iter(f, w), f, w) /\ IsFiniteSet(w)
            BY <1>1, <6>1, FS_Subset
          <6>3. Iter(f, u)[w] = Iter(f, w)[w]
            <7> HIDE DEF w, u
            <7> QED BY <4>2, <6>1, <6>2, IterUnique
          <6>4. it[u] = f[Picked(u)] + Iter(f, w)[w]
            BY <4>1, <5>3
          <6> QED BY <5>1, <5>3, <6>3, <6>4 DEF Step
        <5> QED BY <5>2, <5>3
      <4>4. it[t] = f[Picked(t)] + Iter(f, u)[u]
        BY <3>2
      <4> QED BY <3>2, <4>3, <4>4 DEF Step
    <3> QED BY <3>1, <3>2
  <2>2. IsIter(it, f, s)
    <3>1. it = [t \in SUBSET s |-> it[t]]
      OBVIOUS
    <3> HIDE DEF it
    <3>2. it = [t \in SUBSET s |-> Step(f, it, t)]
      BY <2>1, <3>1
    <3> QED BY <3>2 DEF IsIter
  <2>3. IsIter(Iter(f, s), f, s)
    <3> HIDE DEF it
    <3> QED BY <2>2 DEF Iter
  <2> QED BY <2>3
<1> HIDE DEF G
<1>2. \A s \in SUBSET S : s \in G
  BY <1>1, SubsetInduction
<1> QED BY <1>2 DEF G

\* One step of the recursion.
LEMMA SumRecursion ==
  ASSUME NEW f, NEW S, IsFiniteSet(S), S # {}
  PROVE  /\ Picked(S) \in S
         /\ SumOver(f, S) = f[Picked(S)] + SumOver(f, S \ {Picked(S)})
<1> DEFINE u == S \ {Picked(S)}
<1>1. Picked(S) \in S
  BY PickedIsElement
<1>2. u \subseteq S /\ IsFiniteSet(u)
  BY FS_Subset
<1>3. IsIter(Iter(f, S), f, S) /\ IsIter(Iter(f, u), f, u)
  BY <1>2, IterExists
<1>4. Iter(f, S)[u] = Iter(f, u)[u]
  <2> HIDE DEF u
  <2> QED BY <1>2, <1>3, IterUnique
<1>5. Iter(f, S)[S] = Step(f, Iter(f, S), S)
  BY <1>3 DEF IsIter
<1> QED BY <1>1, <1>4, <1>5, SumIsIter DEF Step

\* Nothing sums up to zero.
LEMMA SumEmpty ==
  ASSUME NEW f
  PROVE  SumOver(f, {}) = 0
<1>1. IsIter(Iter(f, {}), f, {})
  BY IterExists, FS_EmptySet
<1>2. Iter(f, {})[{}] = Step(f, Iter(f, {}), {})
  BY <1>1 DEF IsIter
<1> QED BY <1>2, SumIsIter DEF Step
-----------------------------------------------------------------------------
\* A sum of numbers is a number.
LEMMA SumType ==
  ASSUME NEW S, IsFiniteSet(S), NEW f, \A x \in S : f[x] \in Int
  PROVE  SumOver(f, S) \in Int
<1> DEFINE G == {s \in SUBSET S : SumOver(f, s) \in Int}
<1>1. ASSUME NEW s \in SUBSET S, \A t \in SUBSET s : t # s => t \in G
      PROVE  s \in G
  <2>1. IsFiniteSet(s)
    BY FS_Subset
  <2>2. CASE s = {}
    BY <2>2, SumEmpty
  <2>3. CASE s # {}
    <3> DEFINE x == Picked(s)
               u == s \ {x}
    <3>1. x \in s /\ SumOver(f, s) = f[x] + SumOver(f, u)
      BY <2>1, <2>3, SumRecursion
    <3>2. SumOver(f, u) \in Int /\ f[x] \in Int
      BY <1>1, <3>1
    <3> HIDE DEF x, u
    <3>3. SumOver(f, s) \in Int
      BY <3>1, <3>2
    <3> QED BY <3>3
  <2> QED BY <2>2, <2>3
<1> HIDE DEF G
<1>2. \A s \in SUBSET S : s \in G
  BY <1>1, SubsetInduction
<1> QED BY <1>2 DEF G

\* A sum of natural numbers is one.
LEMMA SumNatural ==
  ASSUME NEW S, IsFiniteSet(S), NEW f, \A x \in S : f[x] \in Nat
  PROVE  SumOver(f, S) \in Nat
<1> DEFINE G == {s \in SUBSET S : SumOver(f, s) \in Nat}
<1>1. ASSUME NEW s \in SUBSET S, \A t \in SUBSET s : t # s => t \in G
      PROVE  s \in G
  <2>1. IsFiniteSet(s)
    BY FS_Subset
  <2>2. CASE s = {}
    BY <2>2, SumEmpty
  <2>3. CASE s # {}
    <3> DEFINE x == Picked(s)
               u == s \ {x}
    <3>1. x \in s /\ SumOver(f, s) = f[x] + SumOver(f, u)
      BY <2>1, <2>3, SumRecursion
    <3>2. SumOver(f, u) \in Nat /\ f[x] \in Nat
      BY <1>1, <3>1
    <3> HIDE DEF x, u
    <3>3. SumOver(f, s) \in Nat
      BY <3>1, <3>2
    <3> QED BY <3>3
  <2> QED BY <2>2, <2>3
<1> HIDE DEF G
<1>2. \A s \in SUBSET S : s \in G
  BY <1>1, SubsetInduction
<1> QED BY <1>2 DEF G

\* Any element may be taken out first.
LEMMA SumTake ==
  ASSUME NEW S, IsFiniteSet(S), NEW f, \A x \in S : f[x] \in Int, NEW y \in S
  PROVE  SumOver(f, S) = f[y] + SumOver(f, S \ {y})
<1> DEFINE Takes(s) == \A x \in s : SumOver(f, s) = f[x] + SumOver(f, s \ {x})
           G == {s \in SUBSET S : Takes(s)}
<1>1. ASSUME NEW s \in SUBSET S, \A t \in SUBSET s : t # s => t \in G
      PROVE  s \in G
  <2> SUFFICES ASSUME NEW x \in s PROVE SumOver(f, s) = f[x] + SumOver(f, s \ {x})
    OBVIOUS
  <2> DEFINE p == Picked(s)
             u == s \ {p}
             v == s \ {x}
             w == (s \ {p}) \ {x}
  <2>1. IsFiniteSet(s) /\ s # {}
    BY FS_Subset
  <2>2. p \in s /\ SumOver(f, s) = f[p] + SumOver(f, u)
    BY <2>1, SumRecursion
  <2>3. CASE x = p
    BY <2>2, <2>3
  <2>4. CASE x # p
    <3>1. u \in G /\ v \in G /\ x \in u /\ p \in v
      BY <1>1, <2>2, <2>4
    <3>2. SumOver(f, u) = f[x] + SumOver(f, w)
      BY <3>1
    <3>3. SumOver(f, v) = f[p] + SumOver(f, w)
      <4>1. v \ {p} = w
        OBVIOUS
      <4>2. SumOver(f, v) = f[p] + SumOver(f, v \ {p})
        BY <3>1
      <4> QED BY <4>1, <4>2
    <3>4. f[p] \in Int /\ f[x] \in Int
      BY <2>2
    <3>5. SumOver(f, w) \in Int
      <4>1. IsFiniteSet(w) /\ \A y_1 \in w : f[y_1] \in Int
        BY <2>1, FS_Subset
      <4> HIDE DEF w
      <4> QED BY <4>1, SumType
    <3> HIDE DEF p, u, v, w
    <3>6. SumOver(f, s) = f[x] + SumOver(f, v)
      BY <2>2, <3>2, <3>3, <3>4, <3>5
    <3> QED BY <3>6 DEF v
  <2> QED BY <2>3, <2>4
<1> HIDE DEF G
<1>2. \A s \in SUBSET S : s \in G
  BY <1>1, SubsetInduction
<1> QED BY <1>2 DEF G

\* The sum depends on nothing but the values over the set.
LEMMA SumSame ==
  ASSUME NEW S, IsFiniteSet(S), NEW f, NEW g, \A x \in S : f[x] = g[x]
  PROVE  SumOver(f, S) = SumOver(g, S)
<1> DEFINE G == {s \in SUBSET S : SumOver(f, s) = SumOver(g, s)}
<1>1. ASSUME NEW s \in SUBSET S, \A t \in SUBSET s : t # s => t \in G
      PROVE  s \in G
  <2>1. IsFiniteSet(s)
    BY FS_Subset
  <2>2. CASE s = {}
    BY <2>2, SumEmpty
  <2>3. CASE s # {}
    <3> DEFINE x == Picked(s)
               u == s \ {x}
    <3>1. x \in s /\ SumOver(f, s) = f[x] + SumOver(f, u) /\ SumOver(g, s) = g[x] + SumOver(g, u)
      BY <2>1, <2>3, SumRecursion
    <3>2. SumOver(f, u) = SumOver(g, u) /\ f[x] = g[x]
      BY <1>1, <3>1
    <3> QED BY <3>1, <3>2
  <2> QED BY <2>2, <2>3
<1> HIDE DEF G
<1>2. \A s \in SUBSET S : s \in G
  BY <1>1, SubsetInduction
<1> QED BY <1>2 DEF G

\* Changing one value changes the sum by the difference.
LEMMA SumChange ==
  ASSUME NEW S, IsFiniteSet(S), NEW f, NEW g, NEW y \in S,
         \A x \in S : f[x] \in Int /\ g[x] \in Int /\ (x # y => f[x] = g[x])
  PROVE  SumOver(g, S) = SumOver(f, S) - f[y] + g[y]
<1> DEFINE u == S \ {y}
<1>1. IsFiniteSet(u) /\ \A x \in u : f[x] \in Int /\ f[x] = g[x]
  BY FS_Subset
<1>2. SumOver(g, S) = g[y] + SumOver(g, u) /\ SumOver(f, S) = f[y] + SumOver(f, u)
  BY SumTake
<1> HIDE DEF u
<1>3. SumOver(f, u) = SumOver(g, u) /\ SumOver(f, u) \in Int
  BY <1>1, SumSame, SumType
<1> QED BY <1>2, <1>3

\* No term of a sum of natural numbers exceeds it.
LEMMA SumPart ==
  ASSUME NEW S, IsFiniteSet(S), NEW f, \A x \in S : f[x] \in Nat, NEW y \in S
  PROVE  f[y] <= SumOver(f, S)
<1> DEFINE u == S \ {y}
<1>1. IsFiniteSet(u) /\ \A x \in u : f[x] \in Nat
  BY FS_Subset
<1>2. SumOver(f, u) \in Nat
  BY <1>1, SumNatural
<1>3. SumOver(f, S) = f[y] + SumOver(f, u)
  BY SumTake
<1> HIDE DEF u
<1> QED BY <1>2, <1>3

\* The values of a sequence that grew by one.
LEMMA SumNext ==
  ASSUME NEW n \in Nat, NEW f, NEW g,
         \A i \in 1..n : f[i] = g[i] /\ f[i] \in Int, g[n + 1] \in Int
  PROVE  /\ SumOver(g, 1 .. n + 1) = SumOver(f, 1..n) + g[n + 1]
         /\ SumOver(f, 1..n) \in Int
<1> DEFINE S == 1..n
           T == 1 .. n + 1
           y == n + 1
<1>1. y \in T /\ T \ {y} = S
  OBVIOUS
<1>2. IsFiniteSet(S) /\ IsFiniteSet(T)
  BY FS_Interval
<1>3. (\A i \in S : f[i] = g[i] /\ f[i] \in Int) /\ \A i \in T : g[i] \in Int
  <2>1. \A i \in T : i \in S \/ i = y
    OBVIOUS
  <2>2. \A i \in S : f[i] = g[i] /\ f[i] \in Int
    OBVIOUS
  <2> QED BY <2>1, <2>2
<1> HIDE DEF S, T, y
<1>4. SumOver(g, T) = g[y] + SumOver(g, S)
  BY <1>1, <1>2, <1>3, SumTake
<1>5. SumOver(f, S) = SumOver(g, S) /\ SumOver(f, S) \in Int
  BY <1>2, <1>3, SumSame, SumType
<1>6. g[y] \in Int
  BY <1>1, <1>3
<1>7. SumOver(g, T) = SumOver(f, S) + g[y]
  BY <1>4, <1>5, <1>6
<1> QED BY <1>5, <1>7 DEF S, T, y

\* Equal values add up to a product.
LEMMA SumConstant ==
  ASSUME NEW S, IsFiniteSet(S), NEW f, NEW e \in Int, \A x \in S : f[x] = e
  PROVE  SumOver(f, S) = e * Cardinality(S)
<1> DEFINE G == {s \in SUBSET S : SumOver(f, s) = e * Cardinality(s)}
<1>1. ASSUME NEW s \in SUBSET S, \A t \in SUBSET s : t # s => t \in G
      PROVE  s \in G
  <2>1. IsFiniteSet(s)
    BY FS_Subset
  <2>2. CASE s = {}
    BY <2>2, SumEmpty, FS_EmptySet
  <2>3. CASE s # {}
    <3> DEFINE x == Picked(s)
               u == s \ {x}
    <3>1. x \in s /\ SumOver(f, s) = f[x] + SumOver(f, u)
      BY <2>1, <2>3, SumRecursion
    <3>2. SumOver(f, u) = e * Cardinality(u) /\ f[x] = e
      BY <1>1, <3>1
    <3>3. Cardinality(u) = Cardinality(s) - 1 /\ Cardinality(s) \in Nat
      BY <2>1, <3>1, FS_RemoveElement, FS_CardinalityType
    <3> HIDE DEF u, x
    <3>4. e * (Cardinality(s) - 1) = e * Cardinality(s) - e
      BY <3>3
    <3>5. SumOver(f, s) = e * Cardinality(s)
      <4>1. e * Cardinality(s) \in Int
        BY <3>3
      <4> QED BY <3>1, <3>2, <3>3, <3>4, <4>1
    <3> QED BY <3>5
  <2> QED BY <2>2, <2>3
<1> HIDE DEF G
<1>2. \A s \in SUBSET S : s \in G
  BY <1>1, SubsetInduction
<1> QED BY <1>2 DEF G
-----------------------------------------------------------------------------
(***************************************************************************)
(* The supply.  With a minimum balance of one, as pallet_balances is       *)
(* configured, nothing is left to burn of an account that is removed.      *)
(***************************************************************************)

\* The model's fold over a function is the sum over its domain.
LEMMA TotalIsSum ==
  ASSUME NEW D, NEW f \in [D -> Int]
  PROVE  Total(f) = SumOver(f, D)
BY DEF Total, SumOver

\* The fee leaves the supply.
LEMMA FeeLeaves ==
  ASSUME AccountsOK, NEW x \in Extrinsics, Applicable(x, State)
  PROVE  Total(Paid(x)) = Total(balance) - Fee(x) /\ Total(balance) \in Int /\ Fee(x) \in Nat
<1>1. /\ x.signer \in Accounts /\ x.tip \in Nat /\ IsFiniteSet(Accounts)
      /\ balance \in [Accounts -> Nat] /\ Paid(x) \in [Accounts -> Nat]
  BY FeeIsCovered, RuntimeAssumption DEF AccountsOK
<1>2. balance \in [Accounts -> Int] /\ Paid(x) \in [Accounts -> Int]
  BY <1>1
<1>3. Fee(x) \in Nat
  BY <1>1 DEF Fee
<1> DEFINE rest == balance[x.signer] - Fee(x)
<1>4. rest \in Int /\ balance[x.signer] \in Int
  BY <1>1, <1>3
<1>5. Paid(x)[x.signer] = rest /\ \A a \in Accounts : a # x.signer => Paid(x)[a] = balance[a]
  BY <1>1 DEF Paid
<1>6. SumOver(Paid(x), Accounts) = SumOver(balance, Accounts) - balance[x.signer] + rest
  <2> HIDE DEF rest
  <2>1. \A a \in Accounts : /\ balance[a] \in Int /\ Paid(x)[a] \in Int
                            /\ a # x.signer => balance[a] = Paid(x)[a]
    BY <1>2, <1>5
  <2> QED BY <1>1, <1>5, <2>1, SumChange
<1>7. SumOver(balance, Accounts) \in Int
  BY <1>1, SumType
<1>8. SumOver(Paid(x), Accounts) = SumOver(balance, Accounts) - Fee(x)
  BY <1>3, <1>4, <1>6, <1>7
<1> QED BY <1>2, <1>3, <1>7, <1>8, TotalIsSum

\* What is moved stays in the supply, whoever receives it.
LEMMA MovesKeepSupply ==
  ASSUME AccountsOK, NEW x \in Extrinsics, Applicable(x, State),
         x.kind = "transfer_allow_death", CanMove(x)
  PROVE  Total(Moved(x)) = Total(Paid(x))
<1> DEFINE paid == Paid(x)
           a == x.args.amount
           less == paid[x.signer] - a
           sent == [paid EXCEPT ![x.signer] = less]
           more == sent[x.args.dest] + a
<1>1. /\ x.signer \in Accounts /\ x.args.dest \in Accounts /\ a \in Nat
      /\ paid \in [Accounts -> Nat] /\ IsFiniteSet(Accounts)
  BY FeeIsCovered, RuntimeAssumption
<1> HIDE DEF paid, a
<1>2. less \in Int /\ paid[x.signer] \in Int /\ paid \in [Accounts -> Int]
  BY <1>1
<1> HIDE DEF less
<1>3. /\ sent \in [Accounts -> Int] /\ sent[x.signer] = less
      /\ \A b \in Accounts : b # x.signer => sent[b] = paid[b]
  BY <1>1, <1>2
<1> HIDE DEF sent
<1>4. SumOver(sent, Accounts) = SumOver(paid, Accounts) - paid[x.signer] + less
  <2>1. \A b \in Accounts : /\ paid[b] \in Int /\ sent[b] \in Int
                            /\ b # x.signer => paid[b] = sent[b]
    BY <1>2, <1>3
  <2> QED BY <1>1, <1>3, <2>1, SumChange
<1>5. SumOver(paid, Accounts) \in Int
  BY <1>1, SumType
<1>6. SumOver(sent, Accounts) = SumOver(paid, Accounts) - a
  BY <1>1, <1>2, <1>4, <1>5 DEF less
<1>7. more \in Int /\ sent[x.args.dest] \in Int
  BY <1>1, <1>3
<1> HIDE DEF more
<1>8. Moved(x) = [sent EXCEPT ![x.args.dest] = more]
  BY DEF Moved, sent, more, less, paid, a
<1>9. /\ Moved(x) \in [Accounts -> Int] /\ Moved(x)[x.args.dest] = more
      /\ \A b \in Accounts : b # x.args.dest => Moved(x)[b] = sent[b]
  BY <1>1, <1>3, <1>7, <1>8
<1>10. SumOver(Moved(x), Accounts) = SumOver(sent, Accounts) - sent[x.args.dest] + more
  <2>1. \A b \in Accounts : /\ sent[b] \in Int /\ Moved(x)[b] \in Int
                            /\ b # x.args.dest => sent[b] = Moved(x)[b]
    BY <1>3, <1>9
  <2> DEFINE moved == Moved(x)
             d == x.args.dest
  <2>2. IsFiniteSet(Accounts) /\ d \in Accounts
    BY <1>1
  <2>3. \A b \in Accounts : sent[b] \in Int /\ moved[b] \in Int /\ (b # d => sent[b] = moved[b])
    BY <2>1
  <2>4. moved[d] = more
    BY <1>9
  <2> HIDE DEF moved, d
  <2>5. SumOver(moved, Accounts) = SumOver(sent, Accounts) - sent[d] + moved[d]
    BY <2>2, <2>3, SumChange
  <2> QED BY <2>4, <2>5 DEF moved, d
<1>11. SumOver(Moved(x), Accounts) = SumOver(paid, Accounts)
  BY <1>1, <1>5, <1>6, <1>7, <1>10 DEF more
<1> QED BY <1>2, <1>9, <1>11, TotalIsSum DEF paid

\* Whatever an extrinsic does, the accounts lose its fee and nothing else.
LEMMA ExtrinsicCostsFee ==
  ASSUME MinimumBalance = 1, AccountsOK, NEW x \in Extrinsics, apply_extrinsic(x)
  PROVE  Total(balance') = Total(balance) - Fee(x)
<1>1. Applicable(x, State) /\ x.signer \in Accounts
  BY FeeIsCovered DEF apply_extrinsic
<1>2. CASE balance' = Paid(x)
  BY <1>1, <1>2, FeeLeaves
<1>3. CASE x.kind = "transfer_allow_death" /\ TransferMoves(x)
  BY <1>1, <1>3, FeeLeaves, MovesKeepSupply DEF TransferMoves
<1>4. CASE x.kind = "transfer_allow_death" /\ TransferReaps(x)
  <2>1. Moved(x) \in [Accounts -> Nat]
    BY <1>1, <1>4, MovesNumbers DEF TransferReaps
  <2>2. Moved(x)[x.signer] = 0
    BY <1>1, <1>4, <2>1 DEF TransferReaps
  <2>3. balance' = Moved(x)
    BY <1>1, <1>4, <2>1, <2>2 DEF TransferReaps
  <2> QED BY <1>1, <1>4, <2>3, FeeLeaves, MovesKeepSupply DEF TransferReaps
<1> QED BY <1>2, <1>3, <1>4 DEF apply_extrinsic, Dispatch, TransferFails, Charged

\* Executing an extrinsic adds its fee to those paid.
LEMMA FeesGrow ==
  ASSUME HistoryOK, AccountsOK, NEW x \in Extrinsics, apply_extrinsic(x)
  PROVE  Total(FeesPaid') = Total(FeesPaid) + Fee(x) /\ Total(FeesPaid) \in Int
<1> DEFINE Entry == [xt : Extrinsics, life : Nat]
           e == [xt |-> x, life |-> life[x.signer]]
           n == Len(executed)
           old == FeesPaid
           new == FeesPaid'
<1>1. executed \in Seq(Entry) /\ executed' = Append(executed, e) /\ e \in Entry /\ e.xt = x
  BY RuntimeAssumption DEF HistoryOK, AccountsOK, apply_extrinsic
<1> HIDE DEF Entry, e
<1>2. /\ n \in Nat /\ DOMAIN executed = 1..n /\ DOMAIN executed' = 1 .. n + 1
      /\ executed'[n + 1] = e /\ \A i \in 1..n : executed'[i] = executed[i] /\ executed[i] \in Entry
  BY <1>1, AppendProperties
<1>3. \A y \in Extrinsics : Fee(y) \in Int
  BY RuntimeAssumption DEF Fee
<1>4. /\ old = [i \in 1..n |-> Fee(executed[i].xt)]
      /\ new = [i \in 1 .. n + 1 |-> Fee(executed'[i].xt)]
  BY <1>2 DEF FeesPaid
<1>5. \A i \in 1..n : old[i] = new[i] /\ old[i] \in Int
  BY <1>2, <1>3, <1>4 DEF Entry
<1>6. new[n + 1] = Fee(x) /\ Fee(x) \in Int
  BY <1>1, <1>2, <1>3, <1>4
<1>7. old \in [1..n -> Int] /\ new \in [1 .. n + 1 -> Int]
  <2>1. \A i \in 1 .. n + 1 : i \in 1..n \/ i = n + 1
    BY <1>2
  <2>2. \A i \in 1 .. n + 1 : new[i] \in Int
    BY <1>5, <1>6, <2>1
  <2> HIDE DEF n, old, new
  <2> QED BY <1>4, <1>5, <2>2
<1> HIDE DEF n, old, new
<1>8. SumOver(new, 1 .. n + 1) = SumOver(old, 1..n) + new[n + 1] /\ SumOver(old, 1..n) \in Int
  BY <1>2, <1>5, <1>6, SumNext
<1>9. Total(new) = Total(old) + Fee(x) /\ Total(old) \in Int
  BY <1>6, <1>7, <1>8, TotalIsSum
<1> QED BY <1>9 DEF old, new

\* Failed calls, tips, removed accounts, blocks cut short: what the accounts
\* have lost is what the executed extrinsics paid (lib.rs:153-155, 168).
LEMMA SupplyInductive ==
  ASSUME MinimumBalance = 1
  PROVE  /\ RuntimeInit => SupplyShrinksByFees
         /\ RuntimeTypes /\ SupplyShrinksByFees /\ [RuntimeNext]_runtimeVars
              => SupplyShrinksByFees'
<1>1. ASSUME RuntimeInit PROVE SupplyShrinksByFees
  <2>1. Endowment \in Int /\ IsFiniteSet(Accounts) /\ Cardinality(Accounts) \in Nat
    BY RuntimeAssumption, FS_CardinalityType
  <2>2. balance \in [Accounts -> Int] /\ \A a \in Accounts : balance[a] = Endowment
    BY <1>1, <2>1 DEF RuntimeInit
  <2>3. Total(balance) = Endowment * Cardinality(Accounts)
    BY <2>1, <2>2, SumConstant, TotalIsSum
  <2>4. FeesPaid \in [{} -> Int]
    BY <1>1 DEF RuntimeInit, FeesPaid
  <2>5. Total(FeesPaid) = 0
    BY <2>4, TotalIsSum, SumEmpty
  <2>6. Endowment * Cardinality(Accounts) \in Int
    BY <2>1
  <2> QED BY <2>3, <2>5, <2>6 DEF SupplyShrinksByFees
<1>2. ASSUME RuntimeTypes, SupplyShrinksByFees, [RuntimeNext]_runtimeVars
      PROVE  SupplyShrinksByFees'
  <2>1. ASSUME NEW x \in Extrinsics, apply_extrinsic(x)
        PROVE  SupplyShrinksByFees'
    <3>1. Total(balance') = Total(balance) - Fee(x) /\ Total(balance) \in Int /\ Fee(x) \in Nat
      BY <1>2, <2>1, ExtrinsicCostsFee, FeeLeaves DEF RuntimeTypes, apply_extrinsic
    <3>2. Total(FeesPaid') = Total(FeesPaid) + Fee(x) /\ Total(FeesPaid) \in Int
      BY <1>2, <2>1, FeesGrow DEF RuntimeTypes
    <3>3. Total(balance') + Total(FeesPaid') = Total(balance) + Total(FeesPaid)
      BY <3>1, <3>2
    <3> QED BY <1>2, <3>3 DEF SupplyShrinksByFees
  <2>2. CASE UNCHANGED <<balance, executed>>
    BY <1>2, <2>2 DEF SupplyShrinksByFees, FeesPaid
  <2> QED BY <1>2, <2>1, <2>2 DEF RuntimeNext, open_block, accountVars, runtimeVars
<1> QED BY <1>1, <1>2

\* Burned fees are the only way IGTO leave the accounts of the node, and nothing
\* creates any: failed calls, transfers and removed accounts included.
THEOREM NodeSupply ==
  ASSUME MinimumBalance = 1
  PROVE  NodeSpec => []SupplyShrinksByFees
<1>1. RuntimeSpec => []RuntimeTypes
  BY TypesInductive, PTL DEF RuntimeSpec
<1>2. RuntimeSpec => []SupplyShrinksByFees
  BY <1>1, SupplyInductive, PTL DEF RuntimeSpec
<1> QED BY <1>2, NodeRefinesRuntime, PTL
=============================================================================
