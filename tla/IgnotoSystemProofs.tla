------------------------- MODULE IgnotoSystemProofs -------------------------
(***************************************************************************)
(* Proofs about scripts, node and bridge together, for every number of     *)
(* scripts, requests and chains, every era, block size and set of          *)
(* extrinsics.  A restart is the one step that no module alone has: it     *)
(* begins the runtime again while the scripts keep what they signed.       *)
(***************************************************************************)
EXTENDS IgnotoSystem, NodeProofs

-----------------------------------------------------------------------------
(***************************************************************************)
(* One chain after the other.                                              *)
(***************************************************************************)

ProcessTyped == incarnation \in 1..LastIncarnation

\* What a step of the system does to the runtime.
RuntimeMoves ==
  \/ \E x \in Extrinsics : PushExtrinsic(x)
  \/ StartBlock /\ number < LastBlock
  \/ UNCHANGED <<runtimeVars, process>>

\* Which steps of the system touch the runtime, and how.
LEMMA SystemStepMovesRuntime ==
  ASSUME [SystemNext]_systemVars
  PROVE  (RuntimeMoves /\ UNCHANGED past) \/ Restart
<1>1. ASSUME NEW x \in Extrinsics, Revalidate(x) \/ RefuseExtrinsic(x)
      PROVE  UNCHANGED <<runtimeVars, process>>
  BY <1>1 DEF Revalidate, RefuseExtrinsic
<1>2. ASSUME TimerFires \/ SealBlock
      PROVE  UNCHANGED <<runtimeVars, process>>
  BY <1>2 DEF TimerFires, SealBlock
<1>3. ASSUME NEW s \in Scripts, Run(s) \/ Repost(s) \/ Arrive(s) \/ Fail(s)
      PROVE  UNCHANGED <<runtimeVars, process, past>>
  BY <1>3 DEF Run, Repost, Arrive, Fail, Send, author_submitExtrinsic, nodeVars, historyVars
<1>4. ASSUME BridgeMoves \/ UNCHANGED systemVars
      PROVE  UNCHANGED <<runtimeVars, process, past>>
  BY <1>4 DEF BridgeMoves, systemVars, nodeVars, historyVars
<1> QED BY <1>1, <1>2, <1>3, <1>4
        DEF SystemNext, NodeStep, SealAndAnnounce, RuntimeMoves, historyVars

\* Whatever happens, the runtime takes a step of its own or begins again.
LEMMA SystemStepIsRuntimeStep ==
  ASSUME ProcessTyped, RuntimeTypes, [SystemNext]_systemVars
  PROVE  \/ [RuntimeNext]_runtimeVars /\ UNCHANGED <<incarnation, past>>
         \/ Restart
<1>1. ASSUME StartBlock
      PROVE  RuntimeNext /\ UNCHANGED incarnation
  <2>1. HashOf(number) \in Hashes
    BY SystemAssumption DEF ProcessTyped, RuntimeTypes, HeadersOK, HashOf
  <2> QED BY <1>1, <2>1 DEF StartBlock, RuntimeNext, process
<1>2. ASSUME NEW x \in Extrinsics, PushExtrinsic(x)
      PROVE  RuntimeNext /\ UNCHANGED incarnation
  BY <1>2 DEF PushExtrinsic, RuntimeNext, process
<1> QED BY <1>1, <1>2, SystemStepMovesRuntime DEF RuntimeMoves, process

\* A state like the initial one has the runtime's invariants.
LEMMA FreshRuntime == RuntimeInit' => TypeOK' /\ RuntimeTypes' /\ UsedUp' /\ NoncesInOrder'
<1>1. RuntimeInit => TypeOK /\ RuntimeTypes /\ UsedUp /\ NoncesInOrder
  BY PoolTypesInductive, TypesInductive, NoncesInductive DEF RuntimeInit
<1> QED BY <1>1, PTL

\* A restarted node has the state of its first start.
LEMMA RestartIsInit ==
  ASSUME Restart
  PROVE  RuntimeInit' /\ best' = State'
BY DEF Restart, NewChain, RuntimeInit, Init

\* What holds of the runtime of the chain that the node is building.
ChainInv ==
  /\ ProcessTyped /\ TypeOK /\ RuntimeTypes /\ UsedUp /\ NoncesInOrder
  /\ used <= Len(executed)

\* The runtime's invariants survive restarts.
LEMMA ChainInductive ==
  /\ SystemInit => ChainInv
  /\ ChainInv /\ [SystemNext]_systemVars => ChainInv'
<1>1. ASSUME SystemInit
      PROVE  ChainInv
  <2>1. RuntimeInit /\ ProcessTyped
    BY <1>1, SystemAssumption DEF SystemInit, NodeInit, ProcessTyped
  <2>2. used <= Len(executed)
    BY <2>1 DEF RuntimeInit
  <2> QED BY <2>1, <2>2, PoolTypesInductive, TypesInductive, NoncesInductive
          DEF ChainInv, RuntimeInit
<1>2. ASSUME ChainInv, [SystemNext]_systemVars
      PROVE  ChainInv'
  <2>1. CASE [RuntimeNext]_runtimeVars /\ UNCHANGED <<incarnation, past>>
    <3>1. TypeOK' /\ RuntimeTypes' /\ UsedUp' /\ NoncesInOrder'
      BY <1>2, <2>1, RuntimeStepIsPoolStep, PoolTypesInductive, TypesInductive, NoncesInductive
      DEF ChainInv
    <3>2. ProcessTyped'
      BY <1>2, <2>1 DEF ChainInv, ProcessTyped
    <3>3. used' <= Len(executed')
      <4>1. ASSUME NEW x \in Extrinsics, apply_extrinsic(x)
            PROVE  used' <= Len(executed')
        BY <1>2, <4>1, InBlockGrows DEF ChainInv
      <4>2. ASSUME NEW h \in Hashes, open_block(h)
            PROVE  used' <= Len(executed')
        BY <1>2, <4>2 DEF open_block, ChainInv, RuntimeTypes, HistoryOK
      <4>3. CASE UNCHANGED runtimeVars
        BY <1>2, <4>3 DEF runtimeVars, ChainInv
      <4> QED BY <2>1, <4>1, <4>2, <4>3 DEF RuntimeNext
    <3> QED BY <3>1, <3>2, <3>3 DEF ChainInv
  <2>2. CASE Restart
    <3>1. TypeOK' /\ RuntimeTypes' /\ UsedUp' /\ NoncesInOrder'
      BY <2>2, RestartIsInit, FreshRuntime
    <3>2. ProcessTyped'
      BY <1>2, <2>2, SystemAssumption DEF Restart, ChainInv, ProcessTyped
    <3>3. used' <= Len(executed')
      BY <2>2 DEF Restart, NewChain
    <3> QED BY <3>1, <3>2, <3>3 DEF ChainInv
  <2> QED BY <1>2, <2>1, <2>2, SystemStepIsRuntimeStep DEF ChainInv
<1> QED BY <1>1, <1>2

\* Every chain of the system, before and after restarts, executes the extrinsics
\* of one life of an account in the order of their nonces.
THEOREM SystemNoncesInOrder == SystemSpec => []NoncesInOrder
<1>1. ChainInv => NoncesInOrder
  BY DEF ChainInv
<1> QED BY <1>1, ChainInductive, PTL DEF SystemSpec
-----------------------------------------------------------------------------
(***************************************************************************)
(* What the scripts put into the pool.                                     *)
(***************************************************************************)

\* Extrinsics that one of the scripts may have signed.
Genuine ==
  {x \in [signer : Accounts, nonce : Nat, tip : {0}, version : {"current"}, birth : Nat,
          hash : Hashes, period : {Period}, kind : {s.kind : s \in Scripts},
          args : {s.args : s \in Scripts}] :
     \E s \in Scripts : x.signer = s.signer /\ x.kind = s.kind /\ x.args = s.args}

Stages == {"idle", "sent", "told", "failed"}
Messages == [stage : Stages, xt : Genuine \cup {None}, at : Nat, tries : Nat]

Scripted ==
  /\ script \in [Scripts -> Messages]
  /\ \A s \in Scripts : script[s].stage # "idle" => script[s].xt \in Genuine

Traffic ==
  /\ best \in States
  /\ txpool \subseteq Genuine /\ offer \subseteq Genuine
  /\ Scripted

\* What the chain holds is the first part of what was executed.
LEMMA ImportedIsPrefix ==
  ASSUME ChainInv, NEW i \in DOMAIN Imported.executed
  PROVE  i \in DOMAIN executed /\ Imported.executed[i] = executed[i]
<1> DEFINE Entry == [xt : Extrinsics, life : Nat]
           open == engine = "proposing"
           m == Len(executed) - (IF open THEN used ELSE 0)
<1>1. executed \in Seq(Entry) /\ used \in Nat /\ used <= Len(executed)
  BY RuntimeAssumption DEF ChainInv, RuntimeTypes, HistoryOK
<1>2. m \in Nat /\ m <= Len(executed)
  BY <1>1
<1>3. Imported.executed = SubSeq(executed, 1, m)
  BY DEF Imported
<1> HIDE DEF Entry, m
<1> QED BY <1>1, <1>2, <1>3

\* What a script may sign, between the best block and the one before it.
LEMMA SignableIsGenuine ==
  ASSUME ChainInv, best \in States, NEW s \in Scripts
  PROVE  Signable(s) \subseteq Genuine
<1> SUFFICES ASSUME NEW n \in NoncesRead(s.signer), NEW b \in 0 .. best.number
             PROVE  [signer |-> s.signer, nonce |-> n, tip |-> 0, version |-> "current",
                     birth |-> b, hash |-> HashOf(b), period |-> Period, kind |-> s.kind,
                     args |-> s.args] \in Genuine
  BY DEF Signable
<1>1. s.signer \in Accounts /\ best.nonce[s.signer] \in Nat /\ best.number \in 0..LastBlock
  BY SystemAssumption DEF States
<1>2. b \in Nat /\ b \in 0..LastBlock
  BY <1>1, RuntimeAssumption
<1>3. HashOf(b) \in Hashes
  BY <1>2, SystemAssumption DEF ChainInv, ProcessTyped, HashOf
<1>4. n \in Nat
  <2>1. ASSUME NEW i \in DOMAIN executed
        PROVE  executed[i].xt.nonce \in Nat
    <3> DEFINE Entry == [xt : Extrinsics, life : Nat]
    <3>1. executed \in Seq(Entry)
      BY DEF ChainInv, RuntimeTypes, HistoryOK
    <3> HIDE DEF Entry
    <3>2. executed[i] \in Entry
      BY <2>1, <3>1
    <3> QED BY <3>2, RuntimeAssumption DEF Entry
  <2> QED BY <1>1, <2>1, ImportedIsPrefix DEF NoncesRead
<1> QED BY <1>1, <1>2, <1>3, <1>4 DEF Genuine

\* A script that changes as sending or hearing change it.
LEMMA ScriptMoves ==
  ASSUME Scripted, NEW s \in Scripts, NEW m \in Messages,
         m.stage # "idle" => m.xt \in Genuine, script' = [script EXCEPT ![s] = m]
  PROVE  Scripted'
<1>1. script' \in [Scripts -> Messages]
  BY DEF Scripted
<1>2. \A t \in Scripts : script'[t] = IF t = s THEN m ELSE script[t]
  BY DEF Scripted
<1> QED BY <1>1, <1>2 DEF Scripted

\* A script that sends keeps its extrinsic.
LEMMA SendKeeps ==
  ASSUME Scripted, NEW s \in Scripts, NEW x \in Genuine, Send(s, x)
  PROVE  Scripted'
<1> DEFINE m == [stage |-> "sent", xt |-> x, at |-> 0, tries |-> script[s].tries + 1]
<1>1. script[s].tries \in Nat
  BY DEF Scripted, Messages
<1>2. m \in Messages /\ m.xt \in Genuine
  BY <1>1 DEF Messages, Stages
<1>3. script' = [script EXCEPT ![s] = m]
  BY DEF Send, Scripted
<1> QED BY <1>2, <1>3, ScriptMoves

\* Hearing changes the stage and the chain it belongs to.
LEMMA HearSays ==
  ASSUME Scripted, NEW s \in Scripts, NEW stage \in {"told", "failed"}, Hear(s, stage)
  PROVE  script' = [script EXCEPT ![s] =
                     [stage |-> stage, xt |-> script[s].xt,
                      at |-> IF stage = "told" THEN incarnation ELSE 0,
                      tries |-> script[s].tries]]
<1> DEFINE at == IF stage = "told" THEN incarnation ELSE 0
           r == script[s]
           one == [r EXCEPT !.stage = stage]
           two == [one EXCEPT !.at = at]
           m == [stage |-> stage, xt |-> r.xt, at |-> at, tries |-> r.tries]
<1>1. script \in [Scripts -> Messages] /\ r \in Messages
  BY DEF Scripted
<1> HIDE DEF at, r
<1>2. two = m
  <2>1. r = [stage |-> r.stage, xt |-> r.xt, at |-> r.at, tries |-> r.tries]
    BY <1>1 DEF Messages
  <2>2. one = [stage |-> stage, xt |-> r.xt, at |-> r.at, tries |-> r.tries]
    BY <2>1
  <2> HIDE DEF one
  <2> QED BY <2>2
<1>3. script' = [[script EXCEPT ![s] = one] EXCEPT ![s] = two]
  BY <1>1 DEF Hear, at, r
<1> HIDE DEF one, two, m
<1>4. script' = [script EXCEPT ![s] = m]
  BY <1>1, <1>2, <1>3
<1> QED BY <1>4 DEF m, r, at

\* A script that hears keeps its extrinsic.
LEMMA HearKeeps ==
  ASSUME ProcessTyped, Scripted, NEW s \in Scripts, script[s].xt \in Genuine,
         NEW stage \in {"told", "failed"}, Hear(s, stage)
  PROVE  Scripted'
<1> DEFINE m == [stage |-> stage, xt |-> script[s].xt,
                 at |-> IF stage = "told" THEN incarnation ELSE 0,
                 tries |-> script[s].tries]
<1>1. script[s].tries \in Nat /\ incarnation \in Nat
  BY SystemAssumption DEF Scripted, Messages, ProcessTyped
<1>2. m \in Messages /\ m.xt \in Genuine
  BY <1>1 DEF Messages, Stages
<1>3. script' = [script EXCEPT ![s] = m]
  BY HearSays
<1> QED BY <1>2, <1>3, ScriptMoves

\* The node brings no extrinsics of its own.
LEMMA NodeKeepsTraffic ==
  ASSUME ChainInv, Traffic, script' = script,
         \/ StartBlock \/ TimerFires \/ SealBlock
         \/ \E x \in Extrinsics : PushExtrinsic(x) \/ RefuseExtrinsic(x) \/ Revalidate(x)
  PROVE  Traffic'
<1>1. Genuine' = Genuine /\ States' = States /\ Scripted'
  BY DEF Genuine, States, Traffic, Scripted, Messages
<1>2. ASSUME best' = best \/ best' = State, txpool' \subseteq txpool, offer' \subseteq txpool \cup offer
      PROVE  Traffic'
  BY <1>1, <1>2, StateTyped DEF Traffic, ChainInv
<1>3. CASE StartBlock
  BY <1>2, <1>3, ReadyAreInPool DEF StartBlock, Proposable
<1>4. CASE TimerFires \/ SealBlock
  BY <1>2, <1>4 DEF TimerFires, SealBlock, Prune
<1>5. ASSUME NEW x \in Extrinsics, PushExtrinsic(x) \/ RefuseExtrinsic(x) \/ Revalidate(x)
      PROVE  Traffic'
  BY <1>2, <1>5 DEF PushExtrinsic, RefuseExtrinsic, Revalidate, poolVars
<1> QED BY <1>3, <1>4, <1>5

\* StateTyped in the next state.
LEMMA NextStateTyped == RuntimeTypes' => (State \in States)'
BY StateTyped, PTL

\* All extrinsics come from scripts, by induction.
LEMMA TrafficInductive ==
  /\ SystemInit => Traffic
  /\ ChainInv /\ ChainInv' /\ Traffic /\ [SystemNext]_systemVars => Traffic'
<1>1. ASSUME SystemInit
      PROVE  Traffic
  <2>1. RuntimeTypes /\ best = State /\ txpool = {} /\ offer = {}
    BY <1>1, TypesInductive DEF SystemInit, NodeInit
  <2>2. \A s \in Scripts : script[s] = [stage |-> "idle", xt |-> None, at |-> 0, tries |-> 0]
    BY <1>1 DEF SystemInit
  <2>3. script \in [Scripts -> Messages]
    BY <1>1 DEF SystemInit, Messages, Stages
  <2> QED BY <2>1, <2>2, <2>3, StateTyped DEF Traffic, Scripted
<1>2. ASSUME ChainInv, ChainInv', Traffic, [SystemNext]_systemVars
      PROVE  Traffic'
  <2>0. Scripted /\ ProcessTyped /\ best \in States
    BY <1>2 DEF Traffic, ChainInv
  <2>1. ASSUME Scripted', UNCHANGED nodeVars
        PROVE  Traffic'
    BY <1>2, <2>1 DEF Traffic, nodeVars, poolVars, States
  <2>2. ASSUME NEW s \in Scripts, Run(s)
        PROVE  Traffic'
    <3>1. PICK x \in Signable(s) : Send(s, x)
      BY <2>2 DEF Run
    <3>2. x \in Genuine
      BY <1>2, <2>0, SignableIsGenuine
    <3> QED BY <2>0, <2>1, <3>1, <3>2, SendKeeps DEF Send
  <2>3. ASSUME NEW s \in Scripts, Repost(s)
        PROVE  Traffic'
    <3>1. script[s].xt \in Genuine
      BY <2>0, <2>3 DEF Repost, Scripted
    <3> QED BY <2>0, <2>1, <2>3, <3>1, SendKeeps DEF Repost, Send
  <2>4. ASSUME NEW s \in Scripts, Arrive(s)
        PROVE  Traffic'
    <3>1. script[s].xt \in Genuine
      BY <2>0, <2>4 DEF Arrive, Scripted
    <3>2. Scripted'
      BY <2>0, <2>4, <3>1, HearKeeps DEF Arrive
    <3>3. best' = best /\ offer' = offer /\ txpool' \subseteq txpool \cup {script[s].xt}
      <4>1. /\ best' = best /\ offer' = offer
            /\ txpool' \in Enforced(Joined(script[s].xt))
        BY <2>4 DEF Arrive, author_submitExtrinsic
      <4>2. txpool' \subseteq Joined(script[s].xt)
        BY <4>1, LimitsOnlyDrop
      <4> QED BY <4>1, <4>2 DEF Joined
    <3> QED BY <1>2, <3>1, <3>2, <3>3 DEF Traffic, States
  <2>5. ASSUME NEW s \in Scripts, Fail(s)
        PROVE  Traffic'
    <3>1. script[s].xt \in Genuine
      BY <2>0, <2>5 DEF Fail, Scripted
    <3>2. Scripted'
      BY <2>0, <2>5, <3>1, HearKeeps DEF Fail
    <3> QED BY <2>1, <2>5, <3>2 DEF Fail
  <2>6. CASE UNCHANGED <<nodeVars, script>>
    BY <2>0, <2>1, <2>6 DEF Scripted
  <2>7. CASE NodeStep \/ SealAndAnnounce
    BY <1>2, <2>7, NodeKeepsTraffic DEF NodeStep, SealAndAnnounce
  <2>8. CASE Restart
    <3>1. Scripted' /\ txpool' = {} /\ offer' = {} /\ best' = State'
      BY <2>0, <2>8 DEF Restart, NewChain, Scripted
    <3>2. RuntimeTypes'
      BY <1>2 DEF ChainInv
    <3>3. State' \in States'
      BY <3>2, NextStateTyped
    <3> QED BY <3>1, <3>3 DEF Traffic
  <2> QED BY <1>2, <2>2, <2>3, <2>4, <2>5, <2>6, <2>7, <2>8 DEF SystemNext, BridgeMoves, systemVars
<1> QED BY <1>1, <1>2
-----------------------------------------------------------------------------
(***************************************************************************)
(* The accounts.  No account is removed: either nothing but shielded calls *)
(* is signed, or the endowments outlast the blocks.                        *)
(***************************************************************************)

Lives == \A a \in Accounts : life[a] = 0

\* A block has room for BlockLimit extrinsics, and there is none before the first.
RoomLeft ==
  IF number = 0 THEN executed = <<>> /\ used = 0
  ELSE Len(executed) + (BlockLimit - used) <= BlockLimit * number

\* Multiplication is monotone,
LEMMA TimesMonotone ==
  ASSUME NEW a \in Nat, NEW b \in Nat, NEW c \in Nat, b <= c
  PROVE  a * b <= a * c
<1> DEFINE d == c - b
<1>1. d \in Nat /\ c = b + d
  OBVIOUS
<1> HIDE DEF d
<1>2. a * (b + d) = a * b + a * d
  BY <1>1
<1>3. a * d \in Nat /\ a * b \in Nat
  BY <1>1
<1> QED BY <1>1, <1>2, <1>3

\* and distributes over the successor.
LEMMA TimesNext ==
  ASSUME NEW a \in Nat, NEW b \in Nat
  PROVE  a * (b + 1) = a * b + a
OBVIOUS

\* How many extrinsics fit into all blocks.
LEMMA RoomBound ==
  ASSUME ChainInv, RoomLeft
  PROVE  /\ Len(executed) \in Nat /\ Len(executed) <= BlockLimit * LastBlock
<1>1. /\ number \in Nat /\ LastBlock \in Nat /\ number <= LastBlock /\ BlockLimit \in Nat
      /\ used \in 0..BlockLimit /\ Len(executed) \in Nat
  BY RuntimeAssumption DEF ChainInv, RuntimeTypes, HeadersOK, HistoryOK
<1>2. /\ BlockLimit * number <= BlockLimit * LastBlock
      /\ BlockLimit * number \in Nat /\ BlockLimit * LastBlock \in Nat
  BY <1>1, TimesMonotone
<1> DEFINE now == BlockLimit * number
           most == BlockLimit * LastBlock
<1>3. CASE number = 0
  <2>1. Len(executed) = 0
    BY <1>3 DEF RoomLeft
  <2> QED BY <1>1, <1>2, <1>3, <2>1
<1>4. CASE number # 0
  <2>1. Len(executed) + (BlockLimit - used) <= now
    BY <1>4 DEF RoomLeft
  <2>2. now <= most /\ now \in Nat /\ most \in Nat
    BY <1>2
  <2> HIDE DEF now, most
  <2>3. Len(executed) <= most
    BY <1>1, <2>1, <2>2
  <2> QED BY <1>1, <2>3 DEF most
<1> QED BY <1>3, <1>4

\* Blocks stay within their weight, in total.
LEMMA RoomKeeps ==
  ASSUME ChainInv, RoomLeft, [SystemNext]_systemVars
  PROVE  RoomLeft'
<1>0. /\ number \in Nat /\ LastBlock \in Nat /\ BlockLimit \in Nat
      /\ used \in 0..BlockLimit /\ Len(executed) \in Nat
  BY RuntimeAssumption DEF ChainInv, RuntimeTypes, HeadersOK, HistoryOK
<1>1. ASSUME NEW x \in Extrinsics, PushExtrinsic(x)
      PROVE  RoomLeft'
  <2>1. /\ number > 0 /\ number' = number /\ used' = used + 1
        /\ executed' = Append(executed, [xt |-> x, life |-> life[x.signer]])
    BY <1>0, <1>1, RuntimeAssumption
    DEF PushExtrinsic, apply_extrinsic, headerVars, Applicable, CheckSignature, State
  <2>2. Len(executed') = Len(executed) + 1
    BY <2>1 DEF ChainInv, RuntimeTypes, HistoryOK
  <2>3. Len(executed) + (BlockLimit - used) <= BlockLimit * number
    BY <1>0, <2>1 DEF RoomLeft
  <2> DEFINE now == BlockLimit * number
  <2>4. now \in Nat /\ Len(executed) + (BlockLimit - used) <= now
    BY <1>0, <2>3
  <2>5. RoomLeft' <=> Len(executed') + (BlockLimit - used') <= now
    BY <1>0, <2>1 DEF RoomLeft
  <2> HIDE DEF now
  <2> QED BY <1>0, <2>1, <2>2, <2>4, <2>5
<1>2. CASE StartBlock /\ number < LastBlock
  <2>1. number' = number + 1 /\ used' = 0 /\ executed' = executed
    BY <1>0, <1>2 DEF StartBlock, open_block, Opened, State
  <2> DEFINE now == BlockLimit * number
  <2>2. now \in Nat /\ BlockLimit * (number + 1) = now + BlockLimit
    BY <1>0, TimesNext
  <2>3. Len(executed) <= now
    <3>1. CASE number = 0
      BY <1>0, <2>2, <3>1 DEF RoomLeft
    <3>2. CASE number # 0
      <4>1. Len(executed) + (BlockLimit - used) <= now
        BY <3>2 DEF RoomLeft
      <4> HIDE DEF now
      <4> QED BY <1>0, <2>2, <4>1
    <3> QED BY <3>1, <3>2
  <2>4. RoomLeft' <=> Len(executed) + (BlockLimit - 0) <= now + BlockLimit
    BY <1>0, <2>1, <2>2 DEF RoomLeft
  <2> HIDE DEF now
  <2> QED BY <1>0, <2>2, <2>3, <2>4
<1>3. CASE UNCHANGED runtimeVars
  BY <1>3 DEF runtimeVars, headerVars, RoomLeft
<1>4. CASE Restart
  BY <1>4 DEF Restart, NewChain, RoomLeft
<1> QED BY <1>1, <1>2, <1>3, <1>4, SystemStepMovesRuntime DEF RuntimeMoves

\* The most that one extrinsic costs.
Covers(m) ==
  /\ \A s \in Scripts : Cost(s) <= m
  /\ m * (BlockLimit * LastBlock) + m + MinimumBalance <= Endowment
Dearest == CHOOSE m \in 1..Endowment : Covers(m)

\* The dearest extrinsic is within the endowments.
LEMMA DearestCovers ==
  ASSUME Funded
  PROVE  Dearest \in Nat /\ Dearest >= 1 /\ Covers(Dearest)
<1>1. \E m \in 1..Endowment : Covers(m)
  BY DEF Funded, Covers
<1>2. Dearest \in 1..Endowment /\ Covers(Dearest)
  BY <1>1 DEF Dearest
<1> QED BY <1>2, RuntimeAssumption

\* What is known of an extrinsic that a script signed.
LEMMA GenuineFields ==
  ASSUME NEW x \in Genuine
  PROVE  /\ x.signer \in Accounts /\ x.nonce \in Nat /\ x.tip = 0 /\ x.birth \in Nat
         /\ x.version = "current" /\ x.period = Period /\ Fee(x) = 1
         /\ NoTransfers => x.kind # "transfer_allow_death"
         /\ Funded => Cost(x) <= Dearest
<1>1. /\ x.signer \in Accounts /\ x.nonce \in Nat /\ x.tip = 0 /\ x.birth \in Nat
      /\ x.version = "current" /\ x.period = Period
  BY DEF Genuine
<1>2. PICK s \in Scripts : x.kind = s.kind /\ x.args = s.args
  BY DEF Genuine
<1>3. Cost(x) = Cost(s)
  BY <1>2 DEF Cost
<1>4. Funded => Cost(s) <= Dearest
  BY DearestCovers DEF Covers
<1> QED BY <1>1, <1>2, <1>3, <1>4 DEF NoTransfers, Fee

\* An extrinsic costs its fee at least.
LEMMA CostIsNumber ==
  ASSUME NEW x \in Extrinsics
  PROVE  Cost(x) \in Nat /\ Cost(x) >= 1
BY RuntimeAssumption DEF Cost

\* What an extrinsic does to the accounts when its signer can afford it.
LEMMA AffordableKeeps ==
  ASSUME AccountsOK, NEW x \in Extrinsics, x.tip = 0, apply_extrinsic(x),
         x.kind = "transfer_allow_death" => balance[x.signer] >= Cost(x) + MinimumBalance
  PROVE  /\ nonce' = [nonce EXCEPT ![x.signer] = @ + 1] /\ life' = life
         /\ \A a \in Accounts : balance'[a] >= balance[a] - Cost(x)
<1> DEFINE b == balance[x.signer]
<1>1. /\ Applicable(x, State) /\ x.signer \in Accounts /\ Paid(x) \in [Accounts -> Nat]
      /\ MinimumBalance \in Nat /\ b \in Nat
  BY FeeIsCovered, RuntimeAssumption DEF apply_extrinsic, AccountsOK
<1>2. Paid(x)[x.signer] = b - 1
  BY <1>1 DEF Paid, Fee, AccountsOK
<1>3. Cost(x) \in Nat /\ Cost(x) >= 1
  BY CostIsNumber
<1>4. ASSUME NEW a \in Accounts, a # x.signer
      PROVE  balance'[a] >= balance[a] - Cost(x)
  <2>1. balance'[a] >= balance[a] /\ balance[a] \in Nat /\ balance'[a] \in Nat
    BY <1>4, OthersKeep, AccountStep DEF AccountsOK
  <2> QED BY <1>3, <2>1
<1>5. CASE Charged(x)
  <2>1. balance'[x.signer] >= b - Cost(x)
    BY <1>1, <1>2, <1>3, <1>5 DEF Charged
  <2> QED BY <1>4, <1>5, <2>1 DEF Charged
<1>6. CASE x.kind = "transfer_allow_death" /\ (TransferMoves(x) \/ TransferReaps(x))
  <2> DEFINE n == x.args.amount
             sent == [Paid(x) EXCEPT ![x.signer] = @ - n]
  <2>1. n \in Nat /\ x.args.dest \in Accounts /\ Cost(x) = 1 + n
    BY <1>6, RuntimeAssumption DEF Cost
  <2> HIDE DEF n
  <2>2. sent[x.signer] = b - 1 - n /\ b - 1 - n >= MinimumBalance
    BY <1>1, <1>2, <1>6, <2>1
  <2>3. DOMAIN sent = Accounts /\ Moved(x) = [sent EXCEPT ![x.args.dest] = @ + n]
    BY <1>1 DEF Moved, n
  <2> HIDE DEF sent, b
  <2>4. Moved(x)[x.signer] >= b - 1 - n
    BY <1>1, <2>1, <2>2, <2>3
  <2>5. Moved(x) \in [Accounts -> Nat]
    BY <1>1, <1>6, MovesNumbers DEF TransferMoves, TransferReaps
  <2>6. Moved(x)[x.signer] >= MinimumBalance
    BY <1>1, <2>1, <2>2, <2>4, <2>5
  <2>7. TransferMoves(x)
    BY <1>1, <1>6, <2>5, <2>6 DEF TransferReaps
  <2>8. balance'[x.signer] >= b - Cost(x)
    BY <2>1, <2>4, <2>7, <1>1 DEF TransferMoves
  <2> QED BY <1>4, <2>7, <2>8 DEF TransferMoves, b
<1> QED BY <1>5, <1>6 DEF apply_extrinsic, Dispatch, TransferFails

\* No account has lost more than the chain's extrinsics cost.
Solvent == \A a \in Accounts : balance[a] + Dearest * Len(executed) >= Endowment

AccountsInv == Lives /\ RoomLeft /\ (Funded => Solvent)

\* However full the blocks are, everybody can pay for one more extrinsic.
LEMMA CanAfford ==
  ASSUME ChainInv, RoomLeft, Solvent, Funded, NEW a \in Accounts
  PROVE  balance[a] >= Dearest + MinimumBalance
<1> DEFINE most == BlockLimit * LastBlock
           n == Len(executed)
<1>1. /\ n \in Nat /\ n <= most /\ Dearest \in Nat /\ MinimumBalance \in Nat
      /\ Endowment \in Nat /\ balance[a] \in Nat /\ most \in Nat
  BY RoomBound, DearestCovers, RuntimeAssumption DEF ChainInv, RuntimeTypes, AccountsOK
<1>2. Dearest * most + Dearest + MinimumBalance <= Endowment
  BY DearestCovers DEF Covers
<1> HIDE DEF most, n
<1>3. Dearest * n <= Dearest * most /\ Dearest * n \in Nat /\ Dearest * most \in Nat
  BY <1>1, TimesMonotone
<1>4. balance[a] + Dearest * n >= Endowment
  BY DEF Solvent, n
<1> DEFINE p == Dearest * n
           q == Dearest * most
<1>5. /\ p \in Nat /\ q \in Nat /\ p <= q /\ balance[a] + p >= Endowment
      /\ q + Dearest + MinimumBalance <= Endowment
  BY <1>2, <1>3, <1>4
<1> HIDE DEF p, q
<1> QED BY <1>1, <1>5

\* No extrinsic of a script removes an account or overdraws it.
LEMMA AccountsKeep ==
  ASSUME NoTransfers \/ Funded, ChainInv, AccountsInv, Traffic,
         NEW x \in Extrinsics, PushExtrinsic(x)
  PROVE  /\ nonce' = [nonce EXCEPT ![x.signer] = @ + 1] /\ Lives'
         /\ Funded => Solvent'
<1>1. /\ x \in Genuine /\ apply_extrinsic(x) /\ AccountsOK /\ used < BlockLimit
      /\ executed \in Seq([xt : Extrinsics, life : Nat])
  BY DEF PushExtrinsic, Offered, Traffic, ChainInv, RuntimeTypes, HistoryOK
<1>2. /\ x.signer \in Accounts /\ x.tip = 0 /\ x.birth \in Nat
      /\ NoTransfers => x.kind # "transfer_allow_death"
      /\ Funded => Cost(x) <= Dearest
  BY <1>1, GenuineFields
<1>3. ASSUME Funded
      PROVE  balance[x.signer] >= Cost(x) + MinimumBalance
  <2>1. balance[x.signer] >= Dearest + MinimumBalance
    BY <1>1, <1>2, <1>3, CanAfford DEF AccountsInv
  <2>2. Cost(x) \in Nat /\ Dearest \in Nat /\ MinimumBalance \in Nat /\ balance[x.signer] \in Nat
    BY <1>1, <1>2, <1>3, CostIsNumber, DearestCovers, RuntimeAssumption DEF AccountsOK
  <2> QED BY <1>2, <1>3, <2>1, <2>2
<1>4. /\ nonce' = [nonce EXCEPT ![x.signer] = @ + 1] /\ life' = life
      /\ \A a \in Accounts : balance'[a] >= balance[a] - Cost(x)
  BY <1>1, <1>2, <1>3, AffordableKeeps
<1>5. Lives'
  BY <1>4 DEF Lives, AccountsInv
<1>6. ASSUME Funded, NEW a \in Accounts
      PROVE  balance'[a] + Dearest * Len(executed') >= Endowment
  <2> DEFINE n == Len(executed)
             p == Dearest * n
  <2>1. n \in Nat /\ Len(executed') = n + 1
    BY <1>1 DEF apply_extrinsic
  <2>2. /\ Dearest \in Nat /\ p \in Nat /\ Dearest * (n + 1) = p + Dearest
        /\ Endowment \in Nat /\ Cost(x) \in Nat
        /\ balance[a] \in Nat /\ balance'[a] \in Nat
    <3>1. Dearest \in Nat /\ Endowment \in Nat /\ Cost(x) \in Nat
      BY <1>6, DearestCovers, CostIsNumber, RuntimeAssumption
    <3>2. p \in Nat /\ Dearest * (n + 1) = p + Dearest
      BY <2>1, <3>1, TimesNext
    <3>3. balance[a] \in Nat /\ balance'[a] \in Nat
      BY <1>1, <1>6, AccountStep DEF AccountsOK
    <3> QED BY <3>1, <3>2, <3>3
  <2>3. balance[a] + p >= Endowment
    BY <1>6 DEF AccountsInv, Solvent
  <2> HIDE DEF p, n
  <2>4. balance'[a] + (p + Dearest) >= Endowment
    BY <1>2, <1>4, <1>6, <2>2, <2>3
  <2> QED BY <2>1, <2>2, <2>4
<1> QED BY <1>4, <1>5, <1>6 DEF Solvent

\* The accounts, by induction.
LEMMA AccountsInductive ==
  ASSUME NoTransfers \/ Funded
  PROVE  /\ SystemInit => AccountsInv
         /\ ChainInv /\ Traffic /\ AccountsInv /\ [SystemNext]_systemVars => AccountsInv'
<1>1. ASSUME \A a \in Accounts : life[a] = 0 /\ balance[a] = Endowment,
             number = 0, used = 0, executed = <<>>
      PROVE  AccountsInv
  <2>1. Funded => Solvent
    <3>1. ASSUME Funded PROVE Dearest * 0 = 0
      BY <3>1, DearestCovers
    <3>2. Len(executed) = 0 /\ Endowment \in Nat
      BY <1>1, RuntimeAssumption
    <3> QED BY <1>1, <3>1, <3>2 DEF Solvent
  <2> QED BY <1>1, <2>1 DEF AccountsInv, Lives, RoomLeft
<1>2. SystemInit => AccountsInv
  BY <1>1 DEF SystemInit, NodeInit, RuntimeInit
<1>3. ASSUME ChainInv, Traffic, AccountsInv, [SystemNext]_systemVars
      PROVE  AccountsInv'
  <2>1. RoomLeft'
    BY <1>3, RoomKeeps DEF AccountsInv
  <2>2. ASSUME NEW x \in Extrinsics, PushExtrinsic(x)
        PROVE  Lives' /\ (Funded => Solvent')
    BY <1>3, <2>2, AccountsKeep
  <2>3. ASSUME UNCHANGED <<accountVars, executed>>
        PROVE  Lives' /\ (Funded => Solvent')
    BY <1>3, <2>3 DEF accountVars, AccountsInv, Lives, Solvent
  <2>4. ASSUME StartBlock \/ UNCHANGED runtimeVars
        PROVE  UNCHANGED <<accountVars, executed>>
    BY <2>4 DEF StartBlock, open_block, runtimeVars
  <2>5. ASSUME Restart
        PROVE  Lives' /\ (Funded => Solvent')
    <3>1. \A a \in Accounts : life'[a] = 0 /\ balance'[a] = Endowment
      BY <2>5 DEF Restart, NewChain
    <3>2. Len(executed') = 0 /\ Endowment \in Nat
      BY <2>5, RuntimeAssumption DEF Restart, NewChain
    <3>3. ASSUME Funded PROVE Dearest * 0 = 0
      BY <3>3, DearestCovers
    <3> QED BY <3>1, <3>2, <3>3 DEF Lives, Solvent
  <2>6. Lives' /\ (Funded => Solvent')
    BY <1>3, <2>2, <2>3, <2>4, <2>5, SystemStepMovesRuntime DEF RuntimeMoves
  <2>7. Funded' <=> Funded
    BY DEF Funded, Cost
  <2> QED BY <2>1, <2>6, <2>7 DEF AccountsInv
<1> QED BY <1>2, <1>3
-----------------------------------------------------------------------------
(***************************************************************************)
(* Signatures.  The hash that a signature covers names the chain it was    *)
(* made on, unless it is that of the genesis block; so what one chain has  *)
(* executed no other one does.                                             *)
(***************************************************************************)

Hashed == \A n \in 0 .. number - 1 : block_hash[n + 1] = HashOf(n)
Signatures ==
  \A i \in DOMAIN executed : executed[i].xt.hash = HashOf(executed[i].xt.birth)

SignInv == Hashed /\ Signatures

\* Hashes and signatures are those of this chain, by induction.
LEMMA SignInductive ==
  /\ SystemInit => SignInv
  /\ ChainInv /\ SignInv /\ [SystemNext]_systemVars => SignInv'
<1>1. SystemInit => SignInv
  BY DEF SystemInit, NodeInit, RuntimeInit, SignInv, Hashed, Signatures
<1>2. ASSUME ChainInv, SignInv, [SystemNext]_systemVars
      PROVE  SignInv'
  <2>0. /\ number \in Nat /\ LastBlock \in Nat /\ block_hash \in Seq(Hashes)
        /\ Len(block_hash) = number /\ executed \in Seq([xt : Extrinsics, life : Nat])
    BY <1>2, RuntimeAssumption DEF ChainInv, RuntimeTypes, HeadersOK, HistoryOK
  <2>1. ASSUME NEW x \in Extrinsics, PushExtrinsic(x)
        PROVE  SignInv'
    <3>1. /\ number' = number /\ block_hash' = block_hash /\ incarnation' = incarnation
          /\ executed' = Append(executed, [xt |-> x, life |-> life[x.signer]])
          /\ x.birth < number /\ block_hash[x.birth + 1] = x.hash
      BY <2>1
      DEF PushExtrinsic, apply_extrinsic, headerVars, Applicable, CheckSignature, State, process
    <3>2. x.birth \in 0 .. number - 1
      BY <2>0, <3>1, RuntimeAssumption
    <3>3. x.hash = HashOf(x.birth)
      BY <1>2, <3>1, <3>2 DEF SignInv, Hashed
    <3>4. \A n : HashOf(n)' = HashOf(n)
      BY <3>1 DEF HashOf
    <3>5. Hashed'
      BY <1>2, <3>1, <3>4 DEF SignInv, Hashed
    <3>6. ASSUME NEW i \in DOMAIN executed'
          PROVE  executed'[i].xt.hash = BlockHash(incarnation', executed'[i].xt.birth)
      <4>1. (i \in DOMAIN executed /\ executed'[i] = executed[i]) \/ executed'[i].xt = x
        BY <2>0, <3>1, <3>6
      <4> QED BY <1>2, <3>1, <3>3, <4>1 DEF SignInv, Signatures, HashOf
    <3> QED BY <3>5, <3>6 DEF SignInv, Signatures, HashOf
  <2>2. ASSUME StartBlock, number < LastBlock
        PROVE  SignInv'
    <3>1. /\ number' = number + 1 /\ block_hash' = Append(block_hash, HashOf(number))
          /\ incarnation' = incarnation /\ executed' = executed
      BY <2>0, <2>2 DEF StartBlock, open_block, Opened, State, process
    <3>2. HashOf(number) \in Hashes
      BY <1>2, SystemAssumption DEF ChainInv, ProcessTyped, RuntimeTypes, HeadersOK, HashOf
    <3>3. \A n : HashOf(n)' = HashOf(n)
      BY <3>1 DEF HashOf
    <3>4. ASSUME NEW n \in 0..number
          PROVE  block_hash'[n + 1] = HashOf(n)
      <4>1. CASE n = number
        BY <2>0, <3>1, <3>2, <4>1
      <4>2. CASE n \in 0 .. number - 1
        <5>1. n + 1 \in 1 .. Len(block_hash) /\ block_hash[n + 1] = HashOf(n)
          BY <1>2, <2>0, <4>2 DEF SignInv, Hashed
        <5>2. block_hash'[n + 1] = block_hash[n + 1]
          BY <2>0, <3>1, <3>2, <5>1
        <5> QED BY <5>1, <5>2
      <4> QED BY <2>0, <4>1, <4>2
    <3>5. Hashed'
      <4>1. number' - 1 = number
        BY <2>0, <3>1
      <4> QED BY <3>3, <3>4, <4>1 DEF Hashed
    <3>6. Signatures'
      BY <1>2, <3>1, <3>3 DEF SignInv, Signatures
    <3> QED BY <3>5, <3>6 DEF SignInv
  <2>3. ASSUME UNCHANGED <<runtimeVars, process>>
        PROVE  SignInv'
    BY <1>2, <2>3 DEF runtimeVars, headerVars, process, SignInv, Hashed, Signatures, HashOf
  <2>4. ASSUME Restart
        PROVE  SignInv'
    BY <2>4 DEF Restart, NewChain, SignInv, Hashed, Signatures
  <2> QED BY <1>2, <2>1, <2>2, <2>3, <2>4, SystemStepMovesRuntime DEF RuntimeMoves
<1> QED BY <1>1, <1>2

-----------------------------------------------------------------------------
(***************************************************************************)
(* The chains that are gone.                                               *)
(***************************************************************************)

Logs == [executed : Seq([xt : Extrinsics, life : Nat]), transfers : Int]

\* A log of chain c holds nothing twice, and nothing signed on another chain.
Settled(log, c) ==
  \A i, j \in DOMAIN log.executed :
    /\ log.executed[i].xt.hash = BlockHash(c, log.executed[i].xt.birth)
    /\ log.executed[i].xt = log.executed[j].xt => i = j

PastInv ==
  /\ past \in Seq(Logs) /\ Len(past) + 1 = incarnation
  /\ \A c \in DOMAIN past : Settled(past[c], c)

\* In their signers' first lives, all extrinsics differ.
LEMMA ExecutedOnce ==
  ASSUME ChainInv, Lives, NEW i \in DOMAIN executed, NEW j \in DOMAIN executed,
         executed[i].xt = executed[j].xt
  PROVE  i = j
<1>1. \A n \in DOMAIN executed :
        /\ executed[n].life \in Nat /\ executed[n].xt.signer \in Accounts
        /\ executed[n].xt.nonce \in Nat
  <2> DEFINE Entry == [xt : Extrinsics, life : Nat]
  <2>1. executed \in Seq(Entry)
    BY DEF ChainInv, RuntimeTypes, HistoryOK
  <2> HIDE DEF Entry
  <2>2. \A n \in DOMAIN executed : executed[n] \in Entry
    BY <2>1
  <2> QED BY <2>2, RuntimeAssumption DEF Entry
<1>2. \A n \in DOMAIN executed : executed[n].life = 0
  BY <1>1 DEF ChainInv, UsedUp, Lives
<1>3. ~(i < j) /\ ~(j < i)
  BY <1>1, <1>2 DEF ChainInv, NoncesInOrder
<1>4. i \in Int /\ j \in Int
  BY DEF ChainInv, RuntimeTypes, HistoryOK
<1> QED BY <1>3, <1>4

\* What the chain holds is a log.
LEMMA ImportedLogged ==
  ASSUME ChainInv
  PROVE  Imported \in Logs
<1> DEFINE Entry == [xt : Extrinsics, life : Nat]
           open == engine = "proposing"
           m == Len(executed) - (IF open THEN used ELSE 0)
           t == Len(accepted) - (IF open THEN Cardinality(TransferEvents) ELSE 0)
<1>1. executed \in Seq(Entry) /\ used \in Nat /\ used <= Len(executed)
  BY RuntimeAssumption DEF ChainInv, RuntimeTypes, HistoryOK
<1>2. m \in Nat /\ m <= Len(executed)
  BY <1>1
<1>3. t \in Int
  <2>1. Len(accepted) \in Nat /\ Cardinality(TransferEvents) \in Nat
    BY TransferPositions DEF ChainInv, TypeOK
  <2> QED BY <2>1
<1>4. Imported = [executed |-> SubSeq(executed, 1, m), transfers |-> t]
  BY DEF Imported
<1> HIDE DEF Entry, m, t
<1>5. SubSeq(executed, 1, m) \in Seq(Entry)
  BY <1>1, <1>2
<1> QED BY <1>3, <1>4, <1>5 DEF Logs, Entry

\* What the present chain holds is settled.
LEMMA ImportedSettled ==
  ASSUME ChainInv, Lives, SignInv
  PROVE  Imported \in Logs /\ Settled(Imported, incarnation)
<1> DEFINE Entry == [xt : Extrinsics, life : Nat]
           open == engine = "proposing"
           m == Len(executed) - (IF open THEN used ELSE 0)
           part == SubSeq(executed, 1, m)
<1>1. executed \in Seq(Entry) /\ used \in Nat /\ used <= Len(executed)
  BY RuntimeAssumption DEF ChainInv, RuntimeTypes, HistoryOK
<1>2. m \in Nat /\ m <= Len(executed)
  BY <1>1
<1>3. Imported.executed = part
  BY DEF Imported
<1> HIDE DEF Entry, m
<1>4. /\ part \in Seq(Entry) /\ DOMAIN part = 1..m
      /\ \A i \in 1..m : i \in DOMAIN executed /\ part[i] = executed[i]
  BY <1>1, <1>2
<1> HIDE DEF part
<1>5. \A i, j \in 1..m : /\ part[i].xt.hash = BlockHash(incarnation, part[i].xt.birth)
                         /\ part[i].xt = part[j].xt => i = j
  BY <1>4, ExecutedOnce DEF SignInv, Signatures, HashOf
<1> QED BY <1>3, <1>4, <1>5, ImportedLogged DEF Settled

\* What the chains that are gone held is settled, by induction.
LEMMA PastInductive ==
  /\ SystemInit => PastInv
  /\ ChainInv /\ Lives /\ SignInv /\ PastInv /\ [SystemNext]_systemVars => PastInv'
<1>1. SystemInit => PastInv
  BY DEF SystemInit, NodeInit, PastInv
<1>2. ASSUME ChainInv, Lives, SignInv, PastInv, [SystemNext]_systemVars
      PROVE  PastInv'
  <2>1. ASSUME Restart
        PROVE  PastInv'
    <3>1. /\ past' = Append(past, Imported) /\ incarnation' = incarnation + 1
          /\ past \in Seq(Logs) /\ Len(past) + 1 = incarnation
          /\ Imported \in Logs /\ Settled(Imported, incarnation)
      BY <1>2, <2>1, ImportedSettled DEF Restart, PastInv
    <3>2. past' \in Seq(Logs) /\ Len(past') + 1 = incarnation'
      BY <3>1
    <3>3. ASSUME NEW c \in DOMAIN past'
          PROVE  Settled(past'[c], c)
      <4>1. \/ c \in DOMAIN past /\ past'[c] = past[c]
            \/ c = incarnation /\ past'[c] = Imported
        BY <3>1
      <4> QED BY <1>2, <3>1, <4>1 DEF PastInv
    <3> QED BY <3>2, <3>3 DEF PastInv, Logs, Settled
  <2>2. ASSUME UNCHANGED <<past, incarnation>>
        PROVE  PastInv'
    BY <1>2, <2>2 DEF PastInv, Logs, Settled
  <2>3. Restart \/ UNCHANGED <<past, incarnation>>
    BY <1>2, SystemStepIsRuntimeStep DEF ChainInv
  <2> QED BY <2>1, <2>2, <2>3
<1> QED BY <1>1, <1>2

\* Every chain there was or is.
LEMMA ChainsSettled ==
  ASSUME ChainInv, Lives, SignInv, PastInv, NEW c \in DOMAIN Chains
  PROVE  c \in Nat /\ Settled(Chains[c], c)
<1>1. /\ past \in Seq(Logs) /\ Len(past) + 1 = incarnation
      /\ Imported \in Logs /\ Settled(Imported, incarnation)
  BY ImportedSettled DEF PastInv
<1>2. \/ c \in DOMAIN past /\ Chains[c] = past[c]
      \/ c = incarnation /\ Chains[c] = Imported
  BY <1>1 DEF Chains
<1>3. c \in Nat
  BY <1>1 DEF Chains
<1> QED BY <1>1, <1>2, <1>3 DEF PastInv

\* Two chains share only what was signed on the genesis block.
LEMMA SettledChainsAreSafe ==
  ASSUME ChainInv, Lives, SignInv, PastInv
  PROVE  ResubmissionIsSafe
<1> SUFFICES ASSUME NEW c \in DOMAIN Chains, NEW d \in DOMAIN Chains,
                    NEW i \in DOMAIN Chains[c].executed, NEW j \in DOMAIN Chains[d].executed,
                    Chains[c].executed[i].xt = Chains[d].executed[j].xt
             PROVE  (c = d /\ i = j) \/ (c # d /\ Chains[c].executed[i].xt.birth = 0)
  BY DEF ResubmissionIsSafe
<1> DEFINE x == Chains[c].executed[i].xt
<1>1. Settled(Chains[c], c) /\ Settled(Chains[d], d)
  BY ChainsSettled
<1>2. x.hash = BlockHash(c, x.birth) /\ x.hash = BlockHash(d, x.birth)
  BY <1>1 DEF Settled
<1>3. CASE c = d
  BY <1>1, <1>3 DEF Settled
<1>4. CASE c # d
  BY <1>2, <1>4 DEF BlockHash
<1> QED BY <1>3, <1>4

\* Bytes sent again after an error, a success or a restart are executed once in a
\* chain, and on two chains only if they were signed on the genesis block: by
\* CheckNonce, CheckEra and CheckGenesis together (runtime lib.rs:94-97).  A
\* removed account would be the exception (lib.rs:154), hence the assumption.
THEOREM ResubmissionSafe ==
  ASSUME NoTransfers \/ Funded
  PROVE  SystemSpec => []ResubmissionIsSafe
<1> DEFINE Inv == ChainInv /\ Traffic /\ AccountsInv /\ SignInv /\ PastInv
<1>1. SystemInit => Inv
  BY ChainInductive, TrafficInductive, AccountsInductive, SignInductive, PastInductive
<1>2. Inv /\ [SystemNext]_systemVars => Inv'
  BY ChainInductive, TrafficInductive, AccountsInductive, SignInductive, PastInductive
  DEF AccountsInv
<1>3. Inv => ResubmissionIsSafe
  BY SettledChainsAreSafe DEF AccountsInv
<1> HIDE DEF Inv
<1> QED BY <1>1, <1>2, <1>3, PTL DEF SystemSpec
-----------------------------------------------------------------------------
(***************************************************************************)
(* The queue.  What is offered to a block continues its signer's nonce     *)
(* without a gap, so that nothing offered is refused, whatever becomes of  *)
(* the pool meanwhile.                                                     *)
(***************************************************************************)

\* The block under construction is the next one; without one, best is the state.
Drafted ==
  /\ engine \in {"idle", "proposing"}
  /\ engine = "proposing" => HeaderAgrees
  /\ engine = "idle" => best = State /\ offer = {}

DistinctIn(pool) == \A x, y \in pool : SameSlot(x, y) => x = y

Distinct == DistinctIn(txpool) /\ DistinctIn(offer)

\* Nonces are used up by what was executed.
Filled ==
  \A a \in Accounts : \A n \in 0 .. nonce[a] - 1 :
    \E i \in DOMAIN executed : executed[i].xt.signer = a /\ executed[i].xt.nonce = n

BestBehind ==
  \A a \in Accounts : /\ best.nonce[a] <= nonce[a]
                      /\ best.balance[a] >= Dearest + MinimumBalance

OfferContinues ==
  \A x \in offer :
    /\ Acceptable(x, Upcoming) /\ nonce[x.signer] <= x.nonce
    /\ \A n \in nonce[x.signer] .. x.nonce - 1 :
         \E y \in offer : y.signer = x.signer /\ y.nonce = n

QueueInv == Drafted /\ Distinct /\ Filled /\ BestBehind /\ OfferContinues

\* The accounts and the number that the pool validates against.
LEMMA UpcomingAccounts ==
  ASSUME best \in States
  PROVE  /\ Upcoming.nonce = best.nonce /\ Upcoming.balance = best.balance
         /\ Upcoming.number \in Nat
         /\ Upcoming.number = IF best.number = LastBlock THEN LastBlock ELSE best.number + 1
BY RuntimeAssumption DEF States, Upcoming, Opened

\* Nothing that is offered is refused.
LEMMA NothingRefused ==
  ASSUME Funded, ChainInv, Traffic, AccountsInv, QueueInv, NEW x \in Extrinsics
  PROVE  ~RefuseExtrinsic(x)
<1> SUFFICES ASSUME Offered(x)
             PROVE  Applicable(x, State)
  BY DEF RefuseExtrinsic
<1>1. /\ x \in Genuine /\ x \in offer /\ HeaderAgrees
      /\ \A y \in offer : y.signer = x.signer => y.nonce >= x.nonce
  BY DEF Offered, Traffic, QueueInv, Drafted
<1>2. x.signer \in Accounts /\ x.nonce \in Nat /\ Fee(x) = 1 /\ nonce[x.signer] \in Nat
  BY <1>1, GenuineFields DEF ChainInv, RuntimeTypes, AccountsOK
<1>3. /\ Acceptable(x, Upcoming) /\ nonce[x.signer] <= x.nonce
      /\ \A n \in nonce[x.signer] .. x.nonce - 1 :
           \E y \in offer : y.signer = x.signer /\ y.nonce = n
  BY <1>1 DEF QueueInv, OfferContinues
<1>4. CheckSignature(x, State)
  BY <1>1, <1>3 DEF Acceptable, CheckSignature, State, HeaderAgrees
<1>5. CheckNonce(x, State)
  <2>1. ASSUME nonce[x.signer] < x.nonce
        PROVE  FALSE
    <3>1. nonce[x.signer] \in nonce[x.signer] .. x.nonce - 1
      BY <1>2, <2>1
    <3>2. PICK y \in offer : y.signer = x.signer /\ y.nonce = nonce[x.signer]
      BY <1>3, <3>1
    <3> QED BY <1>1, <1>2, <2>1, <3>2
  <2> QED BY <1>2, <1>3, <2>1 DEF CheckNonce, NotStale, State
<1>6. ChargeTransactionPayment(x, State)
  <2>1. balance[x.signer] >= Dearest + MinimumBalance
    BY <1>2, CanAfford DEF AccountsInv
  <2>2. /\ Dearest \in Nat /\ Dearest >= 1 /\ MinimumBalance \in Nat
        /\ balance[x.signer] \in Nat
    BY <1>2, DearestCovers, RuntimeAssumption DEF ChainInv, RuntimeTypes, AccountsOK
  <2> QED BY <1>2, <2>1, <2>2 DEF ChargeTransactionPayment, State
<1> QED BY <1>4, <1>5, <1>6 DEF Applicable

\* A block is offered whole runs of nonces.
LEMMA QueueStarts ==
  ASSUME ChainInv, Traffic, QueueInv, StartBlock, number < LastBlock
  PROVE  QueueInv'
<1>1. /\ best = State /\ best' = best /\ Upcoming' = Upcoming /\ engine' = "proposing"
      /\ nonce' = nonce /\ executed' = executed /\ txpool' = txpool
      /\ offer' = ReadyIn(txpool)
      /\ number' = Opened(State, HashOf(number)).number
      /\ block_hash' = Opened(State, HashOf(number)).block_hash
  BY DEF StartBlock, Proposable, open_block, accountVars, QueueInv, Drafted, Upcoming, HashOf,
         process
<1>2. best.nonce = nonce /\ best.number = number
  BY <1>1 DEF State
<1>3. Drafted'
  BY <1>1, <1>2 DEF Drafted, HeaderAgrees, Upcoming
<1>4. Distinct' /\ Filled' /\ BestBehind'
  BY <1>1, ReadyAreInPool DEF QueueInv, Distinct, DistinctIn, Filled, BestBehind, SameSlot
<1>5. OfferContinues'
  <2>1. ASSUME NEW x \in ReadyIn(txpool)
        PROVE  /\ Acceptable(x, Upcoming) /\ nonce[x.signer] <= x.nonce
               /\ \A n \in nonce[x.signer] .. x.nonce - 1 :
                    \E y \in ReadyIn(txpool) : y.signer = x.signer /\ y.nonce = n
    <3>1. x \in Genuine /\ Acceptable(x, Upcoming)
      BY <2>1 DEF ReadyIn, Traffic
    <3>2. x.signer \in Accounts /\ x.nonce \in Nat /\ nonce[x.signer] \in Nat
      BY <3>1, GenuineFields DEF ChainInv, RuntimeTypes, AccountsOK
    <3>3. nonce[x.signer] <= x.nonce
      BY <1>2, <3>1, <3>2, UpcomingAccounts DEF Acceptable, NotStale, Traffic
    <3>4. ASSUME NEW n \in nonce[x.signer] .. x.nonce - 1
          PROVE  \E y \in ReadyIn(txpool) : y.signer = x.signer /\ y.nonce = n
      <4>1. PICK y \in txpool : /\ Acceptable(y, Upcoming)
                                /\ y.signer = x.signer /\ y.nonce = n
        BY <1>2, <2>1, <3>4 DEF ReadyIn
      <4>2. nonce[y.signer] .. y.nonce - 1 \subseteq nonce[x.signer] .. x.nonce - 1
        BY <3>2, <4>1
      <4>3. y \in ReadyIn(txpool)
        BY <1>2, <2>1, <4>1, <4>2 DEF ReadyIn
      <4> QED BY <4>1, <4>3
    <3> QED BY <3>1, <3>3, <3>4
  <2> QED BY <1>1, <2>1 DEF OfferContinues
<1> QED BY <1>3, <1>4, <1>5 DEF QueueInv

\* The first of a run is executed, the rest goes on.
LEMMA QueuePushes ==
  ASSUME Funded, ChainInv, Traffic, AccountsInv, QueueInv,
         NEW x \in Extrinsics, PushExtrinsic(x)
  PROVE  QueueInv'
<1>1. /\ x \in Genuine /\ x \in offer /\ engine = "proposing"
      /\ x.nonce = nonce[x.signer]
      /\ nonce \in [Accounts -> Nat] /\ executed \in Seq([xt : Extrinsics, life : Nat])
  <2>1. /\ x \in Genuine /\ x \in offer /\ engine = "proposing"
        /\ nonce \in [Accounts -> Nat] /\ executed \in Seq([xt : Extrinsics, life : Nat])
    BY DEF PushExtrinsic, Offered, Traffic, ChainInv, RuntimeTypes, AccountsOK, HistoryOK
  <2>2. x.nonce >= nonce[x.signer] /\ x.nonce <= nonce[x.signer]
    BY DEF PushExtrinsic, apply_extrinsic, Applicable, CheckNonce, NotStale, State
  <2>3. x.nonce \in Nat /\ nonce[x.signer] \in Nat
    BY <2>1, GenuineFields
  <2> QED BY <2>1, <2>2, <2>3
<1>2. /\ x.signer \in Accounts /\ nonce' = [nonce EXCEPT ![x.signer] = @ + 1]
  BY <1>1, GenuineFields, AccountsKeep
<1>3. /\ executed' = Append(executed, [xt |-> x, life |-> life[x.signer]])
      /\ offer' = offer \ {x} /\ best' = best /\ txpool' = txpool /\ engine' = engine
      /\ Upcoming' = Upcoming /\ number' = number /\ block_hash' = block_hash
  BY DEF PushExtrinsic, apply_extrinsic, headerVars, poolVars, Upcoming, HashOf, process
<1>4. \A a \in Accounts : nonce'[a] = IF a = x.signer THEN nonce[a] + 1 ELSE nonce[a]
  BY <1>1, <1>2
<1>5. Drafted' /\ Distinct'
  BY <1>1, <1>3 DEF QueueInv, Drafted, HeaderAgrees, Distinct, DistinctIn, SameSlot
<1>6. Filled'
  <2>1. ASSUME NEW a \in Accounts, NEW n \in 0 .. nonce'[a] - 1
        PROVE  \E i \in DOMAIN executed' :
                 executed'[i].xt.signer = a /\ executed'[i].xt.nonce = n
    <3>1. CASE n \in 0 .. nonce[a] - 1
      <4>1. PICK i \in DOMAIN executed :
              executed[i].xt.signer = a /\ executed[i].xt.nonce = n
        BY <3>1 DEF QueueInv, Filled
      <4>2. i \in DOMAIN executed' /\ executed'[i] = executed[i]
        BY <1>1, <1>3, <4>1
      <4> QED BY <4>1, <4>2
    <3>2. CASE a = x.signer /\ n = nonce[a]
      <4>1. /\ Len(executed) + 1 \in DOMAIN executed'
            /\ executed'[Len(executed) + 1].xt = x
        BY <1>1, <1>3
      <4> QED BY <1>1, <3>2, <4>1
    <3>3. nonce[a] \in Nat
      BY <1>1
    <3> QED BY <1>4, <2>1, <3>1, <3>2, <3>3
  <2> QED BY <2>1 DEF Filled
<1>7. BestBehind'
  <2>1. \A a \in Accounts : nonce[a] \in Nat /\ best.nonce[a] \in Nat
    BY <1>1 DEF Traffic, States
  <2> QED BY <1>3, <1>4, <2>1 DEF QueueInv, BestBehind
<1>8. OfferContinues'
  <2>1. ASSUME NEW z \in offer'
        PROVE  /\ Acceptable(z, Upcoming) /\ nonce'[z.signer] <= z.nonce
               /\ \A n \in nonce'[z.signer] .. z.nonce - 1 :
                    \E y \in offer' : y.signer = z.signer /\ y.nonce = n
    <3>1. /\ z \in offer /\ z # x /\ z \in Genuine
          /\ Acceptable(z, Upcoming) /\ nonce[z.signer] <= z.nonce
          /\ \A n \in nonce[z.signer] .. z.nonce - 1 :
               \E y \in offer : y.signer = z.signer /\ y.nonce = n
      BY <1>3, <2>1 DEF QueueInv, OfferContinues, Traffic
    <3>2. /\ z.signer \in Accounts /\ z.nonce \in Nat /\ nonce[z.signer] \in Nat
      BY <1>1, <3>1, GenuineFields
    <3>3. z.signer = x.signer => z.nonce # x.nonce
      BY <1>1, <3>1 DEF QueueInv, Distinct, DistinctIn, SameSlot
    <3>4. nonce'[z.signer] <= z.nonce
      <4>1. nonce'[z.signer] = IF z.signer = x.signer THEN nonce[z.signer] + 1 ELSE nonce[z.signer]
        BY <1>4, <3>2
      <4>2. z.signer = x.signer => z.nonce # nonce[z.signer]
        BY <1>1, <3>3
      <4> QED BY <3>1, <3>2, <4>1, <4>2
    <3>5. ASSUME NEW n \in nonce'[z.signer] .. z.nonce - 1
          PROVE  \E y \in offer' : y.signer = z.signer /\ y.nonce = n
      <4>1. n \in nonce[z.signer] .. z.nonce - 1 /\ (z.signer = x.signer => n # nonce[x.signer])
        BY <1>4, <3>2, <3>5
      <4>2. PICK y \in offer : y.signer = z.signer /\ y.nonce = n
        BY <3>1, <4>1
      <4>3. y # x
        BY <1>1, <4>1, <4>2
      <4> QED BY <1>3, <4>2, <4>3
    <3> QED BY <3>1, <3>4, <3>5
  <2> QED BY <1>3, <2>1 DEF OfferContinues
<1> QED BY <1>5, <1>6, <1>7, <1>8 DEF QueueInv

\* A script's extrinsic takes the place of those in its slot, and leaves what is
\* offered alone.
LEMMA QueueArrives ==
  ASSUME ChainInv, Traffic, QueueInv, NEW x \in Genuine, author_submitExtrinsic(x)
  PROVE  QueueInv' /\ Acceptable(x, Upcoming)
<1>1. txpool' \subseteq (txpool \ Rivals(x)) \cup {x}
  BY LimitsOnlyDrop DEF author_submitExtrinsic, Joined
<1>2. /\ Acceptable(x, Upcoming)
      /\ UNCHANGED <<runtimeVars, process, engine, offer, best>>
  BY DEF author_submitExtrinsic, Importable
<1>3. /\ number' = number /\ block_hash' = block_hash /\ nonce' = nonce /\ balance' = balance
      /\ executed' = executed /\ engine' = engine /\ offer' = offer /\ best' = best
      /\ Upcoming' = Upcoming /\ State' = State
  BY <1>2 DEF runtimeVars, accountVars, headerVars, process, Upcoming, HashOf, State
<1>4. Drafted'
  BY <1>3 DEF QueueInv, Drafted, HeaderAgrees
<1>5. Distinct'
  BY <1>1, <1>3 DEF QueueInv, Distinct, DistinctIn, Rivals, SameSlot
<1>6. Filled' /\ BestBehind'
  BY <1>3 DEF QueueInv, Filled, BestBehind
<1>7. OfferContinues'
  BY <1>2, <1>3 DEF QueueInv, OfferContinues
<1> QED BY <1>2, <1>4, <1>5, <1>6, <1>7 DEF QueueInv

\* Nothing that is offered turns invalid before its block is sealed.
LEMMA QueueRevalidates ==
  ASSUME QueueInv, NEW x \in Extrinsics, Revalidate(x)
  PROVE  QueueInv'
<1>1. /\ txpool' = txpool \ {x} /\ ~Acceptable(x, Upcoming)
      /\ UNCHANGED <<runtimeVars, process, engine, offer, best>>
  BY DEF Revalidate
<1>2. /\ number' = number /\ block_hash' = block_hash /\ nonce' = nonce /\ balance' = balance
      /\ executed' = executed /\ engine' = engine /\ offer' = offer /\ best' = best
      /\ Upcoming' = Upcoming /\ State' = State
  BY <1>1 DEF runtimeVars, accountVars, headerVars, process, Upcoming, HashOf, State
<1>3. Drafted'
  BY <1>2 DEF QueueInv, Drafted, HeaderAgrees
<1>4. Distinct'
  BY <1>1, <1>2 DEF QueueInv, Distinct, DistinctIn, SameSlot
<1>5. Filled' /\ BestBehind'
  BY <1>2 DEF QueueInv, Filled, BestBehind
<1>6. OfferContinues'
  BY <1>2 DEF QueueInv, OfferContinues
<1> QED BY <1>3, <1>4, <1>5, <1>6 DEF QueueInv

\* Sealing makes the overlay the best block.
LEMMA QueueSeals ==
  ASSUME Funded, ChainInv, AccountsInv, QueueInv, SealBlock
  PROVE  QueueInv'
<1>1. /\ txpool' \subseteq txpool /\ engine' = "idle" /\ offer' = {} /\ best' = State
      /\ nonce' = nonce /\ executed' = executed /\ State' = State
  BY DEF SealBlock, Prune, runtimeVars, accountVars, headerVars, State
<1>2. Drafted' /\ OfferContinues'
  BY <1>1 DEF Drafted, OfferContinues
<1>3. Distinct' /\ Filled'
  BY <1>1 DEF QueueInv, Distinct, DistinctIn, SameSlot, Filled
<1>4. BestBehind'
  <2>1. ASSUME NEW a \in Accounts
        PROVE  /\ nonce[a] <= nonce[a] /\ balance[a] >= Dearest + MinimumBalance
    BY <2>1, CanAfford DEF AccountsInv, ChainInv, RuntimeTypes, AccountsOK
  <2>2. best'.nonce = nonce /\ best'.balance = balance
    BY <1>1 DEF State
  <2> QED BY <1>1, <2>1, <2>2 DEF BestBehind
<1> QED BY <1>2, <1>3, <1>4 DEF QueueInv

\* An account as it is endowed can pay.
LEMMA EndowmentSuffices ==
  ASSUME Funded
  PROVE  Endowment >= Dearest + MinimumBalance
<1> DEFINE q == Dearest * (BlockLimit * LastBlock)
<1>1. Dearest \in Nat /\ BlockLimit * LastBlock \in Nat
  BY DearestCovers, RuntimeAssumption
<1>2. q \in Nat /\ q + Dearest + MinimumBalance <= Endowment
  BY <1>1, DearestCovers DEF Covers
<1> HIDE DEF q
<1> QED BY <1>1, <1>2, RuntimeAssumption

\* A new process has an empty queue.
LEMMA FreshQueue ==
  ASSUME Funded, txpool = {}, engine = "idle", offer = {}, best = State,
         \A a \in Accounts : nonce[a] = 0 /\ balance[a] = Endowment
  PROVE  QueueInv
<1>1. best.nonce = nonce /\ best.balance = balance
  BY DEF State
<1>2. BestBehind
  BY <1>1, EndowmentSuffices DEF BestBehind
<1> QED BY <1>2 DEF QueueInv, Drafted, Distinct, DistinctIn, Filled, OfferContinues

\* The queue, by induction.
LEMMA QueueInductive ==
  ASSUME Funded
  PROVE  /\ SystemInit => QueueInv
         /\ ChainInv /\ Traffic /\ AccountsInv /\ QueueInv /\ [SystemNext]_systemVars
              => QueueInv'
<1>1. SystemInit => QueueInv
  BY FreshQueue DEF SystemInit, NodeInit, RuntimeInit
<1>2. ASSUME ChainInv, Traffic, AccountsInv, QueueInv, [SystemNext]_systemVars
      PROVE  QueueInv'
  <2>1. ASSUME UNCHANGED <<runtimeVars, process, engine, offer, best, txpool>>
        PROVE  QueueInv'
    <3>1. /\ Upcoming' = Upcoming /\ State' = State
          /\ UNCHANGED <<number, block_hash, nonce, balance, executed, engine, offer, best, txpool>>
      BY <2>1 DEF runtimeVars, accountVars, headerVars, process, Upcoming, HashOf, State
    <3> QED BY <1>2, <3>1 DEF QueueInv, Drafted, HeaderAgrees, Distinct, DistinctIn, SameSlot,
                              Filled, BestBehind, OfferContinues
  <2>2. ASSUME NEW s \in Scripts, Run(s) \/ Repost(s) \/ Fail(s)
        PROVE  QueueInv'
    BY <2>1, <2>2 DEF Run, Repost, Fail, Send, nodeVars, poolVars
  <2>3. ASSUME NEW s \in Scripts, Arrive(s)
        PROVE  QueueInv'
    <3>1. script[s].xt \in Genuine /\ author_submitExtrinsic(script[s].xt)
      BY <1>2, <2>3 DEF Arrive, Traffic, Scripted
    <3> QED BY <1>2, <3>1, QueueArrives
  <2>4. ASSUME StartBlock, number < LastBlock
        PROVE  QueueInv'
    BY <1>2, <2>4, QueueStarts
  <2>5. ASSUME NEW x \in Extrinsics, PushExtrinsic(x) \/ RefuseExtrinsic(x) \/ Revalidate(x)
        PROVE  QueueInv'
    BY <1>2, <2>5, QueuePushes, NothingRefused, QueueRevalidates
  <2>6. ASSUME SealBlock
        PROVE  QueueInv'
    BY <1>2, <2>6, QueueSeals
  <2>7. ASSUME TimerFires \/ BridgeMoves \/ UNCHANGED systemVars
        PROVE  QueueInv'
    BY <2>1, <2>7 DEF TimerFires, BridgeMoves, systemVars, nodeVars, poolVars
  <2>8. ASSUME Restart
        PROVE  QueueInv'
    <3>1. /\ txpool' = {} /\ engine' = "idle" /\ offer' = {} /\ best' = State'
          /\ \A a \in Accounts : nonce'[a] = 0 /\ balance'[a] = Endowment
      BY <2>8 DEF Restart, NewChain
    <3>2. best'.nonce = nonce' /\ best'.balance = balance'
      BY <3>1 DEF State
    <3>3. BestBehind'
      BY <3>1, <3>2, EndowmentSuffices DEF BestBehind, Dearest, Covers
    <3> QED BY <3>1, <3>3 DEF QueueInv, Drafted, Distinct, DistinctIn, Filled, OfferContinues
  <2> QED BY <1>2, <2>2, <2>3, <2>4, <2>5, <2>6, <2>7, <2>8
          DEF SystemNext, NodeStep, SealAndAnnounce
<1> QED BY <1>1, <1>2
-----------------------------------------------------------------------------
(***************************************************************************)
(* What a script was told stays true: its extrinsic waits in the pool      *)
(* until its slot is executed, its era is over, or a later submission      *)
(* turns it out.                                                           *)
(***************************************************************************)

Kept(x) ==
  x \in txpool \cup displaced \/ \E i \in DOMAIN executed : SameSlot(x, executed[i].xt)
Timely(x) == x.birth < Upcoming.number /\ x.hash = HashOf(x.birth)
Expired(x) == Upcoming.number >= x.birth + Period
Promise(x) == Timely(x) /\ (Kept(x) \/ Expired(x))

ToldInv ==
  \A s \in Scripts :
    /\ script[s].at <= incarnation
    /\ script[s].stage = "told" /\ script[s].at = incarnation => Promise(script[s].xt)

\* The next block knows the hashes of this chain.
LEMMA UpcomingHashes ==
  ASSUME ChainInv, SignInv, Traffic, QueueInv, NEW n \in 0 .. Upcoming.number - 1
  PROVE  Upcoming.block_hash[n + 1] = HashOf(n)
<1>1. /\ number \in Nat /\ block_hash \in Seq(Hashes) /\ Len(block_hash) = number
  BY RuntimeAssumption DEF ChainInv, RuntimeTypes, HeadersOK
<1>2. CASE engine = "proposing"
  BY <1>2 DEF QueueInv, Drafted, HeaderAgrees, SignInv, Hashed
<1>3. CASE engine = "idle" /\ number = LastBlock
  <2>1. Upcoming = State
    BY <1>3 DEF QueueInv, Drafted, Upcoming, Opened, State
  <2> QED BY <2>1 DEF State, SignInv, Hashed
<1>4. CASE engine = "idle" /\ number # LastBlock
  <2>1. /\ Upcoming.number = number + 1
        /\ Upcoming.block_hash = Append(block_hash, HashOf(number))
    BY <1>4 DEF QueueInv, Drafted, Upcoming, Opened, State
  <2>2. CASE n = number
    BY <1>1, <2>1, <2>2
  <2>3. CASE n \in 0 .. number - 1
    <3>1. block_hash[n + 1] = HashOf(n) /\ n + 1 \in 1 .. Len(block_hash)
      BY <1>1, <2>3 DEF SignInv, Hashed
    <3> QED BY <1>1, <2>1, <3>1
  <2> QED BY <1>1, <2>1, <2>2, <2>3
<1> QED BY <1>2, <1>3, <1>4 DEF QueueInv, Drafted

\* As long as the node lives, the next block's number does not go back.
LEMMA UpcomingGrows ==
  ASSUME ChainInv, Traffic, QueueInv, [SystemNext]_systemVars, ~Restart
  PROVE  /\ Upcoming'.number >= Upcoming.number /\ Upcoming'.number \in Nat
         /\ incarnation' = incarnation
<1>1. Upcoming.number \in Nat /\ number \in Nat /\ number <= LastBlock /\ LastBlock \in Nat
  BY UpcomingAccounts, RuntimeAssumption DEF Traffic, ChainInv, RuntimeTypes, HeadersOK
<1>2. incarnation' = incarnation
  BY SystemStepIsRuntimeStep DEF ChainInv
<1>3. CASE SealBlock
  <2>1. Upcoming.number = number
    BY <1>3 DEF SealBlock, QueueInv, Drafted, HeaderAgrees
  <2>2. best' = State
    BY <1>3 DEF SealBlock
  <2>3. Upcoming'.number = IF number = LastBlock THEN number ELSE number + 1
    BY <2>2 DEF Upcoming, Opened, State
  <2> QED BY <1>1, <1>2, <2>1, <2>3
<1>4. ASSUME best' = best
      PROVE  Upcoming' = Upcoming
  BY <1>2, <1>4 DEF Upcoming, HashOf
<1>5. ASSUME ~SealBlock
      PROVE  best' = best
  <2>1. ASSUME NEW s \in Scripts, Run(s) \/ Repost(s) \/ Arrive(s) \/ Fail(s)
        PROVE  best' = best
    BY <2>1 DEF Run, Repost, Arrive, Fail, Send, author_submitExtrinsic, nodeVars
  <2>2. ASSUME NodeStep
        PROVE  best' = best
    BY <2>2 DEF NodeStep, StartBlock, TimerFires, PushExtrinsic, RefuseExtrinsic, Revalidate
  <2>3. ASSUME BridgeMoves \/ UNCHANGED systemVars
        PROVE  best' = best
    BY <2>3 DEF BridgeMoves, systemVars, nodeVars
  <2> QED BY <1>5, <2>1, <2>2, <2>3 DEF SystemNext, SealAndAnnounce
<1> QED BY <1>1, <1>2, <1>3, <1>4, <1>5

\* The history only grows while the node lives.
LEMMA ExecutedStays ==
  ASSUME ChainInv, [SystemNext]_systemVars, ~Restart, NEW i \in DOMAIN executed
  PROVE  i \in DOMAIN executed' /\ executed'[i] = executed[i]
<1>1. executed \in Seq([xt : Extrinsics, life : Nat])
  BY DEF ChainInv, RuntimeTypes, HistoryOK
<1>2. ASSUME NEW x \in Extrinsics, apply_extrinsic(x)
      PROVE  executed' = Append(executed, [xt |-> x, life |-> life[x.signer]])
  BY <1>2 DEF apply_extrinsic
<1>3. \/ executed' = executed
      \/ \E x \in Extrinsics : executed' = Append(executed, [xt |-> x, life |-> life[x.signer]])
  BY <1>2, SystemStepIsRuntimeStep DEF ChainInv, RuntimeNext, open_block, runtimeVars
<1>4. ASSUME NEW e, executed' = Append(executed, e)
      PROVE  i \in DOMAIN executed' /\ executed'[i] = executed[i]
  BY <1>1, <1>4
<1> QED BY <1>3, <1>4

\* What the pool no longer accepts has its slot taken or its era over.
LEMMA UnacceptableIsSettled ==
  ASSUME Funded, ChainInv, Traffic, SignInv, QueueInv,
         NEW x \in Genuine, Timely(x), ~Acceptable(x, Upcoming)
  PROVE  Expired(x) \/ \E i \in DOMAIN executed : SameSlot(x, executed[i].xt)
<1>1. /\ x.signer \in Accounts /\ x.nonce \in Nat /\ x.birth \in Nat /\ x.version = "current"
      /\ x.period = Period /\ Fee(x) = 1
  BY GenuineFields
<1>2. /\ Upcoming.nonce = best.nonce /\ Upcoming.balance = best.balance
      /\ Upcoming.number \in Nat
  BY UpcomingAccounts DEF Traffic
<1>3. /\ best.nonce[x.signer] \in Nat /\ best.balance[x.signer] \in Nat /\ nonce[x.signer] \in Nat
      /\ best.nonce[x.signer] <= nonce[x.signer]
      /\ best.balance[x.signer] >= Dearest + MinimumBalance
  BY <1>1 DEF Traffic, States, ChainInv, RuntimeTypes, AccountsOK, QueueInv, BestBehind
<1>4. ChargeTransactionPayment(x, Upcoming)
  <2>1. Dearest \in Nat /\ Dearest >= 1 /\ MinimumBalance \in Nat
    BY DearestCovers, RuntimeAssumption
  <2> QED BY <1>1, <1>2, <1>3, <2>1 DEF ChargeTransactionPayment
<1>5. ASSUME ~CheckSignature(x, Upcoming)
      PROVE  Expired(x)
  <2>1. x.birth \in 0 .. Upcoming.number - 1
    BY <1>1, <1>2 DEF Timely
  <2>2. Upcoming.block_hash[x.birth + 1] = x.hash
    BY <2>1, UpcomingHashes DEF Timely
  <2>3. ~(Upcoming.number < x.birth + Period)
    BY <1>1, <1>5, <2>2 DEF CheckSignature, Timely
  <2> QED BY <1>1, <1>2, <2>3, SystemAssumption DEF Expired
<1>6. ASSUME x.nonce < best.nonce[x.signer]
      PROVE  \E i \in DOMAIN executed : SameSlot(x, executed[i].xt)
  <2>1. x.nonce \in 0 .. nonce[x.signer] - 1
    BY <1>1, <1>3, <1>6
  <2>2. PICK i \in DOMAIN executed :
          executed[i].xt.signer = x.signer /\ executed[i].xt.nonce = x.nonce
    BY <1>1, <2>1 DEF QueueInv, Filled
  <2> QED BY <2>2 DEF SameSlot
<1> QED BY <1>1, <1>2, <1>3, <1>4, <1>5, <1>6 DEF Acceptable, NotStale

\* Who leaves the pool.
LEMMA WhoLeaves ==
  ASSUME Funded, ChainInv, Traffic, AccountsInv, QueueInv, [SystemNext]_systemVars,
         ~Restart, NEW x \in txpool, x \notin txpool'
  PROVE  \/ ~Acceptable(x, Upcoming)
         \/ \E i \in DOMAIN executed : SameSlot(x, executed[i].xt)
         \/ x \in displaced'
<1>1. ASSUME NEW s \in Scripts, Run(s) \/ Repost(s) \/ Fail(s)
      PROVE  FALSE
  BY <1>1 DEF Run, Repost, Fail, Send, nodeVars, poolVars
<1>2. ASSUME NEW s \in Scripts, Arrive(s)
      PROVE  x \in displaced'
  BY <1>2 DEF Arrive
<1>3. ASSUME NEW y \in Extrinsics, PushExtrinsic(y) \/ RefuseExtrinsic(y)
      PROVE  FALSE
  BY <1>3, NothingRefused DEF PushExtrinsic, poolVars
<1>4. ASSUME NEW y \in Extrinsics, Revalidate(y)
      PROVE  ~Acceptable(x, Upcoming)
  BY <1>4 DEF Revalidate
<1>5. ASSUME SealBlock
      PROVE  \E i \in DOMAIN executed : SameSlot(x, executed[i].xt)
  <2>1. PICK y \in InBlock : SameSlot(x, y)
    BY <1>5 DEF SealBlock, Prune
  <2>2. executed \in Seq([xt : Extrinsics, life : Nat]) /\ used \in Nat /\ used <= Len(executed)
    BY RuntimeAssumption DEF ChainInv, RuntimeTypes, HistoryOK
  <2>3. PICK i \in Len(executed) - used + 1 .. Len(executed) : y = executed[i].xt
    BY <2>1 DEF InBlock
  <2>4. i \in DOMAIN executed
    BY <2>2, <2>3
  <2> QED BY <2>1, <2>3, <2>4
<1>6. ASSUME StartBlock \/ TimerFires \/ BridgeMoves \/ UNCHANGED systemVars
      PROVE  FALSE
  BY <1>6 DEF StartBlock, TimerFires, BridgeMoves, systemVars, nodeVars, poolVars
<1> QED BY <1>1, <1>2, <1>3, <1>4, <1>5, <1>6 DEF SystemNext, NodeStep, SealAndAnnounce

\* A promise is kept by every step but a restart.
LEMMA PromiseStays ==
  ASSUME Funded, ChainInv, Traffic, AccountsInv, SignInv, QueueInv, [SystemNext]_systemVars,
         ~Restart, NEW x \in Genuine, Promise(x)
  PROVE  Promise(x)'
<1>1. /\ Upcoming'.number >= Upcoming.number /\ incarnation' = incarnation
      /\ Upcoming.number \in Nat /\ Upcoming'.number \in Nat /\ x.birth \in Nat /\ Period \in Nat
  <2>1. Upcoming.number \in Nat
    BY UpcomingAccounts DEF Traffic
  <2> QED BY <2>1, UpcomingGrows, GenuineFields, SystemAssumption
<1>2. Timely(x)'
  <2>1. HashOf(x.birth)' = HashOf(x.birth)
    BY <1>1 DEF HashOf
  <2> QED BY <1>1, <2>1 DEF Promise, Timely
<1>3. Expired(x) => Expired(x)'
  BY <1>1 DEF Expired
<1>4. ASSUME \E i \in DOMAIN executed : SameSlot(x, executed[i].xt)
      PROVE  Kept(x)'
  <2>1. PICK i \in DOMAIN executed : SameSlot(x, executed[i].xt)
    BY <1>4
  <2>2. i \in DOMAIN executed' /\ executed'[i] = executed[i]
    BY ExecutedStays
  <2> QED BY <2>1, <2>2 DEF Kept, SameSlot
<1>5. ASSUME x \in displaced
      PROVE  Kept(x)'
  <2>1. ASSUME NEW s \in Scripts, Run(s) \/ Repost(s) \/ Fail(s)
        PROVE  displaced' = displaced
    BY <2>1 DEF Run, Repost, Fail, Send, historyVars
  <2>2. ASSUME NEW s \in Scripts, Arrive(s)
        PROVE  displaced \subseteq displaced' \cup txpool'
    BY <2>2 DEF Arrive
  <2>3. ASSUME NodeStep \/ SealAndAnnounce \/ BridgeMoves \/ UNCHANGED systemVars
        PROVE  displaced' = displaced
    BY <2>3 DEF NodeStep, SealAndAnnounce, BridgeMoves, systemVars, historyVars
  <2> QED BY <1>5, <2>1, <2>2, <2>3 DEF SystemNext, Kept
<1>6. ASSUME x \in txpool
      PROVE  Kept(x)' \/ Expired(x)'
  <2>1. CASE x \in txpool'
    BY <2>1 DEF Kept
  <2>2. ASSUME x \notin txpool', ~Acceptable(x, Upcoming)
        PROVE  Kept(x)' \/ Expired(x)'
    <3>1. Expired(x) \/ \E i \in DOMAIN executed : SameSlot(x, executed[i].xt)
      BY <2>2, UnacceptableIsSettled DEF Promise
    <3> QED BY <1>3, <1>4, <3>1
  <2>3. CASE x \in displaced'
    BY <2>3 DEF Kept
  <2> QED BY <1>4, <1>6, <2>1, <2>2, <2>3, WhoLeaves
<1> QED BY <1>2, <1>3, <1>4, <1>5, <1>6 DEF Promise, Kept

\* The scripts that stay as they are.
LEMMA OthersStayTold ==
  ASSUME Funded, ChainInv, Traffic, AccountsInv, SignInv, QueueInv, [SystemNext]_systemVars,
         ~Restart, ToldInv, NEW s \in Scripts, script'[s] = script[s]
  PROVE  /\ script'[s].at <= incarnation'
         /\ script'[s].stage = "told" /\ script'[s].at = incarnation'
              => Promise(script[s].xt)'
<1>1. incarnation' = incarnation
  BY UpcomingGrows
<1>2. ASSUME script[s].stage = "told", script[s].at = incarnation
      PROVE  Promise(script[s].xt)'
  <2>1. PICK x \in Genuine : x = script[s].xt
    BY <1>2 DEF Traffic, Scripted
  <2>2. Promise(x)
    BY <1>2, <2>1 DEF ToldInv
  <2>3. Promise(x)'
    BY <2>2, PromiseStays
  <2> QED BY <2>1, <2>3
<1> QED BY <1>1, <1>2 DEF ToldInv

\* An extrinsic that is imported and kept is signed on this chain.
LEMMA ImportedIsPromised ==
  ASSUME ChainInv, Traffic, SignInv, QueueInv, NEW x \in Genuine, author_submitExtrinsic(x),
         x \in txpool'
  PROVE  Promise(x)'
<1>1. /\ CheckSignature(x, Upcoming) /\ x.birth \in Nat
      /\ Upcoming.number \in Nat
  BY QueueArrives, GenuineFields, UpcomingAccounts DEF Acceptable, Traffic
<1>2. x.birth \in 0 .. Upcoming.number - 1 /\ Upcoming.block_hash[x.birth + 1] = x.hash
  BY <1>1 DEF CheckSignature
<1>3. Timely(x)
  BY <1>1, <1>2, UpcomingHashes DEF Timely, CheckSignature
<1>4. best' = best /\ incarnation' = incarnation
  BY DEF author_submitExtrinsic, process
<1>5. Timely(x)'
  BY <1>3, <1>4 DEF Timely, Upcoming, HashOf
<1> QED BY <1>1, <1>5 DEF Promise, Kept

\* What the scripts were told, by induction.
LEMMA ToldInductive ==
  ASSUME Funded
  PROVE  /\ SystemInit => ToldInv
         /\ /\ ChainInv /\ Traffic /\ AccountsInv /\ SignInv /\ QueueInv /\ ToldInv
            /\ [SystemNext]_systemVars
            => ToldInv'
<1>1. SystemInit => ToldInv
  BY DEF SystemInit, NodeInit, ToldInv
<1>2. ASSUME ChainInv, Traffic, AccountsInv, SignInv, QueueInv, ToldInv,
             [SystemNext]_systemVars
      PROVE  ToldInv'
  <2> DEFINE Stays(s) == /\ script'[s].at <= incarnation'
                         /\ script'[s].stage = "told" /\ script'[s].at = incarnation'
                              => Promise(script[s].xt)'
  <2>0. /\ incarnation \in Nat /\ Scripted
        /\ \A s \in Scripts : script[s].at \in Nat
    BY <1>2, SystemAssumption DEF ChainInv, ProcessTyped, Traffic, Scripted, Messages
  <2>1. ASSUME ~Restart, NEW s \in Scripts, script'[s] = script[s]
        PROVE  Stays(s)
    BY <1>2, <2>1, OthersStayTold
  <2>2. ASSUME ~Restart, NEW t \in Scripts, NEW m, script' = [script EXCEPT ![t] = m],
               m.at \in {0, incarnation}, m.stage = "told" => Promise(script[t].xt)'
        PROVE  \A s \in Scripts : Stays(s)
    <3>1. incarnation' = incarnation
      BY <1>2, <2>2, UpcomingGrows
    <3>2. script'[t] = m
      BY <2>0, <2>2 DEF Scripted
    <3>3. Stays(t)
      BY <2>0, <2>2, <3>1, <3>2
    <3>4. ASSUME NEW s \in Scripts, s # t
          PROVE  script'[s] = script[s]
      BY <2>0, <2>2, <3>4 DEF Scripted
    <3> QED BY <2>1, <2>2, <3>3, <3>4
  <2>3. ASSUME ~Restart, NEW t \in Scripts, Run(t) \/ Repost(t)
        PROVE  \A s \in Scripts : Stays(s)
    <3>1. \E x : script' = [script EXCEPT ![t] = [stage |-> "sent", xt |-> x, at |-> 0,
                                                  tries |-> script[t].tries + 1]]
      BY <2>3 DEF Run, Repost, Send
    <3> QED BY <2>2, <2>3, <3>1
  <2>4. ASSUME ~Restart, NEW t \in Scripts, Arrive(t) \/ Fail(t)
        PROVE  \A s \in Scripts : Stays(s)
    <3>1. PICK stage \in {"told", "failed"} :
            Hear(t, stage) /\ (stage = "told" => Arrive(t) /\ script[t].xt \in txpool')
      BY <2>4 DEF Arrive, Fail
    <3> DEFINE m == [stage |-> stage, xt |-> script[t].xt,
                     at |-> IF stage = "told" THEN incarnation ELSE 0,
                     tries |-> script[t].tries]
    <3>2. script' = [script EXCEPT ![t] = m]
      BY <2>0, <3>1, HearSays
    <3>3. ASSUME stage = "told"
          PROVE  Promise(script[t].xt)'
      <4>1. PICK x \in Genuine : /\ x = script[t].xt /\ author_submitExtrinsic(x)
                                 /\ x \in txpool'
        BY <1>2, <3>1, <3>3 DEF Arrive, Traffic, Scripted
      <4>2. Promise(x)'
        BY <1>2, <4>1, ImportedIsPromised
      <4>3. script'[t].xt = x
        BY <2>0, <3>2, <4>1 DEF Scripted
      <4> QED BY <4>2, <4>3
    <3>4. m.at \in {0, incarnation} /\ (m.stage = "told" => Promise(script[t].xt)')
      BY <3>3
    <3> HIDE DEF m, Stays
    <3> QED BY <2>2, <2>4, <3>2, <3>4
  <2>5. ASSUME Restart, NEW s \in Scripts
        PROVE  Stays(s)
    <3>1. script' = script /\ incarnation' = incarnation + 1
      BY <2>5 DEF Restart
    <3>2. script[s].at <= incarnation
      BY <1>2 DEF ToldInv
    <3> QED BY <2>0, <3>1, <3>2
  <2>6. ASSUME script' = script, ~Restart
        PROVE  \A s \in Scripts : Stays(s)
    BY <2>1, <2>6
  <2>7. \A s \in Scripts : Stays(s)
    <3>1. \/ \E t \in Scripts : Run(t) \/ Repost(t) \/ Arrive(t) \/ Fail(t)
          \/ Restart \/ script' = script
      BY <1>2 DEF SystemNext, NodeStep, SealAndAnnounce, BridgeMoves, systemVars
    <3> HIDE DEF Stays
    <3> QED BY <2>3, <2>4, <2>5, <2>6, <3>1
  <2> QED BY <2>7 DEF ToldInv
<1> QED BY <1>1, <1>2

\* A promise is what the property asks for.
LEMMA ToldIsKept ==
  ASSUME Traffic, ToldInv
  PROVE  AcceptedIsKept
<1> SUFFICES ASSUME NEW s \in Scripts,
                    script[s].stage = "told", script[s].at = incarnation
             PROVE  \/ script[s].xt \in txpool \cup displaced
                    \/ \E i \in DOMAIN executed : SameSlot(script[s].xt, executed[i].xt)
                    \/ ~CheckSignature(script[s].xt, Upcoming)
  BY DEF AcceptedIsKept
<1>1. PICK x \in Genuine : x = script[s].xt
  BY DEF Traffic, Scripted
<1>2. Promise(x)
  BY <1>1 DEF ToldInv
<1>3. CASE Kept(x)
  BY <1>1, <1>3 DEF Kept
<1>4. CASE Expired(x)
  <2>1. x.birth \in Nat /\ x.period = Period /\ Upcoming.number \in Nat
    BY GenuineFields, UpcomingAccounts DEF Traffic
  <2>2. ~(Upcoming.number < x.birth + x.period)
    BY <1>4, <2>1, SystemAssumption DEF Expired
  <2> QED BY <1>1, <2>2 DEF CheckSignature
<1> QED BY <1>2, <1>3, <1>4 DEF Promise

\* What a script was told is kept: its extrinsic waits in the pool, its slot is
\* executed, its era is over, or a later submission has turned it out, whatever blocks
\* are sealed, revalidated or refused meanwhile (the pool of main.rs:200-209, which RPC
\* and proposer share).  Only a chain that uses endowments up could break it.
THEOREM AcceptedKept ==
  ASSUME Funded
  PROVE  SystemSpec => []AcceptedIsKept
<1> DEFINE Inv == ChainInv /\ Traffic /\ AccountsInv /\ SignInv /\ QueueInv /\ ToldInv
<1>1. SystemInit => Inv
  BY ChainInductive, TrafficInductive, AccountsInductive, SignInductive, QueueInductive,
     ToldInductive
<1>2. Inv /\ [SystemNext]_systemVars => Inv'
  BY ChainInductive, TrafficInductive, AccountsInductive, SignInductive, QueueInductive,
     ToldInductive
<1>3. Inv => AcceptedIsKept
  BY ToldIsKept
<1> HIDE DEF Inv
<1> QED BY <1>1, <1>2, <1>3, PTL DEF SystemSpec

\* The proposer (main.rs:320-326) is offered nothing that the runtime refuses, however
\* many scripts compete for a nonce: RefuseExtrinsic, and the transactions it takes
\* from the pool with it, cannot happen to the scripts of this repository.
THEOREM NothingOfferedIsRefused ==
  ASSUME Funded
  PROVE  SystemSpec => [][\A x \in Extrinsics : ~RefuseExtrinsic(x)]_systemVars
<1> DEFINE Inv == ChainInv /\ Traffic /\ AccountsInv /\ QueueInv
           Refuses == \E x \in Extrinsics : RefuseExtrinsic(x)
<1>1. SystemInit => Inv
  BY ChainInductive, TrafficInductive, AccountsInductive, QueueInductive
<1>2. Inv /\ [SystemNext]_systemVars => Inv'
  BY ChainInductive, TrafficInductive, AccountsInductive, QueueInductive
<1>3. Inv => ~Refuses
  BY NothingRefused
<1>4. ~Refuses => \A x \in Extrinsics : ~RefuseExtrinsic(x)
  OBVIOUS
<1> HIDE DEF Inv, Refuses
<1> QED BY <1>1, <1>2, <1>3, <1>4, PTL DEF SystemSpec
=============================================================================
