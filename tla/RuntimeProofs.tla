---------------------------- MODULE RuntimeProofs ----------------------------
(***************************************************************************)
(* Proofs about the runtime for all accounts, balances, extrinsics and     *)
(* block sizes: the types, the order of nonces, and that the pool inside   *)
(* the runtime is the pallet of ShieldedPool, so that what is proved of    *)
(* the pallet holds of the runtime.                                        *)
(***************************************************************************)
EXTENDS Runtime, ShieldedPoolProofs

\* Seen from the pool, dispatching an extrinsic is a call or nothing, and opening
\* a block at most resets its events.
LEMMA RuntimeStepIsPoolStep == [RuntimeNext]_runtimeVars => [Next]_vars
<1> SUFFICES ASSUME [RuntimeNext]_runtimeVars
             PROVE  [Next]_vars
  OBVIOUS
<1>1. ASSUME NEW x \in Extrinsics, apply_extrinsic(x)
      PROVE  [Next]_vars
  <2>1. CASE x.kind = "transfer_shielded"
    <3>1. x.args \in Calls /\ transfer_shielded(x.args)
      BY <1>1, <2>1, RuntimeAssumption DEF apply_extrinsic, Dispatch
    <3> QED BY <3>1 DEF Next
  <2>2. CASE x.kind = "shielded_withdraw"
    <3>1. x.args \in Withdrawals /\ shielded_withdraw(x.args)
      BY <1>1, <2>2, RuntimeAssumption DEF apply_extrinsic, Dispatch
    <3> QED BY <3>1 DEF Next
  <2>3. CASE x.kind = "transfer_allow_death"
    BY <1>1, <2>3 DEF apply_extrinsic, Dispatch
  <2> QED BY <2>1, <2>2, <2>3, RuntimeAssumption
<1>2. ASSUME NEW h \in Hashes, open_block(h)
      PROVE  [Next]_vars
  <2>1. CASE events = <<>>
    BY <1>2, <2>1 DEF open_block, vars
  <2>2. CASE events # <<>>
    BY <1>2, <2>2 DEF open_block, Next, initialize_block
  <2> QED BY <2>1, <2>2
<1>3. CASE UNCHANGED runtimeVars
  BY <1>3 DEF runtimeVars
<1> QED BY <1>1, <1>2, <1>3 DEF RuntimeNext

\* Whatever is executed, fails or is refused (lib.rs:86-105, 219), the pool inside
\* the runtime only takes the steps of the pallet.
THEOREM RefinesPool == RuntimeSpec => ImplementsPool
<1>1. RuntimeInit => Init
  BY DEF RuntimeInit
<1> QED BY <1>1, RuntimeStepIsPoolStep, PTL DEF RuntimeSpec, ImplementsPool, Spec

\* In every build of the runtime that is executed, no nullifier is consumed twice
\* by extrinsics that enter through TxExtension and Dispatch.
THEOREM RuntimeNullifiersUsedOnce == RuntimeSpec => []NoNullifierReuse
BY RefinesPool, NullifiersUsedOnce, PTL DEF ImplementsPool

-----------------------------------------------------------------------------
AccountsOK ==
  nonce \in [Accounts -> Nat] /\ balance \in [Accounts -> Nat] /\ life \in [Accounts -> Nat]

HeadersOK ==
  /\ number \in 0..LastBlock
  /\ block_hash \in Seq(Hashes) /\ Len(block_hash) = number

HistoryOK ==
  /\ used \in 0..BlockLimit
  /\ executed \in Seq([xt : Extrinsics, life : Nat])

\* What the fee leaves: a number, at least the minimum balance.
LEMMA FeeIsCovered ==
  ASSUME AccountsOK, NEW x \in Extrinsics, Applicable(x, State)
  PROVE  /\ x.signer \in Accounts /\ Paid(x) \in [Accounts -> Nat]
         /\ Paid(x)[x.signer] >= MinimumBalance
<1>1. /\ x.signer \in Accounts /\ x.tip \in Nat
      /\ balance[x.signer] \in Nat /\ MinimumBalance \in Nat
  BY RuntimeAssumption DEF AccountsOK
<1>2. balance[x.signer] >= 1 + x.tip + MinimumBalance
  BY DEF Applicable, ChargeTransactionPayment, Fee, State
<1>3. balance[x.signer] - Fee(x) \in Nat /\ balance[x.signer] - Fee(x) >= MinimumBalance
  BY <1>1, <1>2 DEF Fee
<1> QED BY <1>1, <1>3 DEF Paid, AccountsOK

\* A transfer that can move leaves numbers behind.
LEMMA MovesNumbers ==
  ASSUME AccountsOK, NEW x \in Extrinsics, Applicable(x, State),
         x.kind = "transfer_allow_death", CanMove(x)
  PROVE  Moved(x) \in [Accounts -> Nat]
<1> DEFINE paid == Paid(x)
           sent == [paid EXCEPT ![x.signer] = @ - x.args.amount]
<1>1. paid \in [Accounts -> Nat] /\ x.signer \in Accounts
  BY FeeIsCovered
<1>2. x.args.dest \in Accounts /\ x.args.amount \in Nat
  BY RuntimeAssumption
<1>3. paid[x.signer] - x.args.amount \in Nat
  BY <1>1, <1>2 DEF CanMove
<1>4. sent \in [Accounts -> Nat]
  BY <1>1, <1>3
<1>5. sent[x.args.dest] + x.args.amount \in Nat
  BY <1>2, <1>4
<1>6. Moved(x) = [sent EXCEPT ![x.args.dest] = @ + x.args.amount]
  BY DEF Moved
<1> QED BY <1>2, <1>4, <1>5, <1>6

\* How an extrinsic leaves its signer's account: the nonce goes up, or the account
\* is removed and a later one of its name starts again.
LEMMA AccountStep ==
  ASSUME AccountsOK, NEW x \in Extrinsics, apply_extrinsic(x)
  PROVE  /\ AccountsOK'
         /\ \/ nonce' = [nonce EXCEPT ![x.signer] = @ + 1] /\ life' = life
            \/ /\ nonce' = [nonce EXCEPT ![x.signer] = 0]
               /\ life' = [life EXCEPT ![x.signer] = @ + 1]
<1>1. /\ Applicable(x, State) /\ x.signer \in Accounts
      /\ Paid(x) \in [Accounts -> Nat]
  BY FeeIsCovered DEF apply_extrinsic
<1>2. CASE Charged(x)
  BY <1>1, <1>2 DEF Charged, AccountsOK
<1>3. CASE x.kind = "transfer_allow_death" /\ TransferMoves(x)
  <2>1. Moved(x) \in [Accounts -> Nat]
    BY <1>1, <1>3, MovesNumbers DEF TransferMoves
  <2>2. balance' = Moved(x) /\ nonce' = [nonce EXCEPT ![x.signer] = @ + 1] /\ life' = life
    BY <1>3 DEF TransferMoves
  <2>3. balance' \in [Accounts -> Nat]
    BY <2>1, <2>2
  <2>4. nonce' \in [Accounts -> Nat]
    BY <1>1, <2>2 DEF AccountsOK
  <2> QED BY <2>2, <2>3, <2>4 DEF AccountsOK
<1>4. CASE x.kind = "transfer_allow_death" /\ TransferReaps(x)
  <2>1. Moved(x) \in [Accounts -> Nat]
    BY <1>1, <1>4, MovesNumbers DEF TransferReaps
  <2> QED BY <1>1, <1>4, <2>1 DEF TransferReaps, AccountsOK
<1> QED BY <1>2, <1>3, <1>4 DEF apply_extrinsic, Dispatch, TransferFails

\* A header extends the hashes by its parent's.
LEMMA HeaderStep ==
  ASSUME HeadersOK, NEW h \in Hashes, open_block(h)
  PROVE  HeadersOK'
<1>1. LastBlock \in Nat
  BY RuntimeAssumption
<1>2. CASE number = LastBlock
  BY <1>2 DEF open_block, Opened, State, HeadersOK
<1>3. CASE number # LastBlock
  <2>1. number' = number + 1 /\ block_hash' = Append(block_hash, h)
    BY <1>3 DEF open_block, Opened, State
  <2> QED BY <1>1, <1>3, <2>1 DEF HeadersOK
<1> QED BY <1>2, <1>3

\* What was executed is recorded with its type.
LEMMA ExtrinsicHistory ==
  ASSUME AccountsOK, HistoryOK, NEW x \in Extrinsics, apply_extrinsic(x)
  PROVE  HistoryOK'
<1>1. life[x.signer] \in Nat
  BY RuntimeAssumption DEF AccountsOK
<1>2. [xt |-> x, life |-> life[x.signer]] \in [xt : Extrinsics, life : Nat]
  BY <1>1
<1>3. executed' \in Seq([xt : Extrinsics, life : Nat])
  BY <1>2 DEF apply_extrinsic, HistoryOK
<1>4. used' \in 0..BlockLimit
  BY RuntimeAssumption DEF apply_extrinsic, HistoryOK
<1> QED BY <1>3, <1>4 DEF HistoryOK
-----------------------------------------------------------------------------
RuntimeTypes == AccountsOK /\ HeadersOK /\ HistoryOK

\* The types of the runtime, by induction.
LEMMA TypesInductive ==
  /\ RuntimeInit => RuntimeTypes
  /\ RuntimeTypes /\ [RuntimeNext]_runtimeVars => RuntimeTypes'
<1>1. RuntimeInit => RuntimeTypes
  BY RuntimeAssumption
  DEF RuntimeInit, RuntimeTypes, AccountsOK, HeadersOK, HistoryOK
<1>2. ASSUME RuntimeTypes, [RuntimeNext]_runtimeVars
      PROVE  RuntimeTypes'
  <2>1. ASSUME NEW x \in Extrinsics, apply_extrinsic(x)
        PROVE  RuntimeTypes'
    <3>1. HeadersOK'
      BY <1>2, <2>1 DEF RuntimeTypes, HeadersOK, apply_extrinsic, headerVars
    <3> QED BY <1>2, <2>1, <3>1, AccountStep, ExtrinsicHistory DEF RuntimeTypes
  <2>2. ASSUME NEW h \in Hashes, open_block(h)
        PROVE  RuntimeTypes'
    <3>1. AccountsOK'
      BY <1>2, <2>2 DEF RuntimeTypes, AccountsOK, open_block, accountVars
    <3>2. HistoryOK'
      BY <1>2, <2>2, RuntimeAssumption DEF RuntimeTypes, HistoryOK, open_block
    <3> QED BY <1>2, <2>2, <3>1, <3>2, HeaderStep DEF RuntimeTypes
  <2>3. CASE UNCHANGED runtimeVars
    BY <1>2, <2>3 DEF runtimeVars, accountVars, headerVars, RuntimeTypes, AccountsOK,
                      HeadersOK, HistoryOK
  <2> QED BY <1>2, <2>1, <2>2, <2>3 DEF RuntimeNext
<1> QED BY <1>1, <1>2

\* The types of the whole runtime: no fee and no transfer takes a balance below
\* zero, whatever is configured.
THEOREM RuntimeTypeCorrect == RuntimeSpec => []RuntimeTypeOK
<1>1. RuntimeSpec => []RuntimeTypes
  BY TypesInductive, PTL DEF RuntimeSpec
<1>2. RuntimeSpec => []TypeOK
  BY RefinesPool, TypeCorrect, PTL DEF ImplementsPool
<1>3. RuntimeTypes /\ TypeOK => RuntimeTypeOK
  BY DEF RuntimeTypes, AccountsOK, HeadersOK, HistoryOK, RuntimeTypeOK
<1> QED BY <1>1, <1>2, <1>3, PTL
-----------------------------------------------------------------------------
\* What was executed belongs to a past life of its signer, or to the present one
\* and then to a nonce that is used up.
UsedUp ==
  \A i \in DOMAIN executed :
    LET x == executed[i].xt
    IN  /\ executed[i].life <= life[x.signer]
        /\ executed[i].life = life[x.signer] => x.nonce < nonce[x.signer]

\* Nonces below the signer's present one are used up, by induction.
LEMMA NoncesInductive ==
  /\ RuntimeInit => UsedUp /\ NoncesInOrder
  /\ RuntimeTypes /\ UsedUp /\ NoncesInOrder /\ [RuntimeNext]_runtimeVars
       => UsedUp' /\ NoncesInOrder'
<1>1. RuntimeInit => UsedUp /\ NoncesInOrder
  BY DEF RuntimeInit, UsedUp, NoncesInOrder
<1>2. ASSUME RuntimeTypes, UsedUp, NoncesInOrder, [RuntimeNext]_runtimeVars
      PROVE  UsedUp' /\ NoncesInOrder'
  <2>1. ASSUME NEW x \in Extrinsics, apply_extrinsic(x)
        PROVE  UsedUp' /\ NoncesInOrder'
    <3> DEFINE n == Len(executed)
               e == [xt |-> x, life |-> life[x.signer]]
    <3>0. /\ AccountsOK /\ AccountsOK' /\ executed \in Seq([xt : Extrinsics, life : Nat])
          /\ x.signer \in Accounts /\ x.nonce \in Nat /\ nonce[x.signer] \in Nat
      BY <1>2, <2>1, AccountStep, RuntimeAssumption DEF RuntimeTypes, AccountsOK, HistoryOK
    <3>1. /\ AccountsOK /\ AccountsOK' /\ executed \in Seq([xt : Extrinsics, life : Nat])
          /\ x.signer \in Accounts /\ x.nonce \in Nat /\ x.nonce = nonce[x.signer]
      BY <2>1, <3>0 DEF apply_extrinsic, Applicable, CheckNonce, NotStale, State
    <3>2. \/ nonce' = [nonce EXCEPT ![x.signer] = @ + 1] /\ life' = life
          \/ /\ nonce' = [nonce EXCEPT ![x.signer] = 0]
             /\ life' = [life EXCEPT ![x.signer] = @ + 1]
      BY <2>1, <3>1, AccountStep
    <3>3. executed' = Append(executed, e)
      BY <2>1 DEF apply_extrinsic
    <3>4. /\ DOMAIN executed = 1..n /\ DOMAIN executed' = 1..n+1 /\ n \in Nat
          /\ executed'[n+1] = e
          /\ \A i \in 1..n : executed'[i] = executed[i]
      BY <3>1, <3>3
    <3>5. \A i \in 1..n : /\ executed[i].xt \in Extrinsics /\ executed[i].life \in Nat
                          /\ executed[i].xt.signer \in Accounts
                          /\ executed[i].xt.nonce \in Nat
      <4>1. ASSUME NEW i \in 1..n
            PROVE  /\ executed[i].xt \in Extrinsics /\ executed[i].life \in Nat
        <5> DEFINE Entry == [xt : Extrinsics, life : Nat]
        <5>1. executed \in Seq(Entry) /\ i \in 1..Len(executed)
          BY <3>1
        <5> HIDE DEF Entry
        <5>2. executed[i] \in Entry
          BY <5>1
        <5> QED BY <5>2 DEF Entry
      <4> QED BY <4>1, RuntimeAssumption
    <3>6. ASSUME NEW i \in 1..n+1
          PROVE  LET y == executed'[i].xt
                 IN  /\ executed'[i].life <= life'[y.signer]
                     /\ executed'[i].life = life'[y.signer] => y.nonce < nonce'[y.signer]
      <4>1. CASE i = n + 1
        <5>1. executed'[i].xt = x /\ executed'[i].life = life[x.signer]
          BY <3>4, <4>1
        <5> QED BY <3>1, <3>2, <5>1 DEF AccountsOK
      <4>2. CASE i \in 1..n
        <5> DEFINE y == executed[i].xt
        <5>1. executed'[i] = executed[i] /\ y.signer \in Accounts /\ y.nonce \in Nat
              /\ executed[i].life \in Nat
          BY <3>4, <3>5, <4>2
        <5>2. /\ executed[i].life <= life[y.signer]
              /\ executed[i].life = life[y.signer] => y.nonce < nonce[y.signer]
          BY <1>2, <3>4, <4>2 DEF UsedUp
        <5> HIDE DEF y
        <5>3. /\ executed[i].life <= life'[y.signer]
              /\ executed[i].life = life'[y.signer] => y.nonce < nonce'[y.signer]
          <6>1. /\ life[y.signer] \in Nat /\ nonce[y.signer] \in Nat
                /\ life[x.signer] \in Nat /\ nonce[x.signer] \in Nat
            BY <3>1, <5>1 DEF AccountsOK
          <6>2. CASE y.signer # x.signer
            <7>1. life'[y.signer] = life[y.signer] /\ nonce'[y.signer] = nonce[y.signer]
              BY <3>1, <3>2, <5>1, <6>2 DEF AccountsOK
            <7> QED BY <5>2, <7>1
          <6>3. CASE y.signer = x.signer
            <7>1. \/ life'[y.signer] = life[y.signer] /\ nonce'[y.signer] = nonce[y.signer] + 1
                  \/ life'[y.signer] = life[y.signer] + 1
              BY <3>1, <3>2, <6>3 DEF AccountsOK
            <7> QED BY <5>1, <5>2, <6>1, <7>1
          <6> QED BY <6>2, <6>3
        <5> QED BY <5>1, <5>3 DEF y
      <4> QED BY <3>4, <4>1, <4>2
    <3>7. UsedUp'
      BY <3>4, <3>6 DEF UsedUp
    <3>8. ASSUME NEW i \in 1..n+1, NEW j \in 1..n+1, i < j,
                 executed'[i].xt.signer = executed'[j].xt.signer,
                 executed'[i].life = executed'[j].life
          PROVE  executed'[i].xt.nonce < executed'[j].xt.nonce
      <4>1. i \in 1..n /\ executed'[i] = executed[i]
        BY <3>4, <3>8
      <4>2. CASE j = n + 1
        <5>1. executed[i].xt.signer = x.signer /\ executed[i].life = life[x.signer]
          BY <3>4, <3>8, <4>1, <4>2
        <5>2. executed[i].xt.nonce < nonce[x.signer]
          BY <1>2, <3>4, <4>1, <5>1 DEF UsedUp
        <5> QED BY <3>1, <3>4, <4>1, <4>2, <5>2
      <4>3. CASE j \in 1..n
        BY <1>2, <3>4, <3>8, <4>1, <4>3 DEF NoncesInOrder
      <4> QED BY <3>4, <4>2, <4>3
    <3>9. NoncesInOrder'
      BY <3>4, <3>8 DEF NoncesInOrder
    <3> QED BY <3>7, <3>9
  <2>2. ASSUME UNCHANGED <<accountVars, executed>>
        PROVE  UsedUp' /\ NoncesInOrder'
    BY <1>2, <2>2 DEF accountVars, UsedUp, NoncesInOrder
  <2> QED BY <1>2, <2>1, <2>2 DEF RuntimeNext, open_block, runtimeVars
<1> QED BY <1>1, <1>2

\* Extrinsics of one life of an account are executed once and in the order of
\* their nonces, failed calls included; only removing the account (lib.rs:154)
\* starts the count again.
THEOREM RuntimeNoncesInOrder == RuntimeSpec => []NoncesInOrder
<1>1. RuntimeSpec => []RuntimeTypes
  BY TypesInductive, PTL DEF RuntimeSpec
<1>2. RuntimeSpec => [](UsedUp /\ NoncesInOrder)
  BY <1>1, NoncesInductive, PTL DEF RuntimeSpec
<1> QED BY <1>2, PTL
=============================================================================
