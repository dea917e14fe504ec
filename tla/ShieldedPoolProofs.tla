------------------------- MODULE ShieldedPoolProofs -------------------------
(***************************************************************************)
(* Proofs about the pallet for every field order, byte range, set of keys, *)
(* proofs and calls: the types, the double-spend guarantee, that only      *)
(* proven transfers execute, and that the pool implements the ledger.      *)
(***************************************************************************)
EXTENDS ShieldedPool, FiniteSetTheorems, SequenceTheorems, TLAPS

\* A byte string that is a field element is its own residue.
LEMMA CanonicalResidue ==
  ASSUME NEW b \in Scalars
  PROVE  b % Order = b
BY PoolAssumption DEF Scalars

\* What is known of a submitted call.
LEMMA CallType ==
  ASSUME NEW c \in Calls
  PROVE  /\ c.inputs_nullifier = <<c.inputs_nullifier[1], c.inputs_nullifier[2]>>
         /\ c.inputs_nullifier[1] \in Bytes /\ c.inputs_nullifier[2] \in Bytes
         /\ c.outputs_commitment = <<c.outputs_commitment[1], c.outputs_commitment[2]>>
         /\ c.outputs_commitment[1] \in Bytes /\ c.outputs_commitment[2] \in Bytes
         /\ c.inputs_commitment[1] \in Bytes /\ c.inputs_commitment[2] \in Bytes
         /\ c.vk \in VKs \cup {Malformed} /\ c.proof \in Proofs \cup {Malformed}
         /\ InputsOf(c) \subseteq Bytes
BY PoolAssumption DEF Call, InputsOf

\* The two outputs, pushed one after the other, extend the list by exactly them.
LEMMA PushTwo ==
  ASSUME commitments \in Seq(Bytes), NEW c \in Calls
  PROVE  /\ PushOutputs(c) \in Seq(Bytes)
         /\ Len(PushOutputs(c)) = Len(commitments) + 2
         /\ \A i \in 1 .. Len(commitments) : PushOutputs(c)[i] = commitments[i]
         /\ PushOutputs(c)[Len(commitments) + 1] = c.outputs_commitment[1]
         /\ PushOutputs(c)[Len(commitments) + 2] = c.outputs_commitment[2]
<1> DEFINE outs == <<c.outputs_commitment[1], c.outputs_commitment[2]>>
<1>1. outs \in Seq(Bytes) /\ Len(outs) = 2
  BY CallType
<1>2. PushOutputs(c) = commitments \o outs
  BY CallType DEF PushOutputs
<1>3. /\ commitments \o outs \in Seq(Bytes)
      /\ Len(commitments \o outs) = Len(commitments) + 2
      /\ \A i \in 1 .. Len(commitments) + 2 :
           (commitments \o outs)[i] = IF i <= Len(commitments) THEN commitments[i]
                                      ELSE outs[i - Len(commitments)]
  <2> HIDE DEF outs
  <2> QED BY <1>1, ConcatProperties
<1> QED
  BY <1>1, <1>2, <1>3
-----------------------------------------------------------------------------
\* No call leaves the types, accepted or refused.
LEMMA PoolTypesInductive ==
  /\ Init => TypeOK
  /\ TypeOK /\ [Next]_vars => TypeOK'
<1>1. Init => TypeOK
  BY DEF Init, TypeOK
<1>2. TypeOK /\ [Next]_vars => TypeOK'
  <2> SUFFICES ASSUME TypeOK, [Next]_vars
               PROVE  TypeOK'
    OBVIOUS
  <2>1. ASSUME NEW e \in Errors, Reject(e)
        PROVE  TypeOK'
    BY <2>1 DEF TypeOK, Reject
  <2>2. ASSUME NEW c \in Calls, AcceptTransfer(c)
        PROVE  TypeOK'
    <3>1. commitments' \in Seq(Bytes)
      BY <2>2, PushTwo DEF TypeOK, AcceptTransfer
    <3>2. nullifiers' \subseteq Bytes
      BY <2>2, CallType DEF TypeOK, AcceptTransfer, Spend
    <3>3. events' \in Seq(EventSet)
      <4>1. Transferred(c) \in EventSet
        BY DEF EventSet
      <4> QED BY <2>2, <4>1, AppendProperties DEF TypeOK, AcceptTransfer
    <3>4. accepted' \in Seq(Calls)
      BY <2>2, AppendProperties DEF TypeOK, AcceptTransfer
    <3> QED BY <2>2, <3>1, <3>2, <3>3, <3>4 DEF TypeOK, AcceptTransfer
  <2>3. ASSUME NEW c \in Calls, transfer_shielded(c)
        PROVE  TypeOK'
    BY <2>1, <2>2, <2>3 DEF transfer_shielded, RejectUnproven, Errors
  <2>4. ASSUME NEW w \in Withdrawals, shielded_withdraw(w)
        PROVE  TypeOK'
    <3>1. CASE Reject("BadOrigin")
      BY <2>1, <3>1 DEF Errors
    <3>2. CASE ~ Reject("BadOrigin")
      <4>1. ShieldedWithdraw(w) \in EventSet
        BY DEF EventSet
      <4> QED BY <2>4, <3>2, <4>1, AppendProperties DEF TypeOK, shielded_withdraw
    <3> QED BY <3>1, <3>2
  <2>5. CASE initialize_block
    BY <2>5 DEF TypeOK, initialize_block
  <2>6. CASE UNCHANGED vars
    BY <2>6 DEF TypeOK, vars
  <2> QED BY <2>3, <2>4, <2>5, <2>6 DEF Next
<1> QED BY <1>1, <1>2

\* Every storage item keeps its declared type, whatever is submitted.
THEOREM TypeCorrect == Spec => []TypeOK
BY PoolTypesInductive, PTL DEF Spec
-----------------------------------------------------------------------------
(***************************************************************************)
(* The double-spend guarantee.  NoDoubleSpend speaks of field elements and *)
(* of the history; the code compares byte strings with the storage map.    *)
(* The inductive invariant closes both gaps: the map holds every nullifier *)
(* of the history, and every executed transfer of the verifying build has  *)
(* canonical nullifiers, because a proof exists for them.                  *)
(***************************************************************************)

\* The map has seen all inputs of the history.
AllRecorded ==
  \A i \in DOMAIN accepted : InputsOf(accepted[i]) \subseteq nullifiers

\* The map holds field elements only: the verifier refuses other names.
CanonicalNullifiers == nullifiers \subseteq Scalars

PoolInv ==
  /\ TypeOK
  /\ AllRecorded
  /\ NoNullifierReuse
  /\ Build = "std" => OnlyProvenTransfers /\ CanonicalNullifiers

\* The verifying build executes a call only if its proof states exactly it.
LEMMA ValidIsProven ==
  ASSUME Build = "std", NEW c \in Calls, verify_zk_proof(c) = "valid"
  PROVE  Proven(c)
<1>1. verify_ignoto_proof(c.vk, c.proof, public_inputs(c)) = "valid"
  BY DEF verify_zk_proof
<1>2. /\ c.proof \in Proofs /\ c.proof.vk = c.vk
      /\ \A i \in 1..6 : /\ from_repr(public_inputs(c)[i]) # Malformed
                        /\ c.proof.inputs[i] = from_repr(public_inputs(c)[i])
  BY <1>1, CallType DEF verify_ignoto_proof
<1>3. \A i \in 1..6 : c.proof.inputs[i] = public_inputs(c)[i]
  BY <1>2 DEF from_repr
<1>4. \A i \in 1..6 : public_inputs(c)[i] = Statement(c)[i]
  BY DEF public_inputs, Statement
<1>5. c.proof \in [vk : VKs, inputs : [1..6 -> Scalars]]
  BY <1>2, PoolAssumption
<1>6. c.proof.inputs = Statement(c)
  BY <1>3, <1>4, <1>5 DEF Statement
<1> QED BY <1>2, <1>5, <1>6 DEF Proven

\* The nullifiers and outputs of a proven call are field elements.
LEMMA ProvenIsCanonical ==
  ASSUME NEW c \in Calls, Proven(c)
  PROVE  /\ InputsOf(c) \subseteq Scalars
         /\ c.outputs_commitment[1] \in Scalars /\ c.outputs_commitment[2] \in Scalars
<1>1. c.proof \in [vk : VKs, inputs : [1..6 -> Scalars]]
  BY PoolAssumption DEF Proven
<1>2. \A i \in 1..6 : Statement(c)[i] \in Scalars
  BY <1>1 DEF Proven
<1>3. /\ Statement(c)[5] = c.inputs_nullifier[1] /\ Statement(c)[6] = c.inputs_nullifier[2]
      /\ Statement(c)[3] = c.outputs_commitment[1] /\ Statement(c)[4] = c.outputs_commitment[2]
  BY DEF Statement
<1> QED BY <1>2, <1>3 DEF InputsOf

\* The strengthened invariant is inductive.
LEMMA PoolInvariant == Spec => []PoolInv
<1>1. Init => PoolInv
  BY DEF Init, PoolInv, TypeOK, AllRecorded, NoNullifierReuse, OnlyProvenTransfers,
         CanonicalNullifiers
<1>2. PoolInv /\ TypeOK' /\ [Next]_vars => PoolInv'
  <2> SUFFICES ASSUME PoolInv, TypeOK', [Next]_vars
               PROVE  PoolInv'
    OBVIOUS
  <2>1. CASE UNCHANGED <<accepted, nullifiers>>
    BY <2>1 DEF PoolInv, AllRecorded, NoNullifierReuse, OnlyProvenTransfers, CanonicalNullifiers
  <2>2. ASSUME NEW c \in Calls, AcceptTransfer(c)
        PROVE  PoolInv'
    <3>1. /\ accepted' = Append(accepted, c) /\ accepted \in Seq(Calls)
          /\ nullifiers' = nullifiers \cup InputsOf(c)
          /\ InputsOf(c) \cap nullifiers = {}
      BY <2>2 DEF PoolInv, TypeOK, AcceptTransfer, AlreadySpent, Spend
    <3> DEFINE n == Len(accepted)
    <3>2. /\ n \in Nat /\ DOMAIN accepted = 1..n /\ DOMAIN accepted' = 1 .. n + 1
          /\ accepted'[n + 1] = c /\ \A i \in 1..n : accepted'[i] = accepted[i]
      BY <3>1, AppendProperties
    <3>3. AllRecorded'
      BY <3>1, <3>2 DEF PoolInv, AllRecorded
    <3>4. NoNullifierReuse'
      BY <3>1, <3>2 DEF PoolInv, AllRecorded, NoNullifierReuse
    <3>5. Build = "std" => OnlyProvenTransfers' /\ CanonicalNullifiers'
      <4>1. Build = "std" => Proven(c)
        BY <2>2, ValidIsProven DEF AcceptTransfer
      <4>2. Build = "std" => CanonicalNullifiers'
        BY <3>1, <4>1, ProvenIsCanonical DEF PoolInv, CanonicalNullifiers
      <4> QED BY <3>2, <4>1, <4>2 DEF PoolInv, OnlyProvenTransfers
    <3> QED BY <3>3, <3>4, <3>5 DEF PoolInv
  <2>3. ASSUME NEW c \in Calls, transfer_shielded(c)
        PROVE  PoolInv'
    BY <2>1, <2>2, <2>3 DEF transfer_shielded, RejectUnproven, Reject
  <2>4. ASSUME NEW w \in Withdrawals, shielded_withdraw(w)
        PROVE  PoolInv'
    BY <2>1, <2>4 DEF shielded_withdraw, Reject
  <2>5. CASE initialize_block \/ UNCHANGED vars
    BY <2>1, <2>5 DEF initialize_block, vars
  <2> QED BY <2>3, <2>4, <2>5 DEF Next
<1> QED BY <1>1, <1>2, TypeCorrect, PTL DEF Spec

\* Build by build, whatever the calls: no stored nullifier is consumed twice.
THEOREM NullifiersUsedOnce == Spec => []NoNullifierReuse
<1>1. PoolInv => NoNullifierReuse
  BY DEF PoolInv
<1> QED BY <1>1, PoolInvariant, PTL

\* The verifying build executes a transfer only with a proof of it (lib.rs:98).
THEOREM TransfersAreProven ==
  ASSUME Build = "std"
  PROVE  Spec => []OnlyProvenTransfers
<1>1. PoolInv => OnlyProvenTransfers
  BY DEF PoolInv
<1> QED BY <1>1, PoolInvariant, PTL

\* The verifying build consumes no field element twice, although it compares
\* byte strings and several byte strings may reduce to one field element.
THEOREM DoubleSpendFree ==
  ASSUME Build = "std"
  PROVE  Spec => []NoDoubleSpend
<1>1. PoolInv => NoDoubleSpend
  <2> SUFFICES ASSUME PoolInv, NEW i \in DOMAIN accepted, NEW j \in DOMAIN accepted, i # j
               PROVE  ScalarInputs(accepted[i]) \cap ScalarInputs(accepted[j]) = {}
    BY DEF NoDoubleSpend
  <2>1. \A k \in DOMAIN accepted : accepted[k] \in Calls
    BY DEF PoolInv, TypeOK
  <2>2. \A k \in DOMAIN accepted : InputsOf(accepted[k]) \subseteq Scalars
    BY <2>1, ProvenIsCanonical DEF PoolInv, OnlyProvenTransfers
  <2>3. \A k \in DOMAIN accepted : ScalarInputs(accepted[k]) = InputsOf(accepted[k])
    BY <2>2, CanonicalResidue DEF ScalarInputs
  <2> QED BY <2>3 DEF PoolInv, NoNullifierReuse
<1> QED BY <1>1, PoolInvariant, PTL
-----------------------------------------------------------------------------
\* What the two storage items hold is what the history says, in every build.
THEOREM StorageMatchesHistory == Spec => []StorageIsHistory
<1>1. Init => StorageIsHistory
  BY DEF Init, StorageIsHistory
<1>2. TypeOK /\ StorageIsHistory /\ [Next]_vars => StorageIsHistory'
  <2> SUFFICES ASSUME TypeOK, StorageIsHistory, [Next]_vars
               PROVE  StorageIsHistory'
    OBVIOUS
  <2>1. CASE UNCHANGED <<accepted, nullifiers, commitments>>
    BY <2>1 DEF StorageIsHistory
  <2>2. ASSUME NEW c \in Calls, AcceptTransfer(c)
        PROVE  StorageIsHistory'
    <3> DEFINE n == Len(accepted)
    <3>1. /\ accepted \in Seq(Calls) /\ commitments \in Seq(Bytes)
          /\ accepted' = Append(accepted, c) /\ commitments' = PushOutputs(c)
          /\ nullifiers' = nullifiers \cup InputsOf(c)
      BY <2>2 DEF TypeOK, AcceptTransfer, Spend
    <3>2. /\ n \in Nat /\ DOMAIN accepted = 1..n /\ DOMAIN accepted' = 1 .. n + 1
          /\ Len(accepted') = n + 1
          /\ accepted'[n + 1] = c /\ \A i \in 1..n : accepted'[i] = accepted[i]
      BY <3>1, AppendProperties
    <3>3. /\ Len(commitments) = 2 * n /\ Len(commitments') = 2 * n + 2
          /\ \A i \in 1 .. 2 * n : commitments'[i] = commitments[i]
          /\ commitments'[2 * n + 1] = c.outputs_commitment[1]
          /\ commitments'[2 * n + 2] = c.outputs_commitment[2]
      BY <3>1, PushTwo DEF StorageIsHistory
    <3>4. nullifiers' = UNION {InputsOf(accepted'[i]) : i \in DOMAIN accepted'}
      <4>1. /\ \A i \in 1..n : InputsOf(accepted'[i]) = InputsOf(accepted[i])
            /\ InputsOf(accepted'[n + 1]) = InputsOf(c)
        BY <3>2
      <4>2. {InputsOf(accepted'[i]) : i \in 1 .. n + 1}
              = {InputsOf(accepted[i]) : i \in 1..n} \cup {InputsOf(c)}
        BY <3>2, <4>1
      <4> DEFINE old == {InputsOf(accepted[i]) : i \in 1..n}
                 new == {InputsOf(accepted'[i]) : i \in 1 .. n + 1}
      <4>3. nullifiers = UNION old
        BY <3>2 DEF StorageIsHistory
      <4>4. new = {InputsOf(accepted'[i]) : i \in DOMAIN accepted'}
        BY <3>2
      <4> HIDE DEF old, new
      <4>5. UNION (old \cup {InputsOf(c)}) = (UNION old) \cup InputsOf(c)
        OBVIOUS
      <4>6. new = old \cup {InputsOf(c)}
        BY <4>2 DEF old, new
      <4>7. nullifiers' = UNION new
        BY <3>1, <4>3, <4>5, <4>6
      <4> QED BY <4>4, <4>7
    <3>5. ASSUME NEW i \in 1 .. n + 1
          PROVE  /\ commitments'[2*i - 1] = accepted'[i].outputs_commitment[1]
                 /\ commitments'[2*i] = accepted'[i].outputs_commitment[2]
      <4>1. CASE i = n + 1
        <5>1. 2*i - 1 = 2 * n + 1 /\ 2*i = 2 * n + 2
          BY <3>2, <4>1
        <5> QED BY <3>2, <3>3, <4>1, <5>1
      <4>2. CASE i \in 1..n
        <5>1. 2*i - 1 \in 1 .. 2 * n /\ 2*i \in 1 .. 2 * n
          BY <3>2, <4>2
        <5>2. commitments'[2*i - 1] = commitments[2*i - 1] /\ commitments'[2*i] = commitments[2*i]
          BY <3>3, <5>1
        <5> QED BY <3>2, <4>2, <5>2 DEF StorageIsHistory
      <4> QED BY <3>2, <4>1, <4>2
    <3>6. Len(commitments') = 2 * Len(accepted')
      BY <3>2, <3>3
    <3> QED BY <3>2, <3>4, <3>5, <3>6 DEF StorageIsHistory
  <2>3. ASSUME NEW c \in Calls, transfer_shielded(c)
        PROVE  StorageIsHistory'
    BY <2>1, <2>2, <2>3 DEF transfer_shielded, RejectUnproven, Reject
  <2>4. ASSUME NEW w \in Withdrawals, shielded_withdraw(w)
        PROVE  StorageIsHistory'
    BY <2>1, <2>4 DEF shielded_withdraw, Reject
  <2>5. CASE initialize_block \/ UNCHANGED vars
    BY <2>1, <2>5 DEF initialize_block, vars
  <2> QED BY <2>3, <2>4, <2>5 DEF Next
<1> QED BY <1>1, <1>2, TypeCorrect, PTL DEF Spec

\* The positions of the Transferred events are finitely many numbers.
LEMMA TransferPositions ==
  ASSUME TypeOK
  PROVE  /\ DOMAIN events = 1 .. Len(events) /\ Len(events) \in Nat
         /\ TransferEvents \subseteq 1 .. Len(events)
         /\ IsFiniteSet(TransferEvents) /\ Cardinality(TransferEvents) \in Nat
<1>1. DOMAIN events = 1 .. Len(events) /\ Len(events) \in Nat
  BY LenProperties DEF TypeOK
<1>2. TransferEvents \subseteq 1 .. Len(events)
  BY <1>1 DEF TransferEvents
<1>3. IsFiniteSet(1 .. Len(events))
  BY <1>1, FS_Interval
<1> QED BY <1>1, <1>2, <1>3, FS_Subset, FS_CardinalityType

\* Every Transferred event of a block is one transfer of the history, and they
\* come in the same order, so an observer of events misses and repeats none.
THEOREM EventsAreTransfers == Spec => []EventsReportTransfers
<1> DEFINE first == Len(accepted) - Cardinality(TransferEvents)
           rank(k) == Cardinality({j \in TransferEvents : j <= k})
           Reports(k) ==
             /\ events[k].inputs_nullifier = accepted[first + rank(k)].inputs_nullifier
             /\ events[k].outputs_commitment = accepted[first + rank(k)].outputs_commitment
           Ranked == \A k \in TransferEvents : rank(k) \in 1 .. Cardinality(TransferEvents)
<1>0. EventsReportTransfers <=> first >= 0 /\ \A k \in TransferEvents : Reports(k)
  BY DEF EventsReportTransfers
<1>1. Init => EventsReportTransfers
  <2> SUFFICES ASSUME Init PROVE EventsReportTransfers
    OBVIOUS
  <2>1. TransferEvents = {} /\ Len(accepted) = 0
    BY DEF Init, TransferEvents
  <2>2. Cardinality(TransferEvents) = 0
    BY <2>1, FS_EmptySet
  <2> QED BY <1>0, <2>1, <2>2
<1>2. ASSUME TypeOK PROVE Ranked
  <2> SUFFICES ASSUME NEW k \in TransferEvents
               PROVE  rank(k) \in 1 .. Cardinality(TransferEvents)
    OBVIOUS
  <2> DEFINE R == {j \in TransferEvents : j <= k}
  <2>1. k \in Int /\ k <= k
    BY <1>2, TransferPositions
  <2>2. R \subseteq TransferEvents /\ k \in R
    BY <2>1
  <2> HIDE DEF R
  <2>3. IsFiniteSet(R) /\ Cardinality(R) <= Cardinality(TransferEvents)
    BY <1>2, <2>2, TransferPositions, FS_Subset
  <2>4. Cardinality(R) \in Nat /\ Cardinality(R) # 0
    BY <2>2, <2>3, FS_EmptySet, FS_CardinalityType
  <2>5. Cardinality(R) \in 1 .. Cardinality(TransferEvents)
    BY <1>2, <2>3, <2>4, TransferPositions
  <2> QED BY <2>5 DEF R
<1>3. ASSUME TypeOK, TypeOK', EventsReportTransfers, [Next]_vars
      PROVE  EventsReportTransfers'
  <2>1. CASE UNCHANGED <<accepted, events>>
    BY <1>3, <2>1 DEF EventsReportTransfers, TransferEvents
  <2>2. ASSUME NEW c \in Calls, AcceptTransfer(c)
        PROVE  EventsReportTransfers'
    <3> DEFINE n == Len(events)
               T == TransferEvents
    <3>1. /\ accepted \in Seq(Calls) /\ events \in Seq(EventSet)
          /\ accepted' = Append(accepted, c) /\ events' = Append(events, Transferred(c))
          /\ Transferred(c) \in EventSet
      BY <1>3, <2>2 DEF TypeOK, AcceptTransfer, EventSet
    <3>2. /\ n \in Nat /\ DOMAIN events = 1..n /\ DOMAIN events' = 1 .. n + 1
          /\ events'[n + 1] = Transferred(c) /\ \A k \in 1..n : events'[k] = events[k]
      BY <3>1, AppendProperties
    <3>3. /\ Len(accepted) \in Nat /\ Len(accepted') = Len(accepted) + 1
          /\ accepted'[Len(accepted) + 1] = c
          /\ \A i \in 1 .. Len(accepted) : accepted'[i] = accepted[i]
      BY <3>1, AppendProperties
    <3>4. T' = T \cup {n + 1} /\ n + 1 \notin T /\ T \subseteq 1..n
      BY <3>2 DEF TransferEvents, Transferred
    <3>5. Cardinality(T') = Cardinality(T) + 1 /\ Cardinality(T) \in Nat
      BY <1>3, <3>4, TransferPositions, FS_AddElement
    <3>6. first' = first /\ first \in Nat
      BY <1>0, <1>3, <3>3, <3>5
    <3>7. ASSUME NEW k \in T PROVE Reports(k)'
      <4>1. {j \in T' : j <= k} = {j \in T : j <= k} /\ k \in 1..n
        BY <3>2, <3>4
      <4>2. rank(k)' = rank(k) /\ rank(k) \in 1 .. Cardinality(T)
        BY <1>2, <1>3, <4>1
      <4>3. first + rank(k) \in 1 .. Len(accepted)
        BY <3>3, <3>5, <3>6, <4>2
      <4>4. Reports(k)
        BY <1>0, <1>3
      <4> QED BY <3>2, <3>3, <3>6, <4>1, <4>2, <4>3, <4>4
    <3>8. ASSUME NEW m, m = n + 1 PROVE Reports(m)'
      <4>1. \A j \in T' : j <= m
        BY <3>2, <3>4, <3>8
      <4>2. {j \in T' : j <= m} = T'
        BY <4>1
      <4>3. first' + rank(m)' = Len(accepted) + 1
        <5>1. rank(m)' = Cardinality(T) + 1
          BY <3>5, <4>2
        <5>2. first' = Len(accepted) - Cardinality(T)
          BY <3>6
        <5> QED BY <3>3, <3>5, <5>1, <5>2
      <4>4. accepted'[first' + rank(m)'] = c /\ events'[m] = Transferred(c)
        BY <3>2, <3>3, <3>8, <4>3
      <4> QED BY <4>4 DEF Transferred
    <3>9. first' >= 0 /\ \A k \in T' : Reports(k)'
      <4>1. \A k \in T' : k \in T \/ k = n + 1
        BY <3>4
      <4>2. \A k \in T' : Reports(k)'
        BY <3>7, <3>8, <4>1
      <4> QED BY <3>6, <4>2
    <3> QED BY <3>9 DEF EventsReportTransfers
  <2>3. ASSUME NEW c \in Calls, transfer_shielded(c)
        PROVE  EventsReportTransfers'
    BY <2>1, <2>2, <2>3 DEF transfer_shielded, RejectUnproven, Reject
  <2>4. ASSUME NEW w \in Withdrawals, shielded_withdraw(w)
        PROVE  EventsReportTransfers'
    <3>1. CASE Reject("BadOrigin")
      BY <2>1, <3>1 DEF Reject
    <3>2. CASE ~Reject("BadOrigin")
      <4> DEFINE n == Len(events)
      <4>1. /\ events \in Seq(EventSet) /\ UNCHANGED accepted
            /\ events' = Append(events, ShieldedWithdraw(w)) /\ ShieldedWithdraw(w) \in EventSet
        BY <1>3, <2>4, <3>2 DEF TypeOK, shielded_withdraw, EventSet
      <4>2. /\ n \in Nat /\ DOMAIN events = 1..n /\ DOMAIN events' = 1 .. n + 1
            /\ events'[n + 1] = ShieldedWithdraw(w) /\ \A k \in 1..n : events'[k] = events[k]
        BY <4>1, AppendProperties
      <4>3. TransferEvents' = TransferEvents /\ \A k \in TransferEvents : events'[k] = events[k]
        BY <4>2 DEF TransferEvents, ShieldedWithdraw
      <4> QED BY <1>3, <4>1, <4>3 DEF EventsReportTransfers
    <3> QED BY <3>1, <3>2
  <2>5. CASE initialize_block
    <3>1. events' = <<>> /\ UNCHANGED accepted
      BY <2>5 DEF initialize_block
    <3>2. TransferEvents' = {} /\ Len(accepted) \in Nat
      BY <1>3, <3>1, LenProperties DEF TransferEvents, TypeOK
    <3>3. Cardinality(TransferEvents') = 0
      BY <3>2, FS_EmptySet
    <3> QED BY <3>1, <3>2, <3>3 DEF EventsReportTransfers
  <2>6. CASE UNCHANGED vars
    BY <2>1, <2>6 DEF vars
  <2> QED BY <1>3, <2>3, <2>4, <2>5, <2>6 DEF Next
<1> QED BY <1>1, <1>3, TypeCorrect, PTL DEF Spec

\* The statement a wallet proves is the one the pallet checks, so a proof of the
\* right statement always passes, in every build.
THEOREM HonestTransfersVerify == Spec => []HonestTransferAccepted
<1>1. ASSUME NEW c \in Calls, Proven(c)
      PROVE  verify_zk_proof(c) = "valid"
  <2>1. c.proof \in [vk : VKs, inputs : [1..6 -> Scalars]]
    BY <1>1, PoolAssumption DEF Proven
  <2>2. c.vk # Malformed /\ c.proof # Malformed
    BY <1>1, <2>1, PoolAssumption DEF Proven
  <2>3. \A k \in 1..6 : c.proof.inputs[k] = public_inputs(c)[k]
    BY <1>1 DEF Proven, Statement, public_inputs
  <2>4. \A k \in 1..6 : from_repr(public_inputs(c)[k]) = public_inputs(c)[k]
                        /\ public_inputs(c)[k] # Malformed
    BY <2>1, <2>3, PoolAssumption DEF from_repr, Scalars
  <2> QED BY <1>1, <2>2, <2>3, <2>4 DEF verify_zk_proof, verify_ignoto_proof, Proven
<1>2. HonestTransferAccepted
  BY <1>1 DEF HonestTransferAccepted
<1> QED BY <1>2, PTL
-----------------------------------------------------------------------------
\* A function of the history grows with the history.
LEMMA HistoryGrows ==
  ASSUME NEW s \in Seq(Calls), NEW c \in Calls, NEW f \in [Calls -> SUBSET Int]
  PROVE  [i \in DOMAIN Append(s, c) |-> f[Append(s, c)[i]]]
           = Append([i \in DOMAIN s |-> f[s[i]]], f[c])
<1> DEFINE n == Len(s)
           old == [i \in DOMAIN s |-> f[s[i]]]
           new == [i \in DOMAIN Append(s, c) |-> f[Append(s, c)[i]]]
<1>1. /\ n \in Nat /\ DOMAIN s = 1..n /\ DOMAIN Append(s, c) = 1 .. n + 1
      /\ Append(s, c)[n + 1] = c /\ \A i \in 1..n : Append(s, c)[i] = s[i] /\ s[i] \in Calls
  BY AppendProperties
<1>2. old \in Seq(SUBSET Int) /\ Len(old) = n /\ \A i \in 1..n : old[i] = f[s[i]]
  <2>1. old \in [1..n -> SUBSET Int]
    BY <1>1
  <2> QED BY <1>1, <2>1, SeqDef, LenProperties
<1>3. new = [i \in 1 .. n + 1 |-> IF i = n + 1 THEN f[c] ELSE f[s[i]]]
  BY <1>1
<1>4. /\ Append(old, f[c]) \in Seq(SUBSET Int) /\ Len(Append(old, f[c])) = n + 1
      /\ \A i \in 1..n : Append(old, f[c])[i] = f[s[i]]
      /\ Append(old, f[c])[n + 1] = f[c]
  <2> HIDE DEF old
  <2> QED BY <1>1, <1>2, AppendProperties
<1>5. Append(old, f[c]) = [i \in 1 .. n + 1 |-> IF i = n + 1 THEN f[c] ELSE f[s[i]]]
  <2> HIDE DEF old
  <2> QED BY <1>1, <1>4, LenProperties
<1> QED BY <1>3, <1>5

\* In every build the pallet, seen as byte strings, is the abstract ledger: a
\* step consumes fresh nullifiers, all of them, and appends two outputs, or
\* changes nothing.
THEOREM RefinesByteLedger == Spec => ImplementsByteLedger
<1> DEFINE consumed == [i \in DOMAIN accepted |-> InputsOf(accepted[i])]
<1>1. Init => ByteLedger!Init
  BY DEF Init, ByteLedger!Init
<1>2. TypeOK /\ [Next]_vars => [ByteLedger!Next]_<<nullifiers, commitments, consumed>>
  <2> SUFFICES ASSUME TypeOK, [Next]_vars
               PROVE  ByteLedger!Next \/ UNCHANGED <<nullifiers, commitments, consumed>>
    OBVIOUS
  <2>1. ASSUME NEW c \in Calls, AcceptTransfer(c)
        PROVE  ByteLedger!Next
    <3>1. /\ InputsOf(c) \cap nullifiers = {}
          /\ nullifiers' = nullifiers \cup InputsOf(c)
          /\ commitments' = commitments \o <<c.outputs_commitment[1], c.outputs_commitment[2]>>
      BY <2>1, CallType DEF AcceptTransfer, AlreadySpent, Spend, PushOutputs
    <3>2. consumed' = Append(consumed, InputsOf(c))
      <4> DEFINE f == [d \in Calls |-> InputsOf(d)]
      <4>1. f \in [Calls -> SUBSET Int]
        BY CallType, PoolAssumption DEF Bytes
      <4>2. accepted \in Seq(Calls) /\ accepted' = Append(accepted, c)
        BY <2>1 DEF TypeOK, AcceptTransfer
      <4>3. accepted' \in Seq(Calls)
        BY <4>2, AppendProperties
      <4>4. consumed = [i \in DOMAIN accepted |-> f[accepted[i]]]
        BY <4>2
      <4>5. consumed' = [i \in DOMAIN accepted' |-> f[accepted'[i]]]
        BY <4>3
      <4>6. f[c] = InputsOf(c)
        OBVIOUS
      <4> HIDE DEF f, consumed
      <4> QED BY <4>1, <4>2, <4>4, <4>5, <4>6, HistoryGrows
    <3>3. ByteLedger!Transfer(c.inputs_nullifier[1], c.inputs_nullifier[2],
                              c.outputs_commitment[1], c.outputs_commitment[2])
      BY <3>1, <3>2 DEF ByteLedger!Transfer, InputsOf
    <3> QED BY <3>3, CallType DEF ByteLedger!Next
  <2>2. CASE UNCHANGED <<nullifiers, commitments, accepted>>
    BY <2>2
  <2>3. ASSUME NEW c \in Calls, transfer_shielded(c)
        PROVE  ByteLedger!Next \/ UNCHANGED <<nullifiers, commitments, consumed>>
    BY <2>1, <2>2, <2>3 DEF transfer_shielded, RejectUnproven, Reject
  <2>4. ASSUME NEW w \in Withdrawals, shielded_withdraw(w)
        PROVE  UNCHANGED <<nullifiers, commitments, consumed>>
    BY <2>2, <2>4 DEF shielded_withdraw, Reject
  <2>5. CASE initialize_block \/ UNCHANGED vars
    BY <2>2, <2>5 DEF initialize_block, vars
  <2> QED BY <2>3, <2>4, <2>5 DEF Next
<1> QED
  BY <1>1, <1>2, TypeCorrect, PTL
  DEF Spec, ImplementsByteLedger, ByteLedger!Spec, ByteLedger!ledgerVars

\* Pushing two field elements pushes their residues.
LEMMA ResiduesGrow ==
  ASSUME commitments \in Seq(Bytes), NEW c \in Calls,
         c.outputs_commitment[1] \in Scalars, c.outputs_commitment[2] \in Scalars
  PROVE  [i \in DOMAIN PushOutputs(c) |-> PushOutputs(c)[i] % Order]
           = [i \in DOMAIN commitments |-> commitments[i] % Order]
               \o <<c.outputs_commitment[1], c.outputs_commitment[2]>>
<1> DEFINE n == Len(commitments)
           old == [i \in DOMAIN commitments |-> commitments[i] % Order]
           outs == <<c.outputs_commitment[1], c.outputs_commitment[2]>>
           Entry(i) == IF i = n + 1 THEN c.outputs_commitment[1]
                       ELSE IF i = n + 2 THEN c.outputs_commitment[2]
                       ELSE commitments[i] % Order
<1>1. n \in Nat /\ DOMAIN commitments = 1..n
  BY LenProperties
<1>2. old \in Seq(Int) /\ Len(old) = n /\ \A i \in 1..n : old[i] = commitments[i] % Order
  <2>1. \A i \in 1..n : commitments[i] % Order \in Int
    BY <1>1, PoolAssumption DEF Bytes
  <2>2. old \in [1..n -> Int]
    BY <1>1, <2>1
  <2> QED BY <1>1, <2>2, SeqDef, LenProperties
<1>3. outs \in Seq(Int) /\ Len(outs) = 2
  BY PoolAssumption DEF Scalars
<1>4. old \o outs = [i \in 1 .. n + 2 |-> Entry(i)]
  <2>1. /\ old \o outs \in Seq(Int) /\ Len(old \o outs) = n + 2
        /\ \A i \in 1 .. n + 2 : (old \o outs)[i] = IF i <= n THEN old[i] ELSE outs[i - n]
    <3> HIDE DEF n, old, outs
    <3>1. /\ old \o outs \in Seq(Int) /\ Len(old \o outs) = Len(old) + Len(outs)
          /\ \A i \in 1 .. Len(old) + Len(outs) :
               (old \o outs)[i] = IF i <= Len(old) THEN old[i] ELSE outs[i - Len(old)]
      BY <1>2, <1>3, ConcatProperties
    <3> QED BY <1>1, <1>2, <1>3, <3>1
  <2>2. \A i \in 1 .. n + 2 : (old \o outs)[i] = Entry(i)
    <3>1. ASSUME NEW i \in 1..n PROVE (old \o outs)[i] = Entry(i)
      BY <1>1, <1>2, <2>1
    <3>2. (old \o outs)[n + 1] = Entry(n + 1) /\ (old \o outs)[n + 2] = Entry(n + 2)
      BY <1>1, <2>1
    <3> QED BY <1>1, <3>1, <3>2
  <2> HIDE DEF old, outs, Entry
  <2> QED BY <1>1, <2>1, <2>2, LenProperties
<1>5. [i \in DOMAIN PushOutputs(c) |-> PushOutputs(c)[i] % Order] = [i \in 1 .. n + 2 |-> Entry(i)]
  <2>1. DOMAIN PushOutputs(c) = 1 .. n + 2
    BY <1>1, PushTwo, LenProperties
  <2>2. \A i \in 1 .. n + 2 : PushOutputs(c)[i] % Order = Entry(i)
    BY <1>1, PushTwo, CanonicalResidue
  <2> HIDE DEF Entry
  <2> QED BY <2>1, <2>2
<1> QED BY <1>4, <1>5

\* The verifying build implements the ledger of field elements.
THEOREM RefinesScalarLedger ==
  ASSUME Build = "std"
  PROVE  Spec => ImplementsScalarLedger
<1> DEFINE consumed == [i \in DOMAIN accepted |-> ScalarInputs(accepted[i])]
           spent == {n % Order : n \in nullifiers}
           minted == [i \in DOMAIN commitments |-> commitments[i] % Order]
<1>1. Init => ScalarLedger!Init
  BY DEF Init, ScalarLedger!Init
<1>2. PoolInv /\ [Next]_vars => [ScalarLedger!Next]_<<spent, minted, consumed>>
  <2> SUFFICES ASSUME PoolInv, [Next]_vars
               PROVE  ScalarLedger!Next \/ UNCHANGED <<spent, minted, consumed>>
    OBVIOUS
  <2>1. ASSUME NEW c \in Calls, AcceptTransfer(c)
        PROVE  ScalarLedger!Next
    <3> DEFINE a == c.inputs_nullifier[1]
               b == c.inputs_nullifier[2]
    <3>1. /\ InputsOf(c) \subseteq Scalars /\ nullifiers \subseteq Scalars
          /\ c.outputs_commitment[1] \in Scalars /\ c.outputs_commitment[2] \in Scalars
      BY <2>1, ValidIsProven, ProvenIsCanonical DEF AcceptTransfer, PoolInv, CanonicalNullifiers
    <3>2. spent = nullifiers /\ spent' = nullifiers \cup InputsOf(c)
          /\ ScalarInputs(c) = InputsOf(c)
      <4>1. \A S \in SUBSET Scalars : {n % Order : n \in S} = S
        BY CanonicalResidue
      <4>2. nullifiers' = nullifiers \cup InputsOf(c)
        BY <2>1 DEF AcceptTransfer, Spend
      <4> QED BY <3>1, <4>1, <4>2 DEF ScalarInputs
    <3>3. InputsOf(c) \cap spent = {}
      BY <2>1, <3>2 DEF AcceptTransfer, AlreadySpent
    <3>4. minted' = minted \o <<c.outputs_commitment[1], c.outputs_commitment[2]>>
      BY <2>1, <3>1, ResiduesGrow DEF AcceptTransfer, PoolInv, TypeOK
    <3>5. consumed' = Append(consumed, InputsOf(c))
      <4> DEFINE f == [d \in Calls |-> ScalarInputs(d)]
      <4>1. f \in [Calls -> SUBSET Int]
        <5>1. ASSUME NEW d \in Calls PROVE ScalarInputs(d) \subseteq Int
          BY CallType, PoolAssumption DEF ScalarInputs, Bytes
        <5> QED BY <5>1
      <4>2. accepted \in Seq(Calls) /\ accepted' = Append(accepted, c)
        BY <2>1 DEF PoolInv, TypeOK, AcceptTransfer
      <4>3. accepted' \in Seq(Calls)
        BY <4>2, AppendProperties
      <4>4. consumed = [i \in DOMAIN accepted |-> f[accepted[i]]]
        BY <4>2
      <4>5. consumed' = [i \in DOMAIN accepted' |-> f[accepted'[i]]]
        BY <4>3
      <4>6. f[c] = InputsOf(c)
        BY <3>2
      <4> HIDE DEF f, consumed
      <4> QED BY <4>1, <4>2, <4>4, <4>5, <4>6, HistoryGrows
    <3>6. ScalarLedger!Transfer(a, b, c.outputs_commitment[1], c.outputs_commitment[2])
      BY <3>2, <3>3, <3>4, <3>5 DEF ScalarLedger!Transfer, InputsOf
    <3>7. a \in Scalars /\ b \in Scalars
      BY <3>1 DEF InputsOf
    <3> QED BY <3>1, <3>6, <3>7 DEF ScalarLedger!Next
  <2>2. CASE UNCHANGED <<nullifiers, commitments, accepted>>
    BY <2>2
  <2>3. ASSUME NEW c \in Calls, transfer_shielded(c)
        PROVE  ScalarLedger!Next \/ UNCHANGED <<spent, minted, consumed>>
    BY <2>1, <2>2, <2>3 DEF transfer_shielded, RejectUnproven, Reject
  <2>4. ASSUME NEW w \in Withdrawals, shielded_withdraw(w)
        PROVE  UNCHANGED <<spent, minted, consumed>>
    BY <2>2, <2>4 DEF shielded_withdraw, Reject
  <2>5. CASE initialize_block \/ UNCHANGED vars
    BY <2>2, <2>5 DEF initialize_block, vars
  <2> QED BY <2>3, <2>4, <2>5 DEF Next
<1> QED
  BY <1>1, <1>2, PoolInvariant, PTL
  DEF Spec, ImplementsScalarLedger, ScalarLedger!Spec, ScalarLedger!ledgerVars
=============================================================================
