---------------------- MODULE TransactionCircuitProofs ----------------------
(***************************************************************************)
(* Soundness of the circuit for every prime field, width, witness and      *)
(* prover.  The loop of the range proof keeps the weighted sum below the   *)
(* next power of two as long as the constraints hold, so nothing wraps and *)
(* the value, equal to the sum, has at most Bits bits; four such values    *)
(* that balance modulo the order balance as integers.                      *)
(***************************************************************************)
EXTENDS TransactionCircuit, TLAPS

\* A remainder is a field element.
LEMMA Remainder ==
  ASSUME NEW x \in Int
  PROVE  x % Order \in Field
BY CircuitAssumption DEF Field

\* A field element is its own remainder.
LEMMA Reduced ==
  ASSUME NEW x \in Field
  PROVE  x % Order = x
BY CircuitAssumption DEF Field

\* Every weight is a field element, with room for one more doubling.
LEMMA Weights ==
  ASSUME NEW n \in 0..Bits
  PROVE  Weight[n] \in Field /\ 2 * Weight[n] <= Order
BY CircuitAssumption DEF Field

\* The empty circuit and the ones provers instantiate have the declared type.
LEMMA WitnessType ==
  ASSUME NEW w \in Witnesses \cup {EmptyWitness}
  PROVE  w \in Witness
BY CircuitAssumption DEF Witness, EmptyWitness, Optional

\* Past the allocations, a prover's values are all there.
Present ==
  phase \in {"range", "dummies", "verify"} /\ mode = "prove"
    => \A k \in 1..4 : witness.value[k] \in Field

\* Whatever the prover, a bit is assigned an integer.
LEMMA BitType ==
  ASSUME TypeOK, Present, phase = "range",
         NEW b \in BitChoices
  PROVE  b \in Int
<1>1. CASE mode = "prove" /\ prover = "code"
  <2>1. i \in 0..Bits /\ Weight[i] \in Nat \ {0}
    BY CircuitAssumption DEF TypeOK
  <2>2. witness.value[wire] \in Nat
    BY <1>1 DEF Present, TypeOK, Field
  <2> QED BY <1>1, <2>1, <2>2 DEF BitChoices, Decomposed
<1> QED BY <1>1 DEF BitChoices, Field, TypeOK

\* The shape of a constraint system keeps its type when it grows.
LEMMA Growth ==
  ASSUME shape \in Shapes, NEW a \in Nat, NEW c \in Nat
  PROVE  Grown(a, c) \in Shapes
BY DEF Shapes, Grown
-----------------------------------------------------------------------------
\* One step keeps the types.
LEMMA TypeStep ==
  ASSUME TypeOK, Present, [Next]_vars
  PROVE  TypeOK'
<1>1. CASE StartSetup
  BY <1>1 DEF TypeOK, StartSetup, Start, loop
<1>2. ASSUME NEW w \in Witnesses, NEW p \in {"code", "any"}, StartProof(w, p)
      PROVE  TypeOK'
  BY <1>2 DEF TypeOK, StartProof, Start, loop
<1>3. CASE Allocate
  <2>1. 1 \in Field /\ 0 \in Field /\ 0 \in 0..Bits
    BY CircuitAssumption DEF Field
  <2>2. [aux |-> 12, input |-> 6, constraint |-> 1] \in Shapes
    BY DEF Shapes
  <2>3. CASE mode = "prove" /\ AssignmentMissing
    BY <1>3, <2>3 DEF TypeOK, Allocate, loop
  <2>4. CASE ~(mode = "prove" /\ AssignmentMissing)
    <3>1. sat' \in BOOLEAN
      BY <1>3, <2>4, Zenon DEF Allocate
    <3> QED BY <1>3, <2>1, <2>2, <2>4, <3>1 DEF TypeOK, Allocate, BeginRange
  <2> QED BY <2>3, <2>4
<1>4. CASE RangeBit
  <2>1. PICK b \in BitChoices : /\ acc' = (acc + coeff * b) % Order
                                /\ sat' = (sat /\ Boolean(b))
    BY <1>4 DEF RangeBit
  <2>2. acc' \in Field
    <3>1. b \in Int
      BY <1>4, <2>1, BitType DEF RangeBit
    <3>2. acc + coeff * b \in Int
      BY <3>1 DEF TypeOK, Field
    <3> QED BY <2>1, <3>2, Remainder
  <2>3. coeff' \in Field
    <3>1. 2 * coeff \in Int
      BY DEF TypeOK, Field
    <3> QED BY <1>4, <3>1, Remainder DEF RangeBit
  <2>4. i' \in 0..Bits
    BY <1>4, CircuitAssumption DEF TypeOK, RangeBit, LoopEnds
  <2>5. shape' \in Shapes
    BY <1>4, Growth DEF TypeOK, RangeBit
  <2> QED BY <1>4, <2>1, <2>2, <2>3, <2>4, <2>5 DEF TypeOK, RangeBit
<1>5. CASE RangeSum
  <2>1. 1 \in Field /\ 0 \in Field /\ 0 \in 0..Bits
    BY CircuitAssumption DEF Field
  <2>2. shape' \in Shapes
    BY <1>5, Growth DEF TypeOK, RangeSum
  <2>3. wire' \in 1..4 /\ i' \in 0..Bits /\ coeff' \in Field /\ acc' \in Field
    BY <1>5, <2>1 DEF TypeOK, RangeSum, BeginRange, loop
  <2> QED BY <1>5, <2>2, <2>3 DEF TypeOK, RangeSum
<1>6. CASE Dummies
  <2>1. shape' \in Shapes /\ (params' = params \/ params' = shape')
    BY <1>6, Growth DEF TypeOK, Dummies
  <2> QED BY <1>6, <2>1 DEF TypeOK, Dummies, loop
<1>7. CASE Verify
  <2>1. spends' \subseteq Optional(Field) \X Optional(Field)
    BY <1>7, WitnessType DEF TypeOK, Verify, Witness
  <2> QED BY <1>7, <2>1 DEF TypeOK, Verify, loop
<1>8. CASE UNCHANGED vars
  BY <1>8 DEF TypeOK, vars, loop
<1> QED BY <1>1, <1>2, <1>3, <1>4, <1>5, <1>6, <1>7, <1>8 DEF Next

\* Init establishes, and every step keeps, Present.
LEMMA PresentInvariant == Spec => [](TypeOK /\ Present)
<1>1. Init => TypeOK /\ Present
  BY CircuitAssumption DEF Init, TypeOK, Field, Shapes, Present
<1>2. TypeOK /\ Present /\ [Next]_vars => Present'
  <2> SUFFICES ASSUME TypeOK, Present, [Next]_vars
               PROVE  Present'
    OBVIOUS
  <2>1. CASE Allocate
    <3>1. \A k \in 1..4 : witness.value[k] \in Optional(Field)
      BY WitnessType DEF TypeOK, Witness
    <3> QED BY <2>1, <3>1 DEF Allocate, AssignmentMissing, Present, Optional
  <2>2. CASE StartSetup \/ \E w \in Witnesses, p \in {"code", "any"} : StartProof(w, p)
    BY <2>2 DEF Present, StartSetup, StartProof, Start
  <2>3. CASE RangeBit \/ RangeSum \/ Dummies \/ Verify \/ UNCHANGED vars
    BY <2>3 DEF Present, RangeBit, RangeSum, Dummies, Verify, vars
  <2> QED BY <2>1, <2>2, <2>3 DEF Next
<1> QED BY <1>1, <1>2, TypeStep, PTL DEF Spec

\* The registers of the loop keep their types (lib.rs:137-158).
THEOREM TypeCorrect == Spec => []TypeOK
BY PresentInvariant, PTL
-----------------------------------------------------------------------------
(***************************************************************************)
(* Soundness is not inductive: it says nothing of a session under way.     *)
(* LoopInv does, as long as the constraints enforced so far hold: the sum  *)
(* of the first i bits is below 2^i, so neither it nor the coefficient is  *)
(* ever reduced, and the values already done are in range.                 *)
(***************************************************************************)
LoopInv ==
  phase = "range" =>
    /\ coeff = Weight[i]
    /\ mode = "prove" /\ sat =>
         /\ acc < Weight[i]
         /\ \A k \in 1 .. wire - 1 : witness.value[k] \in 0 .. Weight[Bits] - 1
         /\ Conserved(witness.value)

DoneInv ==
  phase \in {"dummies", "verify"} /\ mode = "prove" /\ sat =>
    InRange(witness) /\ Conserved(witness.value)

SoundInv ==
  /\ LoopInv
  /\ DoneInv
  /\ phase = "verify" => mode = "prove"
  /\ phase # "idle" => outcome # "verified"
  /\ Soundness

\* Four values of at most Bits bits that balance in the field balance in Z.
LEMMA NoWraparound ==
  ASSUME NEW v \in [1..4 -> 0 .. Weight[Bits] - 1], Conserved(v)
  PROVE  v[1] + v[2] = v[3] + v[4]
<1>1. Weight[Bits] \in Nat /\ 2 * Weight[Bits] <= Order
  BY CircuitAssumption, Weights DEF Field
<1>2. \A k \in 1..4 : v[k] \in Nat /\ v[k] < Weight[Bits]
  BY <1>1
<1>3. v[1] + v[2] \in Field /\ v[3] + v[4] \in Field
  <2>1. v[1] \in Nat /\ v[2] \in Nat /\ v[3] \in Nat /\ v[4] \in Nat
    BY <1>2
  <2>2. /\ v[1] < Weight[Bits] /\ v[2] < Weight[Bits]
        /\ v[3] < Weight[Bits] /\ v[4] < Weight[Bits]
    BY <1>2
  <2>3. Order \in Nat
    BY CircuitAssumption
  <2>4. v[1] + v[2] < Order /\ v[3] + v[4] < Order
    BY <1>1, <2>1, <2>2, <2>3
  <2> QED BY <2>1, <2>3, <2>4 DEF Field
<1> QED BY <1>3, Reduced DEF Conserved

\* One more bit, if it is a bit, doubles the bound of the sum.
LEMMA BitStep ==
  ASSUME TypeOK, Present, LoopInv, RangeBit
  PROVE  /\ coeff' = Weight[i'] /\ UNCHANGED <<phase, wire, witness, mode>>
         /\ mode = "prove" /\ sat' => sat /\ acc' < Weight[i']
<1>1. phase = "range" /\ i \in 0 .. Bits - 1 /\ i' = i + 1
  BY CircuitAssumption DEF TypeOK, RangeBit, LoopEnds
<1>2. /\ Weight[i] \in Nat /\ Weight[i + 1] \in Field /\ Weight[i + 1] = 2 * Weight[i]
      /\ coeff = Weight[i]
  BY <1>1, Weights, CircuitAssumption DEF LoopInv
<1>3. coeff' = Weight[i']
  BY <1>1, <1>2, Reduced DEF RangeBit
<1>4. ASSUME mode = "prove", sat'
      PROVE  sat /\ acc' < Weight[i']
  <2>1. PICK b \in BitChoices : /\ acc' = (acc + coeff * b) % Order
                                /\ sat' = (sat /\ Boolean(b))
    BY DEF RangeBit
  <2>2. sat /\ Boolean(b)
    BY <1>4, <2>1
  <2>3. b \in {0, 1}
    <3>1. CASE prover = "code"
      <4>1. Weight[i] \in Nat \ {0}
        BY <1>1, CircuitAssumption
      <4>2. witness.value[wire] \in Nat
        BY <1>1, <1>4 DEF Present, TypeOK, Field
      <4>3. b = (witness.value[wire] \div Weight[i]) % 2
        BY <1>4, <2>1, <3>1 DEF BitChoices, Decomposed
      <4> QED BY <4>1, <4>2, <4>3
    <3>2. CASE prover # "code"
      <4>1. b \in Field
        BY <1>4, <2>1, <3>2 DEF BitChoices
      <4> QED BY <4>1, <2>2, FieldIsIntegral DEF Boolean
    <3> QED BY <3>1, <3>2
  <2>4. acc \in Nat /\ acc < Weight[i]
    BY <1>1, <1>4, <2>2 DEF LoopInv, TypeOK, Field
  <2>5. acc + coeff * b \in Field /\ acc + coeff * b < Weight[i + 1]
    <3>1. coeff * b = 0 \/ coeff * b = Weight[i]
      BY <1>2, <2>3
    <3>2. Weight[i + 1] < Order /\ Order \in Nat
      BY <1>2, CircuitAssumption DEF Field
    <3>3. Weight[i] \in Nat /\ Weight[i + 1] = 2 * Weight[i]
      BY <1>2
    <3>4. acc + coeff * b \in Nat /\ acc + coeff * b < Weight[i + 1]
      BY <2>4, <3>1, <3>3
    <3> QED BY <3>2, <3>3, <3>4 DEF Field
  <2> QED BY <1>1, <2>1, <2>2, <2>5, Reduced
<1> QED BY <1>3, <1>4 DEF RangeBit

\* Every proof that verifies, by whatever prover, has values of at most Bits
\* bits that balance as integers.
THEOREM CircuitIsSound == Spec => []Soundness
<1>1. Init => SoundInv
  BY DEF Init, SoundInv, LoopInv, DoneInv, Soundness
<1>2. TypeOK /\ Present /\ TypeOK' /\ SoundInv /\ [Next]_vars => SoundInv'
  <2> SUFFICES ASSUME TypeOK, Present, TypeOK', SoundInv, [Next]_vars
               PROVE  SoundInv'
    OBVIOUS
  <2>1. CASE StartSetup \/ \E w \in Witnesses, p \in {"code", "any"} : StartProof(w, p)
    BY <2>1 DEF StartSetup, StartProof, Start, SoundInv, LoopInv, DoneInv, Soundness
  <2>2. CASE Allocate
    <3>1. 0 \in 0..Bits /\ Weight[0] = 1
      BY CircuitAssumption
    <3>2. CASE mode = "prove" /\ AssignmentMissing
      BY <2>2, <3>2 DEF Allocate, SoundInv, LoopInv, DoneInv, Soundness
    <3>3. CASE ~(mode = "prove" /\ AssignmentMissing)
      <4>1. mode = "prove" /\ sat' => Conserved(witness.value)
        BY <2>2, <3>3 DEF Allocate
      <4>2. /\ phase' = "range" /\ wire' = 1 /\ i' = 0 /\ coeff' = 1 /\ acc' = 0
            /\ mode' = mode /\ witness' = witness /\ outcome' = outcome
            /\ outcome # "verified"
        BY <2>2, <3>3 DEF Allocate, BeginRange, SoundInv
      <4> QED
        BY <3>1, <4>1, <4>2 DEF SoundInv, LoopInv, DoneInv, Conserved, Soundness
    <3> QED BY <3>2, <3>3
  <2>3. CASE RangeBit
    <3>1. phase = "range" /\ phase' = "range" /\ outcome' = outcome
      BY <2>3 DEF RangeBit
    <3>2. LoopInv'
      BY <2>3, <3>1, BitStep DEF SoundInv, LoopInv, Conserved
    <3> QED BY <3>1, <3>2 DEF SoundInv, DoneInv, Soundness
  <2>4. CASE RangeSum
    <3>1. /\ phase = "range" /\ i = Bits /\ outcome' = outcome /\ outcome # "verified"
          /\ witness' = witness /\ mode' = mode
      BY <2>4 DEF RangeSum, LoopEnds, SoundInv
    <3>2. ASSUME mode = "prove", sat'
          PROVE  /\ \A k \in 1..wire : witness.value[k] \in 0 .. Weight[Bits] - 1
                 /\ Conserved(witness.value)
      <4>1. sat /\ acc = witness.value[wire]
        BY <2>4, <3>2 DEF RangeSum
      <4>2. /\ acc < Weight[Bits]
            /\ \A k \in 1 .. wire - 1 : witness.value[k] \in 0 .. Weight[Bits] - 1
            /\ Conserved(witness.value)
        BY <3>1, <3>2, <4>1 DEF SoundInv, LoopInv
      <4>3. acc \in 0 .. Weight[Bits] - 1 /\ wire \in 1..4
        <5>1. acc \in Nat /\ wire \in 1..4
          BY DEF TypeOK, Field
        <5>2. Weight[Bits] \in Nat
          BY CircuitAssumption
        <5> QED BY <4>2, <5>1, <5>2
      <4> QED BY <4>1, <4>2, <4>3
    <3>3. CASE wire < 4
      <4>1. phase' = "range" /\ wire' = wire + 1 /\ i' = 0 /\ coeff' = 1 /\ acc' = 0
        BY <2>4, <3>1, <3>3 DEF RangeSum, BeginRange
      <4>2. Weight[0] = 1
        BY CircuitAssumption
      <4>3. LoopInv'
        BY <3>1, <3>2, <4>1, <4>2 DEF LoopInv, TypeOK, Conserved
      <4> QED BY <3>1, <4>1, <4>3 DEF SoundInv, DoneInv, Soundness
    <3>4. CASE ~(wire < 4)
      <4>1. phase' = "dummies" /\ wire = 4
        BY <2>4, <3>4 DEF RangeSum, TypeOK
      <4> QED
        BY <3>1, <3>2, <4>1 DEF SoundInv, LoopInv, DoneInv, InRange, Conserved, Soundness
    <3> QED BY <3>3, <3>4
  <2>5. CASE Dummies
    BY <2>5 DEF Dummies, SoundInv, LoopInv, DoneInv, InRange, Conserved, Soundness, TypeOK
  <2>6. CASE Verify
    <3>1. phase' = "idle" /\ witness' = witness /\ (outcome' = "verified" => sat)
      BY <2>6 DEF Verify
    <3>2. sat => InRange(witness) /\ Conserved(witness.value)
      BY <2>6 DEF Verify, SoundInv, DoneInv
    <3>3. witness.value = [k \in 1..4 |-> witness.value[k]]
      BY WitnessType DEF TypeOK, Witness
    <3>4. sat => witness.value[1] + witness.value[2] = witness.value[3] + witness.value[4]
      BY <3>2, <3>3, NoWraparound DEF InRange
    <3> QED BY <3>1, <3>2, <3>4 DEF SoundInv, LoopInv, DoneInv, InRange, Soundness
  <2>7. CASE UNCHANGED vars
    BY <2>7 DEF vars, loop, SoundInv, LoopInv, DoneInv, InRange, Conserved, Soundness
  <2> QED BY <2>1, <2>2, <2>3, <2>4, <2>5, <2>6, <2>7 DEF Next
<1>3. SoundInv => Soundness
  BY DEF SoundInv
<1> QED BY <1>1, <1>2, <1>3, PresentInvariant, PTL DEF Spec
-----------------------------------------------------------------------------
(***************************************************************************)
(* The shape depends on how far synthesize has come, and on nothing else:  *)
(* Partial counts what is allocated before bit n of value w.               *)
(***************************************************************************)
Partial(w, n) ==
  [aux |-> 12 + (w - 1) * Bits + n, input |-> 6,
   constraint |-> 1 + (w - 1) * (Bits + 1) + n]

AllRanges == [aux |-> 12 + 4 * Bits, input |-> 6, constraint |-> 5 + 4 * Bits]
Full == [aux |-> 12 + 4 * Bits, input |-> 6, constraint |-> 13 + 4 * Bits]

ShapeInv ==
  /\ params \in {None, Full}
  /\ phase # "idle" /\ mode = "prove" => params # None
  /\ phase = "range" => shape = Partial(wire, i)
  /\ phase = "dummies" => shape = AllRanges
  /\ phase = "verify" => shape = Full /\ mode = "prove"

\* The shape follows the program, step by step.
LEMMA ShapeStep ==
  ASSUME TypeOK, ShapeInv, [Next]_vars
  PROVE  ShapeInv'
<1>0. Bits \in Nat /\ i \in 0..Bits /\ wire \in 1..4
  BY CircuitAssumption DEF TypeOK
<1>1. CASE StartSetup \/ \E w \in Witnesses, p \in {"code", "any"} : StartProof(w, p)
  BY <1>1 DEF StartSetup, StartProof, Start, ShapeInv
<1>2. CASE Allocate
  <2>1. Partial(1, 0) = [aux |-> 12, input |-> 6, constraint |-> 1]
    BY <1>0 DEF Partial
  <2>2. UNCHANGED <<params, mode>> /\ phase = "allocate"
    BY <1>2 DEF Allocate
  <2>3. CASE phase' = "idle"
    BY <2>2, <2>3 DEF ShapeInv
  <2>4. CASE phase' # "idle"
    <3>1. phase' = "range" /\ wire' = 1 /\ i' = 0 /\ shape' = Partial(1, 0)
      BY <1>2, <2>1, <2>4 DEF Allocate, BeginRange
    <3> QED BY <2>2, <3>1 DEF ShapeInv
  <2> QED BY <2>3, <2>4
<1>3. CASE RangeBit
  <2>1. /\ phase = "range" /\ phase' = "range" /\ UNCHANGED <<params, mode, wire>>
        /\ i' = i + 1 /\ shape' = Grown(1, 1) /\ shape = Partial(wire, i)
    BY <1>3 DEF RangeBit, ShapeInv
  <2>2. Grown(1, 1) = Partial(wire, i + 1)
    BY <1>0, <2>1 DEF Grown, Partial
  <2> QED BY <2>1, <2>2 DEF ShapeInv
<1>4. CASE RangeSum
  <2>1. /\ phase = "range" /\ i = Bits /\ UNCHANGED <<params, mode>>
        /\ shape' = Grown(0, 1) /\ shape = Partial(wire, Bits)
    BY <1>4 DEF RangeSum, LoopEnds, ShapeInv
  <2>2. CASE wire < 4
    <3>1. phase' = "range" /\ wire' = wire + 1 /\ i' = 0
      BY <1>4, <2>2 DEF RangeSum, BeginRange
    <3>2. Grown(0, 1) = Partial(wire + 1, 0)
      <4>1. CASE wire = 1
        BY <1>0, <2>1, <4>1 DEF Grown, Partial
      <4>2. CASE wire = 2
        BY <1>0, <2>1, <4>2 DEF Grown, Partial
      <4>3. CASE wire = 3
        BY <1>0, <2>1, <4>3 DEF Grown, Partial
      <4> QED BY <1>0, <2>2, <4>1, <4>2, <4>3
    <3> QED BY <2>1, <3>1, <3>2 DEF ShapeInv
  <2>3. CASE wire = 4
    <3>1. phase' = "dummies"
      BY <1>4, <2>3 DEF RangeSum
    <3>2. Grown(0, 1) = AllRanges
      BY <1>0, <2>1, <2>3 DEF Grown, Partial, AllRanges
    <3> QED BY <2>1, <3>1, <3>2 DEF ShapeInv
  <2> QED BY <1>0, <2>2, <2>3
<1>5. CASE Dummies
  <2>1. Grown(0, 8) = Full
    BY <1>0, <1>5 DEF Dummies, ShapeInv, Grown, AllRanges, Full
  <2> QED BY <1>5, <2>1 DEF Dummies, ShapeInv, TypeOK
<1>6. CASE Verify \/ UNCHANGED vars
  BY <1>6 DEF Verify, vars, loop, ShapeInv
<1> QED BY <1>1, <1>2, <1>3, <1>4, <1>5, <1>6 DEF Next

\* The shape is a function of the loop position, always.
LEMMA ShapeInvariant == Spec => []ShapeInv
<1>1. Init => ShapeInv
  BY DEF Init, ShapeInv
<1> QED BY <1>1, ShapeStep, TypeCorrect, PTL DEF Spec

\* For every width, a prover's constraint system has the shape of the setup's,
\* so the parameters of the empty circuit fit (lib.rs:226).
THEOREM ShapesAgree == Spec => []ShapeIndependent
<1>1. ShapeInv => ShapeIndependent
  BY DEF ShapeInv, ShapeIndependent
<1> QED BY <1>1, ShapeInvariant, PTL
-----------------------------------------------------------------------------
(***************************************************************************)
(* Completeness.  For values in range the weighted sum of the first i bits *)
(* is the value modulo 2^i, and no constraint ever fails.                  *)
(***************************************************************************)

\* What division is.
LEMMA Division ==
  ASSUME NEW m \in Nat \ {0}, NEW y \in Nat
  PROVE  y \div m \in Nat /\ y % m \in 0 .. m - 1 /\ y = m * (y \div m) + (y % m)
OBVIOUS

\* Quotient and remainder are unique.
LEMMA DivisionIsUnique ==
  ASSUME NEW m \in Nat \ {0}, NEW k \in Nat, NEW x \in 0 .. m - 1,
         NEW y \in Nat, y = m * k + x
  PROVE  y % m = x
<1>1. PICK d \in Nat, r \in 0 .. m - 1 : y = m * d + r /\ r = y % m
  <2>1. y \div m \in Nat /\ y % m \in 0 .. m - 1 /\ y = m * (y \div m) + (y % m)
    BY Division, Zenon
  <2> QED BY <2>1, Zenon
<1>2. ~(d > k)
  <2> SUFFICES ASSUME d >= k + 1 PROVE FALSE
    OBVIOUS
  <2>1. m * d >= m * (k + 1)
    OBVIOUS
  <2>2. m * (k + 1) = m * k + m
    OBVIOUS
  <2> QED BY <1>1, <2>1, <2>2
<1>3. ~(d < k)
  <2> SUFFICES ASSUME d + 1 <= k PROVE FALSE
    OBVIOUS
  <2>1. m * (d + 1) <= m * k
    OBVIOUS
  <2>2. m * (d + 1) = m * d + m
    OBVIOUS
  <2> QED BY <1>1, <2>1, <2>2
<1>4. d = k
  BY <1>2, <1>3
<1>5. m * k \in Int /\ m * k + r = m * k + x
  BY <1>1, <1>4
<1>6. r = x
  BY <1>5
<1> QED BY <1>1, <1>6

\* The lowest bits of v, and the next one.
LEMMA NextBit ==
  ASSUME NEW v \in Nat, NEW w \in Nat \ {0}
  PROVE  (v % w) + w * ((v \div w) % 2) = v % (2 * w)
<1> DEFINE q == v \div w
           r == v % w
           h == q \div 2
           c == q % 2
<1>1. q \in Nat /\ r \in Nat /\ r < w /\ v = w * q + r
  BY Division
<1>2. h \in Nat /\ c \in {0, 1} /\ q = 2 * h + c
  BY <1>1
<1> HIDE DEF q, r, h, c
<1>3. v = (2 * w) * h + (w * c + r)
  <2>1. w * q = w * (2 * h) + w * c
    BY <1>1, <1>2
  <2>2. w * (2 * h) = (2 * w) * h
    BY <1>2
  <2> QED BY <1>1, <1>2, <2>1, <2>2
<1>4. w * c + r \in 0 .. 2 * w - 1
  <2>1. w * c = 0 \/ w * c = w
    BY <1>2
  <2> QED BY <1>1, <1>2, <2>1
<1>5. v % (2 * w) = w * c + r
  <2>1. 2 * w \in Nat \ {0} /\ v = (2 * w) * h + (w * c + r)
    BY <1>3
  <2> DEFINE m == 2 * w
             x == w * c + r
  <2>2. m \in Nat \ {0} /\ x \in 0 .. m - 1 /\ v = m * h + x /\ h \in Nat
    BY <1>2, <1>4, <2>1
  <2> HIDE DEF m, x
  <2>3. v % m = x
    BY <2>2, DivisionIsUnique
  <2> QED BY <2>3 DEF m, x
<1> QED BY <1>5 DEF q, r, c

\* The code proves values in range that balance.
Honest ==
  prover = "code" /\ mode = "prove" /\ InRange(witness) /\ Conserved(witness.value)

CompleteInv ==
  /\ Honest /\ phase = "range" => sat /\ acc = witness.value[wire] % Weight[i]
  /\ Honest /\ phase \in {"dummies", "verify"} => sat
  /\ phase = "range" => coeff = Weight[i]
  /\ Completeness

\* A bit of the code is a bit of the value.
LEMMA HonestBit ==
  ASSUME TypeOK, CompleteInv, RangeBit, Honest
  PROVE  sat' /\ acc' = witness.value[wire] % Weight[i']
<1> DEFINE v == witness.value[wire]
           w == Weight[i]
           b == (v \div w) % 2
<1>1. phase = "range" /\ i \in 0 .. Bits - 1 /\ i' = i + 1 /\ mode = "prove" /\ prover = "code"
  BY CircuitAssumption DEF TypeOK, RangeBit, LoopEnds, Honest
<1>2. /\ w \in Nat \ {0} /\ Weight[i + 1] = 2 * w /\ Weight[i + 1] \in Field
      /\ coeff = w /\ acc = v % w /\ sat
  BY <1>1, Weights, CircuitAssumption DEF CompleteInv, Honest
<1>3. v \in Nat
  BY CircuitAssumption DEF Honest, InRange, TypeOK
<1>4. acc' = (acc + coeff * b) % Order /\ sat' = (sat /\ Boolean(b))
  BY <1>1 DEF RangeBit, BitChoices, Decomposed
<1>5. b \in {0, 1}
  BY <1>2, <1>3
<1>6. acc + coeff * b = v % (2 * w)
  BY <1>2, <1>3, NextBit
<1>7. v % (2 * w) \in Field
  <2> DEFINE m == 2 * w
  <2>1. m \in Nat \ {0} /\ m < Order /\ Order \in Nat
    <3>1. Order \in Nat /\ m \in 0 .. Order - 1
      BY <1>2, CircuitAssumption DEF Field
    <3>2. m # 0
      BY <1>2
    <3> HIDE DEF m
    <3> QED BY <3>1, <3>2
  <2> HIDE DEF m
  <2>2. v % m \in 0 .. m - 1
    BY <1>3, <2>1
  <2>3. v % m \in Field
    BY <2>1, <2>2 DEF Field
  <2> QED BY <2>3 DEF m
<1>8. Boolean(b)
  <2>1. b * (1 - b) = 0
    BY <1>5
  <2>2. 0 % Order = 0
    BY CircuitAssumption
  <2> QED BY <2>1, <2>2 DEF Boolean
<1> HIDE DEF v, w, b
<1>9. acc' = v % (2 * w)
  BY <1>4, <1>6, <1>7, Reduced
<1> QED BY <1>1, <1>2, <1>4, <1>8, <1>9 DEF v

\* Every step keeps the code's assignment satisfied.
LEMMA CompleteStep ==
  ASSUME TypeOK, ShapeInv, CompleteInv, [Next]_vars
  PROVE  CompleteInv'
<1>0. Bits \in Nat /\ i \in 0..Bits /\ wire \in 1..4 /\ Weight[0] = 1
  BY CircuitAssumption DEF TypeOK
<1>1. CASE StartSetup \/ \E w \in Witnesses, p \in {"code", "any"} : StartProof(w, p)
  BY <1>1 DEF StartSetup, StartProof, Start, CompleteInv, Completeness
<1>2. CASE Allocate
  <2>1. UNCHANGED <<prover, mode, witness>> /\ phase = "allocate"
    BY <1>2 DEF Allocate
  <2>2. CASE mode = "prove" /\ AssignmentMissing
    BY <1>2, <2>1, <2>2 DEF Allocate, CompleteInv, Completeness
  <2>3. CASE ~(mode = "prove" /\ AssignmentMissing)
    <3>1. phase' = "range" /\ wire' = 1 /\ i' = 0 /\ coeff' = 1 /\ acc' = 0
          /\ sat' = (mode = "prove" => Conserved(witness.value))
      BY <1>2, <2>3 DEF Allocate, BeginRange
    <3>2. Honest => witness.value[1] \in Nat
      BY <1>0, CircuitAssumption DEF Honest, InRange
    <3>3. Honest => witness.value[1] % 1 = 0
      BY <3>2
    <3>4. Honest' => Honest
      BY <2>1 DEF Honest, InRange, Conserved
    <3> QED BY <1>0, <2>1, <3>1, <3>3, <3>4 DEF CompleteInv, Completeness, Honest
  <2> QED BY <2>2, <2>3
<1>3. CASE RangeBit
  <2>1. UNCHANGED <<prover, mode, witness, wire>> /\ phase = "range" /\ phase' = "range"
    BY <1>3 DEF RangeBit
  <2>2. Honest' => Honest
    BY <2>1 DEF Honest, InRange, Conserved
  <2>3. coeff' = Weight[i']
    <3>1. i \in 0 .. Bits - 1 /\ i' = i + 1 /\ coeff' = (2 * Weight[i]) % Order
      BY <1>0, <1>3, <2>1 DEF RangeBit, LoopEnds, CompleteInv
    <3>2. Weight[i + 1] = 2 * Weight[i] /\ Weight[i + 1] \in Field
      BY <3>1, Weights, CircuitAssumption
    <3> QED BY <3>1, <3>2, Reduced
  <2> QED BY <1>3, <2>1, <2>2, <2>3, HonestBit DEF CompleteInv, Completeness
<1>4. CASE RangeSum
  <2>1. UNCHANGED <<prover, mode, witness>> /\ phase = "range" /\ i = Bits
        /\ sat' = (sat /\ (mode = "prove" => acc = witness.value[wire]))
    BY <1>4 DEF RangeSum, LoopEnds
  <2>2. Honest' => Honest
    BY <2>1 DEF Honest, InRange, Conserved
  <2>3. Honest => sat'
    <3>1. ASSUME Honest PROVE witness.value[wire] % Weight[Bits] = witness.value[wire]
      <4>1. witness.value[wire] \in 0 .. Weight[Bits] - 1 /\ Weight[Bits] \in Nat \ {0}
        BY <1>0, <3>1, CircuitAssumption DEF Honest, InRange
      <4> QED BY <4>1
    <3> QED BY <2>1, <3>1 DEF CompleteInv
  <2>4. CASE wire < 4
    <3>1. phase' = "range" /\ wire' = wire + 1 /\ i' = 0 /\ coeff' = 1 /\ acc' = 0
      BY <1>4, <2>4 DEF RangeSum, BeginRange
    <3>2. Honest => witness.value[wire + 1] \in Nat
      BY <1>0, <2>4, CircuitAssumption DEF Honest, InRange
    <3>3. Honest => witness.value[wire + 1] % 1 = 0
      BY <3>2
    <3> QED BY <1>0, <2>1, <2>2, <2>3, <3>1, <3>3 DEF CompleteInv, Completeness
  <2>5. CASE ~(wire < 4)
    <3>1. phase' = "dummies"
      BY <1>4, <2>5 DEF RangeSum
    <3> QED BY <2>2, <2>3, <3>1 DEF CompleteInv, Completeness
  <2> QED BY <2>4, <2>5
<1>5. CASE Dummies
  <2>1. UNCHANGED <<prover, mode, witness, sat>> /\ phase = "dummies"
        /\ IF mode = "setup" THEN phase' = "idle" ELSE phase' = "verify"
    BY <1>5 DEF Dummies
  <2>2. Honest' => Honest
    BY <2>1 DEF Honest, InRange, Conserved
  <2> QED BY <2>1, <2>2 DEF CompleteInv, Completeness, Honest
<1>6. CASE Verify
  <2>1. UNCHANGED <<prover, mode, witness, sat>> /\ phase = "verify" /\ phase' = "idle"
        /\ outcome' = IF sat /\ shape = params THEN "verified" ELSE "invalid"
    BY <1>6 DEF Verify
  <2>2. shape = params
    BY <2>1 DEF ShapeInv
  <2>3. Honest' => Honest
    BY <2>1 DEF Honest, InRange, Conserved
  <2> QED BY <2>1, <2>2, <2>3 DEF CompleteInv, Completeness, Honest
<1>7. CASE UNCHANGED vars
  BY <1>7 DEF vars, loop, CompleteInv, Completeness, Honest, InRange, Conserved
<1> QED BY <1>1, <1>2, <1>3, <1>4, <1>5, <1>6, <1>7 DEF Next

\* In every field and for every width, the code's own proof of balanced values in
\* range verifies: no constraint is one too many (lib.rs:297).
THEOREM CircuitIsComplete == Spec => []Completeness
<1>1. Init => CompleteInv
  BY DEF Init, CompleteInv, Completeness, Honest
<1>2. CompleteInv => Completeness
  BY DEF CompleteInv
<1> QED BY <1>1, <1>2, CompleteStep, ShapeInvariant, TypeCorrect, PTL DEF Spec
=============================================================================
