------------------------- MODULE TransactionCircuit -------------------------
(***************************************************************************)
(* The 2-to-2 circuit and its Groth16 session (core-rust/circuits): one    *)
(* setup on an empty circuit, then proofs, each verified.  synthesize is   *)
(* run step by step, once per session, in the order of the code; the R1CS  *)
(* is what it accumulates: the number of variables and constraints, and    *)
(* whether the assignment satisfies all constraints so far.  bellman does  *)
(* not check satisfaction while proving, and a proof verifies exactly when *)
(* the assignment satisfies the constraint system of the setup.            *)
(*                                                                         *)
(* A prover may run the code, which decomposes each value into its own     *)
(* bits, or build the assignment by other means, with any field elements   *)
(* for the bits: soundness may not depend on the prover's program.         *)
(***************************************************************************)
EXTENDS Integers, Sequences

CONSTANTS
  Order,        \* order of the scalar field, a prime
  Bits,         \* width of a value (64 in the code)
  Weight,       \* Weight[i] = 2^i, the value of bit i
  None,         \* Option::None
  Witnesses     \* the circuits that provers instantiate

Field == 0 .. Order - 1
Optional(S) == S \cup {None}

Witness == [value : [1..4 -> Optional(Field)],      \* in0, in1, out0, out1
            serial : [1..2 -> Optional(Field)],     \* of the inputs
            nullifier : [1..2 -> Optional(Field)],
            others : Optional({"some"})]            \* r, output rho, commitments

ASSUME CircuitAssumption ==
  /\ Order \in Nat \ {0, 1} /\ Bits \in Nat
  /\ Weight \in [0..Bits -> Nat \ {0}] /\ Weight[0] = 1
  /\ \A n \in 0 .. Bits - 1 : Weight[n + 1] = 2 * Weight[n]
  /\ \A n \in 0..Bits : 2 * Weight[n] <= Order
  /\ None \notin Field
  /\ Witnesses \subseteq Witness

\* The field has no zero divisors: Order is a prime.
ASSUME FieldIsIntegral ==
  \A b \in Field : (b * (1 - b)) % Order = 0 => b \in {0, 1}

VARIABLES
  phase,        \* "idle", or the part of synthesize that runs next
  mode,         \* "setup" or "prove"
  witness,      \* the circuit being synthesized
  prover,       \* "code" or "any"
  wire,         \* value whose range proof is running
  i, coeff,     \* the loop of enforce_range_proof
  acc,          \* value of the weighted sum built so far
  sat,          \* all constraints enforced so far hold
  shape,        \* variables and constraints allocated so far
  params,       \* shape the setup was made for
  outcome,      \* result of the last session
  spends        \* history: <<serial, nullifier>> of the inputs verified

loop == <<wire, i, coeff, acc>>
vars == <<phase, mode, witness, prover, loop, sat, shape, params, outcome, spends>>
-----------------------------------------------------------------------------
EmptyWitness == [value |-> [k \in 1..4 |-> None], serial |-> [k \in 1..2 |-> None],
                 nullifier |-> [k \in 1..2 |-> None], others |-> None]

Start(m, w, p) ==
  /\ phase = "idle"
  /\ phase' = "allocate" /\ mode' = m /\ witness' = w /\ prover' = p
  /\ outcome' = "running"
  /\ UNCHANGED <<loop, sat, shape, params, spends>>

\* generate_random_parameters(empty_circuit)
StartSetup == params = None /\ Start("setup", EmptyWitness, "code")

\* create_random_proof(circuit, &params)
StartProof(w, p) == params # None /\ Start("prove", w, p)

AssignmentMissing ==
  \/ witness.others = None
  \/ \E k \in 1..4 : witness.value[k] = None
  \/ \E k \in 1..2 : witness.serial[k] = None \/ witness.nullifier[k] = None

\* cs.alloc and cs.enforce: more private variables, more constraints.
Grown(aux, constraints) ==
  [aux |-> shape.aux + aux, input |-> shape.input,
   constraint |-> shape.constraint + constraints]

BeginRange(k) == wire' = k /\ i' = 0 /\ coeff' = 1 /\ acc' = 0

Conserved(v) == (v[1] + v[2]) % Order = (v[3] + v[4]) % Order

\* Twelve private and six public variables, then the balance constraint.  The
\* setup never calls the closures that read the values.
Allocate ==
  /\ phase = "allocate"
  /\ IF mode = "prove" /\ AssignmentMissing
     THEN /\ phase' = "idle" /\ outcome' = "AssignmentMissing"
          /\ UNCHANGED <<loop, sat, shape>>
     ELSE /\ phase' = "range" /\ BeginRange(1)
          /\ shape' = [aux |-> 12, input |-> 6, constraint |-> 1]
          /\ sat' = (mode = "prove" => Conserved(witness.value))
          /\ UNCHANGED outcome
  /\ UNCHANGED <<mode, witness, prover, params, spends>>

\* Bits taken from the most significant end.
MutantBigEndian(v, n) == (v \div Weight[Bits - n]) % 2

\* Bit n of the little-endian representation of v.
Decomposed(v, n) == (v \div Weight[n]) % 2

\* The booleanity constraint is not enforced.
MutantNoBooleanity(b) == TRUE

\* bit_var * (1 - bit_var) = 0
Boolean(b) == (b * (1 - b)) % Order = 0

\* Bits are only allocated for a value that is present.
MutantSkipsEmpty == i = Bits \/ witness.value[wire] = None

\* for i in 0..=bits
MutantInclusive == i > Bits

\* for i in 0..bits
LoopEnds == i = Bits

BitChoices ==
  IF mode = "setup" THEN {0}
  ELSE IF prover = "code" THEN {Decomposed(witness.value[wire], i)} ELSE Field

\* One iteration of the loop: a bit variable and its booleanity constraint.
RangeBit ==
  /\ phase = "range" /\ ~LoopEnds
  /\ \E b \in BitChoices :
       /\ acc' = (acc + coeff * b) % Order
       /\ sat' = (sat /\ Boolean(b))
  /\ coeff' = (2 * coeff) % Order
  /\ i' = i + 1
  /\ shape' = Grown(1, 1)
  /\ UNCHANGED <<phase, mode, witness, prover, wire, params, outcome, spends>>

\* sum(b_i * 2^i) = value_var, then the range proof of the next value.
RangeSum ==
  /\ phase = "range" /\ LoopEnds
  /\ shape' = Grown(0, 1)
  /\ sat' = (sat /\ (mode = "prove" => acc = witness.value[wire]))
  /\ IF wire < 4 THEN BeginRange(wire + 1) /\ UNCHANGED phase
     ELSE phase' = "dummies" /\ UNCHANGED loop
  /\ UNCHANGED <<mode, witness, prover, params, outcome, spends>>

\* Eight constraints r * 0 = 0, which hold; synthesize returns.  The setup keeps
\* the shape, the prover its proof.
Dummies ==
  /\ phase = "dummies"
  /\ LET full == Grown(0, 8)
     IN  /\ shape' = full
         /\ IF mode = "setup"
            THEN phase' = "idle" /\ params' = full /\ outcome' = "setup"
            ELSE phase' = "verify" /\ UNCHANGED <<params, outcome>>
  /\ UNCHANGED <<mode, witness, prover, loop, sat, spends>>

\* verify_proof, with the public inputs of the circuit.
Verify ==
  /\ phase = "verify"
  /\ phase' = "idle"
  /\ outcome' = IF sat /\ shape = params THEN "verified" ELSE "invalid"
  /\ spends' = IF sat /\ shape = params
               THEN spends \cup {<<witness.serial[k], witness.nullifier[k]>> : k \in 1..2}
               ELSE spends
  /\ UNCHANGED <<mode, witness, prover, loop, sat, shape, params>>
-----------------------------------------------------------------------------
Init ==
  /\ phase = "idle" /\ mode = "setup" /\ witness = EmptyWitness /\ prover = "code"
  /\ wire = 1 /\ i = 0 /\ coeff = 1 /\ acc = 0
  /\ sat = TRUE /\ shape = [aux |-> 0, input |-> 0, constraint |-> 0]
  /\ params = None /\ outcome = "none" /\ spends = {}

Next ==
  \/ StartSetup
  \/ \E w \in Witnesses, p \in {"code", "any"} : StartProof(w, p)
  \/ Allocate \/ RangeBit \/ RangeSum \/ Dummies \/ Verify

Spec == Init /\ [][Next]_vars
-----------------------------------------------------------------------------
(* Properties. *)

Shapes == [aux : Nat, input : Nat, constraint : Nat]

\* Types, and the loop registers stay field elements and loop indices.
TypeOK ==
  /\ phase \in {"idle", "allocate", "range", "dummies", "verify"}
  /\ mode \in {"setup", "prove"} /\ prover \in {"code", "any"}
  /\ witness \in Witnesses \cup {EmptyWitness}
  /\ wire \in 1..4 /\ i \in 0..Bits /\ coeff \in Field /\ acc \in Field
  /\ sat \in BOOLEAN /\ shape \in Shapes /\ params \in Shapes \cup {None}
  /\ outcome \in {"none", "running", "setup", "AssignmentMissing", "verified", "invalid"}
  /\ spends \subseteq Optional(Field) \X Optional(Field)

InRange(w) == \A k \in 1..4 : w.value[k] \in 0 .. Weight[Bits] - 1

\* Whoever built it, a proof that verifies has values below 2^Bits that balance
\* as integers, not only modulo the field (lib.rs:17-18, 88).
Soundness ==
  outcome = "verified" =>
    /\ InRange(witness)
    /\ witness.value[1] + witness.value[2] = witness.value[3] + witness.value[4]

\* The code's prover, given values in range that balance, always produces a
\* proof that verifies: the assertion of the harness (lib.rs:297).
Completeness ==
  /\ prover = "code" /\ phase = "idle" /\ mode = "prove"
  /\ outcome # "AssignmentMissing"
  /\ InRange(witness) /\ Conserved(witness.value)
  => outcome = "verified"

\* The constraint system is the same for every witness and for none, so that
\* the parameters of the empty circuit fit every prover (lib.rs:226, 280).
ShapeIndependent == phase = "verify" => shape = params

\* Documentation, lib.rs:41: "Nullifiers generated from the spent UTXOs": the
\* same spent note, told by its serial number, has the same nullifier.
NullifierOfNote ==
  \A a, b \in spends : a[1] = b[1] => a[2] = b[2]
=============================================================================
