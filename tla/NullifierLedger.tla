-------------------------- MODULE NullifierLedger --------------------------
(***************************************************************************)
(* What the shielded pool promises, stated without origins, proofs, byte   *)
(* strings, events or error codes: a transfer consumes one or two notes    *)
(* that nobody consumed before and mints two new ones, in one step, and    *)
(* nothing is ever un-consumed or un-minted.                               *)
(***************************************************************************)
EXTENDS Naturals, Sequences

CONSTANT Notes          \* what identifies a note when it is spent or minted

VARIABLES
  spent,                \* the notes consumed so far
  minted,               \* the notes created so far, oldest first
  consumed              \* what each transfer consumed, oldest first

ledgerVars == <<spent, minted, consumed>>

Init ==
  /\ spent = {}
  /\ minted = <<>>
  /\ consumed = <<>>

Transfer(in1, in2, out1, out2) ==
  /\ {in1, in2} \cap spent = {}
  /\ spent' = spent \cup {in1, in2}
  /\ minted' = minted \o <<out1, out2>>
  /\ consumed' = Append(consumed, {in1, in2})

Next == \E in1, in2, out1, out2 \in Notes : Transfer(in1, in2, out1, out2)

Spec == Init /\ [][Next]_ledgerVars
=============================================================================
