------------------------ MODULE MCTransactionCircuit ------------------------
(***************************************************************************)
(* The field of 11 elements with values of two bits: 3 is the largest      *)
(* value, 4 the smallest outside, 10 is "minus one", and 10 + 1 = 0 wraps. *)
(***************************************************************************)
EXTENDS TransactionCircuit

MCWeight == [n \in 0..Bits |-> 2^n]

MCWitness(values, nullifiers) ==
  [value : [1..4 -> values], serial : {<<5, 6>>}, nullifier : nullifiers,
   others : {"some"}]

Wide == MCWitness({0, 1, 3, 4, 10}, {<<7, 8>>})

\* One absent assignment of each kind.
Partial ==
  LET w == CHOOSE x \in Wide : x.value = <<3, 1, 1, 3>>
  IN  {[w EXCEPT !.value[4] = None], [w EXCEPT !.serial[1] = None],
       [w EXCEPT !.nullifier[2] = None], [w EXCEPT !.others = None]}

MCWitnesses == Wide \cup Partial

\* Two wallets, or one wallet twice, with the same notes and other nullifiers.
MCReused == MCWitness({1, 2}, {<<7, 8>>, <<9, 10>>})
=============================================================================
