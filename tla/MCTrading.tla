------------------------------ MODULE MCTrading ------------------------------
(***************************************************************************)
(* Instances of Trading for TLC.                                           *)
(***************************************************************************)
EXTENDS Trading, TLC

CONSTANTS a1, b1, b2

At(minimum, price) == [minimum |-> minimum, price |-> price]

OneTerm == [o \in Orders |-> {At(0, 1)}]

\* The seller may ask more than one buyer pays; that buyer wants all or nothing.
ManyTerms == [o \in Orders |-> CASE o = a1 -> {At(0, 1), At(0, 2)}
                                [] o = b1 -> {At(0, 2)}
                                [] o = b2 -> {At(2, 1)}]

Interchangeable == Permutations(Swaps) \cup Permutations(Workers)
=============================================================================
