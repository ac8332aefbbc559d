------------------------- MODULE MCOutgoingJournal ---------------------------
(***************************************************************************)
(* Instances of OutgoingJournal for TLC.                                   *)
(***************************************************************************)
EXTENDS OutgoingJournal, TLC

CONSTANTS s1

\* Every operation of the instance is sent by the one signer.
OneSigner == {s1}
SentByS1 == [o \in Ops |-> s1]
Nobody == {}

Interchangeable == Permutations(Workers) \cup Permutations(Ops)
=============================================================================
