-------------------------- MODULE MCSubscriptions ----------------------------
(***************************************************************************)
(* Instances of Subscriptions for TLC.                                     *)
(***************************************************************************)
EXTENDS Subscriptions, TLC

Interchangeable == Permutations(Rows) \cup Permutations(Clerks)
=============================================================================
