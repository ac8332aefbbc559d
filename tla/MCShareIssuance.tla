-------------------------- MODULE MCShareIssuance ----------------------------
(***************************************************************************)
(* Instances of ShareIssuance for TLC.                                     *)
(***************************************************************************)
EXTENDS ShareIssuance, TLC

Interchangeable == Permutations(Workers)
=============================================================================
