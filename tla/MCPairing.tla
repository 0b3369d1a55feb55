----------------------------- MODULE MCPairing -----------------------------
(***************************************************************************)
(* Small instances of Pairing for TLC.                                     *)
(***************************************************************************)
EXTENDS Pairing, TLC

Interchangeable == Permutations(Joiner) \cup Permutations(Waiter)
=============================================================================
