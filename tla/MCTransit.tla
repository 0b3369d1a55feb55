----------------------------- MODULE MCTransit -----------------------------
(***************************************************************************)
(* A small instance of Transit for TLC: the sender posts to one relay and, *)
(* when that fails, to the other; the recipient polls both.                *)
(***************************************************************************)
EXTENDS Transit

CONSTANTS r1, r2

TwoRelays == {r1, r2}
FirstThenSecond == <<r1, r2>>
=============================================================================
