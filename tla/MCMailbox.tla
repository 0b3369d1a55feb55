----------------------------- MODULE MCMailbox -----------------------------
(***************************************************************************)
(* Small instances of Mailbox for TLC.                                     *)
(***************************************************************************)
EXTENDS Mailbox, TLC

\* The client's clock behind the relay's, with it, and ahead of it by all of Skew.
Clocks == {-1, 0, 2}

Interchangeable == Permutations(Nonce) \cup Permutations(Tag) \cup Permutations(Spelling)
=============================================================================
