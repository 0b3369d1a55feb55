---------------------------- MODULE MCDirectory ----------------------------
(***************************************************************************)
(* Small instances of Directory for TLC.                                   *)
(***************************************************************************)
EXTENDS Directory

CONSTANTS Alice, Bob, Carol

ForEach(a, b, c) ==
    [p \in Peer |-> CASE p = Alice -> a [] p = Bob -> b [] p = Carol -> c]

\* Addresses: everybody runs a relay, and Alice's moves once.
AllThree == ForEach(1, 1, 1)
AliceMoves == ForEach(2, 1, 1)

\* Editions: nobody signs another profile until the relay moves.
NoEdits == ForEach(1, 1, 1)

\* Alice's friends do not know each other.
AlicesFriends == {{Alice, Bob}, {Alice, Carol}}
=============================================================================
