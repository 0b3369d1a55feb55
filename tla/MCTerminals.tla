---------------------------- MODULE MCTerminals ----------------------------
(***************************************************************************)
(* A small instance of Delivery for TLC, with two terminals of one peer.   *)
(***************************************************************************)
EXTENDS Delivery, TLC

CONSTANTS A1, A2    \* Alice's terminals; Bob's is named like him

Owner == (A1 :> Alice) @@ (A2 :> Alice) @@ (Bob :> Bob)
TwoAndOne == (Alice :> 2) @@ (Bob :> 1)
NoAux == [p \in Peer |-> 0]
Five == (A1 :> 2) @@ (A2 :> 1) @@ (Bob :> 2)
=============================================================================
