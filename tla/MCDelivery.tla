---------------------------- MODULE MCDelivery ----------------------------
(***************************************************************************)
(* Small instances of Delivery for TLC, with one terminal of each peer.    *)
(***************************************************************************)
EXTENDS Delivery

AtMost(a, b) == [p \in Peer |-> IF p = Alice THEN a ELSE b]

NoAux == AtMost(0, 0)
OneAux == AtMost(1, 0)
OneEach == AtMost(1, 1)
TwoTexts == AtMost(2, 0)

\* A peer's only terminal is named like the peer.
Owner == [x \in Terminal |-> x]

\* Commands are not counted.
Endless == [x \in {} |-> 0]
=============================================================================
