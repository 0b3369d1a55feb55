---------------------------- MODULE TextChannel ----------------------------
(***************************************************************************)
(* What the delivery core promises the users of two paired clients, as     *)
(* long as a peer runs one command at a time: each direction is a lossy    *)
(* channel that never reorders and never duplicates a text, and a text is  *)
(* acknowledged only after it was delivered.                               *)
(***************************************************************************)
EXTENDS Naturals, Sequences

CONSTANTS Alice, Bob

VARIABLES
    texts,      \* [End -> Nat]: how many texts a peer has sent; they are numbered
    delivered,  \* [End -> Seq(Nat)]: the texts a peer has received, in order
    acked       \* [End -> SUBSET Nat]: the sent texts known to be received

End == {Alice, Bob}
Other(p) == IF p = Alice THEN Bob ELSE Alice
channel == <<texts, delivered, acked>>

Init ==
    /\ texts = [p \in End |-> 0]
    /\ delivered = [p \in End |-> <<>>]
    /\ acked = [p \in End |-> {}]

Submit(p) ==
    /\ texts' = [texts EXCEPT ![p] = @ + 1]
    /\ UNCHANGED <<delivered, acked>>

\* Texts between the last delivered one and this one are lost for good.
Deliver(p) ==
    /\ \E n \in 1 .. texts[Other(p)] :
         /\ \A i \in 1 .. Len(delivered[p]) : delivered[p][i] < n
         /\ delivered' = [delivered EXCEPT ![p] = Append(@, n)]
    /\ UNCHANGED <<texts, acked>>

Acknowledge(p) ==
    /\ \E i \in 1 .. Len(delivered[Other(p)]) :
         acked' = [acked EXCEPT ![p] = @ \cup {delivered[Other(p)][i]}]
    /\ UNCHANGED <<texts, delivered>>

Next == \E p \in End : Submit(p) \/ Deliver(p) \/ Acknowledge(p)

Spec == Init /\ [][Next]_channel
=============================================================================
