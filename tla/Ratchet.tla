------------------------------ MODULE Ratchet ------------------------------
(***************************************************************************)
(* The double ratchet of yakr_core/ratchet.py between the two ends of an   *)
(* invite pairing, as the clients drive it: texts and profile or presence  *)
(* pushes ("aux") advance the sender's chain, receipts do not; a client    *)
(* that decrypts with Session.decrypt_inbound keeps its ratchet advanced   *)
(* for texts only, one that uses decrypt_outer for everything it accepts.  *)
(*                                                                         *)
(* Keys are symbolic: a key pair is its owner and its rank among the pairs *)
(* the owner generated, a root key the sequence of Diffie-Hellman outputs  *)
(* mixed into it, a chain the root key it came with.  The chain keys       *)
(* advance together with send_n and recv_n, so a message key is a chain    *)
(* and a number.  Messages are accepted in the order of their sequence     *)
(* numbers (decrypt_outer rolls any other decryption back), so each        *)
(* direction is a queue.                                                   *)
(***************************************************************************)
EXTENDS Naturals, Sequences, FiniteSets

CONSTANTS
    Inviter, Joiner,    \* the ends of the pairing; the inviter is the initiator
    MaxSkipGap,         \* MAX_SKIP_GAP, 128 in the code
    MaxSkippedKeys,     \* MAX_SKIPPED_KEYS, 256 in the code
    Restoring,          \* the peers that fetch with decrypt_inbound
    MaxTexts,           \* bound: texts of one peer
    MaxReceipts,        \* bound: receipts of one peer
    MaxAux              \* bound: profile and presence pushes of one peer

Peer == {Inviter, Joiner}
Other(p) == IF p = Inviter THEN Joiner ELSE Inviter

ASSUME EndsDiffer == Inviter # Joiner
ASSUME NoKeyIsNoPair == "none" \notin Peer
ASSUME RestoringArePeers == Restoring \subseteq Peer
ASSUME LimitsAreNat ==
    /\ MaxSkipGap \in Nat /\ MaxSkippedKeys \in Nat
    /\ MaxTexts \in Nat /\ MaxReceipts \in Nat /\ MaxAux \in Nat

Key == [of : Peer, k : Nat]
Root == Seq(SUBSET Key)             \* the DH outputs mixed in since the pairing
Chain == [boot : Peer \cup {"dh"}, root : Root]
NoKey == [of |-> "none", k |-> 0]

Pair(p, k) == [of |-> p, k |-> k]
DH(a, b) == {a, b}
\* The chain the bootstrap gives p for sending, and one of a root step.
BootChain(p) == [boot |-> p, root |-> <<>>]
DHChain(r) == [boot |-> "dh", root |-> r]

\* _kdf_rk: the next root key; its chain is DHChain of it.
Mixed(r, a, b) == Append(r, DH(a, b))

VARIABLES
    ratchet,    \* [Peer -> RatchetState]: the stored ratchets
    fresh,      \* [Peer -> Nat]: key pairs generated so far
    sent,       \* [Peer -> Seq(Message)]: by sequence number
    last_recv   \* [Peer -> Nat]: last_recv_seq

vars == <<ratchet, fresh, sent, last_recv>>

MessageKey == [chain : Chain, n : Nat]
Message == [kind : {"text", "receipt", "aux"}, pub : Key, n : Nat, key : MessageKey]
Skipped == [pub : Key, n : Nat, key : MessageKey]

RatchetState ==
    [root : Root, dh_self : Key, dh_peer : Key \cup {NoKey}, send : Chain, recv : Chain,
     send_n : Nat, recv_n : Nat, skipped : SUBSET Skipped, pending : Key \cup {NoKey}]

\* inviter_complete_pairing: from_master, the joiner's key kept for the first send.
InviterStart ==
    [root |-> <<>>, dh_self |-> Pair(Inviter, 0), dh_peer |-> NoKey,
     send |-> BootChain(Inviter), recv |-> BootChain(Joiner),
     send_n |-> 0, recv_n |-> 0, skipped |-> {}, pending |-> Pair(Joiner, 0)]

\* joiner_complete_pairing: from_master, then _pairing_recv_init.
JoinerStart ==
    LET r == Mixed(<<>>, Pair(Joiner, 0), Pair(Inviter, 0)) IN
    [root |-> r, dh_self |-> Pair(Joiner, 0), dh_peer |-> Pair(Inviter, 0),
     send |-> BootChain(Joiner), recv |-> DHChain(r),
     send_n |-> 0, recv_n |-> 0, skipped |-> {}, pending |-> NoKey]

Init ==
    /\ ratchet = [p \in Peer |-> IF p = Inviter THEN InviterStart ELSE JoinerStart]
    /\ fresh = [p \in Peer |-> 0]
    /\ sent = [p \in Peer |-> <<>>]
    /\ last_recv = [p \in Peer |-> 0]

-----------------------------------------------------------------------------
(* RatchetState.encrypt and decrypt; new is the key pair they may generate *)

\* (slip) The pairing's first send forgets the receive step of the root key.
PairingSendInit_OneStep(r, new) ==
    LET root1 == Mixed(r.root, new, r.pending) IN
    [r EXCEPT !.root = root1, !.dh_peer = r.pending, !.dh_self = new,
              !.send = DHChain(root1), !.send_n = 0, !.pending = NoKey]

\* _pairing_send_init: two root steps, the second with a new key pair.
PairingSendInit(r, new) ==
    LET root2 == Mixed(Mixed(r.root, r.dh_self, r.pending), new, r.pending) IN
    [r EXCEPT !.root = root2, !.dh_peer = r.pending, !.dh_self = new,
              !.send = DHChain(root2), !.send_n = 0, !.pending = NoKey]

\* The ratchet a message is encrypted with, before its number is counted.
Sending(r, new) == IF r.pending = NoKey THEN r ELSE PairingSendInit(r, new)

Encrypted(kind, r) ==
    [kind |-> kind, pub |-> r.dh_self, n |-> r.send_n,
     key |-> [chain |-> r.send, n |-> r.send_n]]

\* (slip) The skipped keys of the old chain survive a DH step.
DhRatchet_NoClear(r, pub, new) ==
    LET root1 == Mixed(r.root, r.dh_self, pub)
        root2 == Mixed(root1, new, pub)
    IN  [r EXCEPT !.root = root2, !.dh_peer = pub, !.dh_self = new,
                  !.recv = DHChain(root1), !.recv_n = 0,
                  !.send = DHChain(root2), !.send_n = 0]

\* _dh_ratchet: a receive step, then a send step with a new key pair.
DhRatchet(r, pub, new) ==
    LET root1 == Mixed(r.root, r.dh_self, pub)
        root2 == Mixed(root1, new, pub)
    IN  [r EXCEPT !.root = root2, !.dh_peer = pub, !.dh_self = new,
                  !.recv = DHChain(root1), !.recv_n = 0,
                  !.send = DHChain(root2), !.send_n = 0, !.skipped = {}]

Steps(r, pub) == r.dh_peer # NoKey /\ r.dh_peer # pub

\* The ratchet a message with public key pub is decrypted with.
Receiving(r, pub, new) ==
    IF r.dh_peer = NoKey THEN [r EXCEPT !.dh_peer = pub]
    ELSE IF r.dh_peer = pub THEN r ELSE DhRatchet(r, pub, new)

SkippedKey(r, m) == {s \in r.skipped : s.pub = m.pub /\ s.n = m.n}

\* An earlier number: its key was kept.
OpensSkipped(r, m) == m.n < r.recv_n /\ \E s \in SkippedKey(r, m) : s.key = m.key

\* The keys between recv_n and the message are kept, within the two limits.
Gap(r, m) ==
    {[pub |-> m.pub, n |-> i, key |-> [chain |-> r.recv, n |-> i]] : i \in r.recv_n .. (m.n - 1)}

WithinLimits(r, m) ==
    /\ m.n - r.recv_n <= MaxSkipGap
    /\ Cardinality(r.skipped) + (m.n - r.recv_n) <= MaxSkippedKeys

OpensNext(r, m) ==
    m.n >= r.recv_n /\ WithinLimits(r, m) /\ m.key = [chain |-> r.recv, n |-> m.n]

\* decrypt succeeds.
Opens(r, m, new) ==
    LET r1 == Receiving(r, m.pub, new) IN OpensSkipped(r1, m) \/ OpensNext(r1, m)

\* (slip) The receive counter is left short of the message.
Opened_Short(r, m, new) ==
    LET r1 == Receiving(r, m.pub, new) IN
    IF m.n < r1.recv_n THEN r1
    ELSE [r1 EXCEPT !.skipped = @ \cup Gap(r1, m), !.recv_n = m.n - 1]

\* The ratchet decrypt leaves.
Opened(r, m, new) ==
    LET r1 == Receiving(r, m.pub, new) IN
    IF m.n < r1.recv_n THEN r1
    ELSE [r1 EXCEPT !.skipped = @ \cup Gap(r1, m), !.recv_n = m.n + 1]

-----------------------------------------------------------------------------
(* The clients *)

Count(p, kind) == Cardinality({i \in 1 .. Len(sent[p]) : sent[p][i].kind = kind})
Bound(kind) == IF kind = "text" THEN MaxTexts
               ELSE IF kind = "receipt" THEN MaxReceipts ELSE MaxAux

\* (slip) The advanced ratchet is not stored after a text either.
Advances_Never(kind) == FALSE

\* send_delivery_receipt restores the ratchet it encrypted with.
Advances(kind) == kind # "receipt"

New(p) == Pair(p, fresh[p] + 1)

Send(p, kind) ==
    LET r == Sending(ratchet[p], New(p)) IN
    /\ Count(p, kind) < Bound(kind)
    /\ sent' = [sent EXCEPT ![p] = Append(@, Encrypted(kind, r))]
    /\ ratchet' = [ratchet EXCEPT ![p] = IF Advances(kind)
                                         THEN [r EXCEPT !.send_n = @ + 1] ELSE @]
    /\ fresh' = [fresh EXCEPT ![p] = IF ratchet[p].pending = NoKey THEN @ ELSE @ + 1]
    /\ UNCHANGED last_recv

SendText(p) == Send(p, "text")
\* A receipt answers a text that was received.
SendReceipt(p) ==
    /\ \E i \in 1 .. last_recv[p] : sent[Other(p)][i].kind = "text"
    /\ Send(p, "receipt")
SendAux(p) == Send(p, "aux")

\* decrypt_inbound puts the ratchet back for everything but texts.
Keeps(p, kind) == kind = "text" \/ p \notin Restoring

Waiting(p) == last_recv[p] < Len(sent[Other(p)])
NextMessage(p) == sent[Other(p)][last_recv[p] + 1]

\* A blob that does not open stays where it is and blocks those behind it.
Receive(p) ==
    /\ Waiting(p)
    /\ LET m == NextMessage(p) IN
         /\ Opens(ratchet[p], m, New(p))
         /\ ratchet' = [ratchet EXCEPT ![p] =
                          IF Keeps(p, m.kind) THEN Opened(@, m, New(p)) ELSE @]
         /\ fresh' = [fresh EXCEPT ![p] = IF Steps(ratchet[p], m.pub) THEN @ + 1 ELSE @]
    /\ last_recv' = [last_recv EXCEPT ![p] = @ + 1]
    /\ UNCHANGED sent

Next == \E p \in Peer : SendText(p) \/ SendReceipt(p) \/ SendAux(p) \/ Receive(p)

Spec == Init /\ [][Next]_vars

-----------------------------------------------------------------------------
(* Properties *)

\* Ratchets, key counters, messages and receive counters keep their types.
TypeOK ==
    /\ ratchet \in [Peer -> RatchetState]
    /\ fresh \in [Peer -> Nat]
    /\ sent \in [Peer -> Seq(Message)]
    /\ last_recv \in [Peer -> Nat]

\* The next message of either peer opens, whatever was sent, crossed or answered
\* before, unless the skipped-key limits alone refuse it: the chains of the two
\* ratchets never part (decrypt, _dh_ratchet, _pairing_send_init), and the
\* sequence gate of decrypt_outer never waits for a message it cannot open.
OnlyLimitsRefuse ==
    \A p \in Peer : Waiting(p) =>
        LET m == NextMessage(p)
            r == Receiving(ratchet[p], m.pub, New(p))
        IN  Opens(ratchet[p], m, New(p)) \/ (m.n >= r.recv_n /\ ~WithinLimits(r, m))

\* No two texts of a conversation are encrypted with the same message key
\* (encrypt counts send_n, and receipts that do not advance it come and go).
TextKeysDistinct ==
    \A p, q \in Peer : \A i \in 1 .. Len(sent[p]), j \in 1 .. Len(sent[q]) :
        (sent[p][i].kind = "text" /\ sent[q][j].kind = "text"
            /\ sent[p][i].key = sent[q][j].key) => (p = q /\ i = j)

\* The kept keys are within MAX_SKIPPED_KEYS and all of the chain in use: a DH
\* step clears those of the chain it ends (_dh_ratchet).
SkippedOfCurrentChain ==
    \A p \in Peer :
        /\ Cardinality(ratchet[p].skipped) <= MaxSkippedKeys
        /\ \A s \in ratchet[p].skipped :
              s.key.chain = ratchet[p].recv /\ s.n < ratchet[p].recv_n
=============================================================================
