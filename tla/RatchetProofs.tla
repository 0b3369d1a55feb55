-------------------------- MODULE RatchetProofs ---------------------------
(***************************************************************************)
(* Proofs about Ratchet, whatever the bounds on the messages and the two   *)
(* limits: the kept keys are within their limit and of the chain in use,   *)
(* no two texts share a message key, and between two peers that fetch with *)
(* decrypt_inbound only the limits refuse a message.                       *)
(*                                                                         *)
(* The last rests on Agreement: at any time at most one peer has a key the *)
(* other has not met, its root key is one step beyond the other's, and all *)
(* that is on its way, or would be sent next, fits the ratchet it will     *)
(* find, because what follows a text is of a later number or a later key.  *)
(***************************************************************************)
EXTENDS Ratchet, FiniteSetTheorems, TLAPS

-----------------------------------------------------------------------------
(* Type correctness *)

LEMMA MixedTyped ==
    ASSUME NEW r \in Root, NEW a \in Key, NEW b \in Key
    PROVE  /\ Mixed(r, a, b) \in Root
           /\ Len(Mixed(r, a, b)) = Len(r) + 1
           /\ Mixed(r, a, b)[Len(r) + 1] = {a, b}
           /\ \A i \in 1 .. Len(r) : Mixed(r, a, b)[i] = r[i]
<1>1. {a, b} \in SUBSET Key
    OBVIOUS
<1> DEFINE x == {a, b}
<1> HIDE DEF x
<1>2. x \in SUBSET Key
    BY <1>1 DEF x
<1>3. /\ Append(r, x) \in Seq(SUBSET Key) /\ Len(Append(r, x)) = Len(r) + 1
      /\ Append(r, x)[Len(r) + 1] = x
      /\ \A i \in 1 .. Len(r) : Append(r, x)[i] = r[i]
    BY <1>2 DEF Root
<1> QED BY <1>3 DEF Mixed, DH, Root, x

LEMMA ChainTyped ==
    /\ \A r \in Root : DHChain(r) \in Chain /\ DHChain(r).root = r
    /\ \A p \in Peer : BootChain(p) \in Chain /\ BootChain(p).root = <<>>
                       /\ BootChain(p).boot = p
BY DEF DHChain, BootChain, Chain, Root

LEMMA NewTyped ==
    ASSUME TypeOK, NEW p \in Peer
    PROVE  /\ New(p) \in Key /\ New(p).of = p /\ New(p).k = fresh[p] + 1
           /\ fresh[p] \in Nat /\ ratchet[p] \in RatchetState
           /\ sent[p] \in Seq(Message) /\ sent[Other(p)] \in Seq(Message)
           /\ last_recv[p] \in Nat /\ Other(p) \in Peer
BY DEF TypeOK, New, Pair, Key, Peer, Other

LEMMA Fields ==
    ASSUME NEW r \in RatchetState
    PROVE  /\ r.root \in Root /\ r.dh_self \in Key /\ r.dh_peer \in Key \cup {NoKey}
           /\ r.send \in Chain /\ r.recv \in Chain /\ r.send_n \in Nat /\ r.recv_n \in Nat
           /\ r.skipped \subseteq Skipped /\ r.pending \in Key \cup {NoKey}
           /\ r = [root |-> r.root, dh_self |-> r.dh_self, dh_peer |-> r.dh_peer,
                   send |-> r.send, recv |-> r.recv, send_n |-> r.send_n, recv_n |-> r.recv_n,
                   skipped |-> r.skipped, pending |-> r.pending]
BY DEF RatchetState

LEMMA SendInitTyped ==
    ASSUME NEW r \in RatchetState, NEW new \in Key, r.pending # NoKey
    PROVE  /\ PairingSendInit(r, new) \in RatchetState
           /\ PairingSendInit(r, new).send =
                DHChain(Mixed(Mixed(r.root, r.dh_self, r.pending), new, r.pending))
           /\ PairingSendInit(r, new).root =
                Mixed(Mixed(r.root, r.dh_self, r.pending), new, r.pending)
           /\ Mixed(Mixed(r.root, r.dh_self, r.pending), new, r.pending) \in Root
           /\ PairingSendInit(r, new).dh_self = new
           /\ PairingSendInit(r, new).dh_peer = r.pending
           /\ PairingSendInit(r, new).pending = NoKey
           /\ PairingSendInit(r, new).recv = r.recv
           /\ PairingSendInit(r, new).recv_n = r.recv_n
           /\ PairingSendInit(r, new).skipped = r.skipped
           /\ PairingSendInit(r, new).send_n = 0
<1> DEFINE root2 == Mixed(Mixed(r.root, r.dh_self, r.pending), new, r.pending)
<1>1. r.root \in Root /\ r.dh_self \in Key /\ r.pending \in Key
    BY DEF RatchetState
<1>2. root2 \in Root
    BY <1>1, MixedTyped
<1>3. PairingSendInit(r, new) = [r EXCEPT !.root = root2, !.dh_peer = r.pending,
              !.dh_self = new, !.send = DHChain(root2), !.send_n = 0, !.pending = NoKey]
    BY DEF PairingSendInit
<1> HIDE DEF root2
<1>4. DHChain(root2) \in Chain
    BY <1>2, ChainTyped
<1> QED
    <2>1. PairingSendInit(r, new) \in RatchetState
        <3>1. PairingSendInit(r, new) =
                [root |-> root2, dh_self |-> new, dh_peer |-> r.pending,
                 send |-> DHChain(root2), recv |-> r.recv, send_n |-> 0, recv_n |-> r.recv_n,
                 skipped |-> r.skipped, pending |-> NoKey]
            BY <1>3 DEF RatchetState
        <3> QED BY <1>1, <1>2, <1>4, <3>1, Fields DEF RatchetState
    <2>2. /\ PairingSendInit(r, new).send = DHChain(root2)
          /\ PairingSendInit(r, new).root = root2
          /\ PairingSendInit(r, new).dh_self = new
          /\ PairingSendInit(r, new).dh_peer = r.pending
          /\ PairingSendInit(r, new).pending = NoKey
          /\ PairingSendInit(r, new).recv = r.recv
          /\ PairingSendInit(r, new).recv_n = r.recv_n
          /\ PairingSendInit(r, new).skipped = r.skipped
          /\ PairingSendInit(r, new).send_n = 0
        BY <1>3 DEF RatchetState
    <2> QED BY <1>2, <2>1, <2>2 DEF root2

LEMMA StepTyped ==
    ASSUME NEW r \in RatchetState, NEW pub \in Key, NEW new \in Key
    PROVE  /\ DhRatchet(r, pub, new) \in RatchetState
           /\ DhRatchet(r, pub, new).root = Mixed(Mixed(r.root, r.dh_self, pub), new, pub)
           /\ DhRatchet(r, pub, new).send =
                DHChain(Mixed(Mixed(r.root, r.dh_self, pub), new, pub))
           /\ Mixed(Mixed(r.root, r.dh_self, pub), new, pub) \in Root
           /\ DhRatchet(r, pub, new).recv = DHChain(Mixed(r.root, r.dh_self, pub))
           /\ Mixed(r.root, r.dh_self, pub) \in Root
           /\ DhRatchet(r, pub, new).recv_n = 0 /\ DhRatchet(r, pub, new).send_n = 0
           /\ DhRatchet(r, pub, new).skipped = {}
           /\ DhRatchet(r, pub, new).dh_self = new /\ DhRatchet(r, pub, new).dh_peer = pub
           /\ DhRatchet(r, pub, new).pending = r.pending
<1> DEFINE root1 == Mixed(r.root, r.dh_self, pub)
           root2 == Mixed(root1, new, pub)
<1>1. r.root \in Root /\ r.dh_self \in Key
    BY DEF RatchetState
<1>2. root1 \in Root /\ root2 \in Root
    BY <1>1, MixedTyped
<1>3. DhRatchet(r, pub, new) = [r EXCEPT !.root = root2, !.dh_peer = pub, !.dh_self = new,
                  !.recv = DHChain(root1), !.recv_n = 0,
                  !.send = DHChain(root2), !.send_n = 0, !.skipped = {}]
    BY DEF DhRatchet
<1>5. root1 = Mixed(r.root, r.dh_self, pub)
      /\ root2 = Mixed(Mixed(r.root, r.dh_self, pub), new, pub)
    OBVIOUS
<1> HIDE DEF root1, root2
<1>4. DHChain(root1) \in Chain /\ DHChain(root2) \in Chain
    BY <1>2, ChainTyped
<1>6. DhRatchet(r, pub, new) \in RatchetState
    <2>1. DhRatchet(r, pub, new) =
            [root |-> root2, dh_self |-> new, dh_peer |-> pub,
             send |-> DHChain(root2), recv |-> DHChain(root1), send_n |-> 0, recv_n |-> 0,
             skipped |-> {}, pending |-> r.pending]
        BY <1>3 DEF RatchetState
    <2> QED BY <1>1, <1>2, <1>4, <2>1, Fields DEF RatchetState
<1>7. /\ DhRatchet(r, pub, new).root = root2 /\ DhRatchet(r, pub, new).send = DHChain(root2)
      /\ DhRatchet(r, pub, new).recv = DHChain(root1)
      /\ DhRatchet(r, pub, new).recv_n = 0 /\ DhRatchet(r, pub, new).send_n = 0
      /\ DhRatchet(r, pub, new).skipped = {}
      /\ DhRatchet(r, pub, new).dh_self = new /\ DhRatchet(r, pub, new).dh_peer = pub
      /\ DhRatchet(r, pub, new).pending = r.pending
    BY <1>3 DEF RatchetState
<1> QED BY <1>2, <1>5, <1>6, <1>7

\* What a ratchet is before the number of a message is looked at.
LEMMA ReceivingTyped ==
    ASSUME NEW r \in RatchetState, NEW pub \in Key, NEW new \in Key
    PROVE  /\ Receiving(r, pub, new) \in RatchetState
           /\ ~ Steps(r, pub) =>
                /\ Receiving(r, pub, new).root = r.root
                /\ Receiving(r, pub, new).send = r.send
                /\ Receiving(r, pub, new).send_n = r.send_n
                /\ Receiving(r, pub, new).recv = r.recv
                /\ Receiving(r, pub, new).recv_n = r.recv_n
                /\ Receiving(r, pub, new).skipped = r.skipped
                /\ Receiving(r, pub, new).dh_self = r.dh_self
                /\ Receiving(r, pub, new).pending = r.pending
                /\ Receiving(r, pub, new).dh_peer = pub
           /\ Steps(r, pub) => Receiving(r, pub, new) = DhRatchet(r, pub, new)
<1>1. CASE r.dh_peer = NoKey
    BY <1>1 DEF Receiving, Steps, RatchetState
<1>2. CASE r.dh_peer # NoKey /\ r.dh_peer = pub
    BY <1>2 DEF Receiving, Steps
<1>3. CASE r.dh_peer # NoKey /\ r.dh_peer # pub
    BY <1>3, StepTyped DEF Receiving, Steps
<1> QED BY <1>1, <1>2, <1>3

\* What decrypt leaves: the kept keys and the receive counter, else the same.
LEMMA OpenedTyped ==
    ASSUME NEW r \in RatchetState, NEW m \in Message, NEW new \in Key
    PROVE  LET r1 == Receiving(r, m.pub, new)
               r2 == Opened(r, m, new)
           IN  /\ r2 \in RatchetState /\ r1 \in RatchetState
               /\ r2.root = r1.root /\ r2.send = r1.send /\ r2.send_n = r1.send_n
               /\ r2.recv = r1.recv /\ r2.dh_self = r1.dh_self /\ r2.dh_peer = r1.dh_peer
               /\ r2.pending = r1.pending
               /\ m.n < r1.recv_n => r2 = r1
               /\ m.n >= r1.recv_n => /\ r2.skipped = r1.skipped \cup Gap(r1, m)
                                      /\ r2.recv_n = m.n + 1
<1> DEFINE r1 == Receiving(r, m.pub, new)
           r2 == Opened(r, m, new)
<1>1. m.pub \in Key /\ m.n \in Nat
    BY DEF Message
<1>2. r1 \in RatchetState
    BY <1>1, ReceivingTyped
<1>3. r2 = IF m.n < r1.recv_n THEN r1
           ELSE [r1 EXCEPT !.skipped = @ \cup Gap(r1, m), !.recv_n = m.n + 1]
    BY DEF Opened
<1> HIDE DEF r1, r2
<1>4. CASE m.n < r1.recv_n
    BY <1>1, <1>2, <1>3, <1>4 DEF r1, r2, RatchetState
<1>5. CASE ~ (m.n < r1.recv_n)
    <2>1. r1.recv \in Chain /\ r1.recv_n \in Nat /\ r1.skipped \subseteq Skipped
        BY <1>2 DEF RatchetState
    <2>2. Gap(r1, m) \subseteq Skipped
        BY <1>1, <2>1 DEF Gap, Skipped, MessageKey
    <2>3. r2 \in RatchetState
        <3> DEFINE S == r1.skipped \cup Gap(r1, m)
        <3>1. S \subseteq Skipped
            BY <2>1, <2>2
        <3>2. r2 = [r1 EXCEPT !.skipped = S, !.recv_n = m.n + 1]
            BY <1>3, <1>5
        <3> HIDE DEF S
        <3>3. r2 = [root |-> r1.root, dh_self |-> r1.dh_self, dh_peer |-> r1.dh_peer,
                    send |-> r1.send, recv |-> r1.recv, send_n |-> r1.send_n,
                    recv_n |-> m.n + 1, skipped |-> S, pending |-> r1.pending]
            BY <1>2, <3>2 DEF RatchetState
        <3> QED BY <1>1, <1>2, <3>1, <3>3, Fields DEF RatchetState
    <2>4. /\ r2.root = r1.root /\ r2.send = r1.send /\ r2.send_n = r1.send_n
          /\ r2.recv = r1.recv /\ r2.dh_self = r1.dh_self /\ r2.dh_peer = r1.dh_peer
          /\ r2.pending = r1.pending
          /\ r2.skipped = r1.skipped \cup Gap(r1, m) /\ r2.recv_n = m.n + 1
        BY <1>2, <1>3, <1>5 DEF RatchetState
    <2> QED BY <1>2, <1>5, <2>3, <2>4 DEF r1, r2
<1> QED BY <1>4, <1>5

LEMMA SendingTyped ==
    ASSUME TypeOK, NEW p \in Peer, NEW kind \in {"text", "receipt", "aux"}
    PROVE  LET r == Sending(ratchet[p], New(p)) IN
           /\ r \in RatchetState /\ [r EXCEPT !.send_n = @ + 1] \in RatchetState
           /\ Encrypted(kind, r) \in Message
<1> DEFINE r == Sending(ratchet[p], New(p))
<1>1. r \in RatchetState
    <2>1. CASE ratchet[p].pending = NoKey
        BY <2>1, NewTyped DEF Sending
    <2>2. CASE ratchet[p].pending # NoKey
        BY <2>2, NewTyped, SendInitTyped DEF Sending
    <2> QED BY <2>1, <2>2
<1> HIDE DEF r
<1>2. [r EXCEPT !.send_n = @ + 1] \in RatchetState
    BY <1>1 DEF RatchetState
<1>3. Encrypted(kind, r) \in Message
    BY <1>1 DEF Encrypted, Message, MessageKey, RatchetState
<1> QED BY <1>1, <1>2, <1>3 DEF r

LEMMA NextMessageTyped ==
    ASSUME TypeOK, NEW p \in Peer, Waiting(p)
    PROVE  NextMessage(p) \in Message /\ last_recv[p] + 1 \in 1 .. Len(sent[Other(p)])
<1>1. /\ last_recv[p] \in Nat /\ sent[Other(p)] \in Seq(Message)
      /\ last_recv[p] < Len(sent[Other(p)])
    BY NewTyped DEF Waiting
<1> QED BY <1>1 DEF NextMessage

LEMMA SendTyped ==
    ASSUME TypeOK, NEW p \in Peer, NEW kind \in {"text", "receipt", "aux"}, Send(p, kind)
    PROVE  TypeOK'
<1> DEFINE r == Sending(ratchet[p], New(p))
<1>1. /\ r \in RatchetState /\ [r EXCEPT !.send_n = @ + 1] \in RatchetState
      /\ Encrypted(kind, r) \in Message
    BY SendingTyped
<1>2. /\ sent' = [sent EXCEPT ![p] = Append(@, Encrypted(kind, r))]
      /\ ratchet' = [ratchet EXCEPT ![p] = IF Advances(kind)
                                           THEN [r EXCEPT !.send_n = @ + 1] ELSE @]
      /\ fresh' = [fresh EXCEPT ![p] = IF ratchet[p].pending = NoKey THEN @ ELSE @ + 1]
      /\ last_recv' = last_recv
    BY DEF Send
<1> HIDE DEF r
<1>3. ratchet' \in [Peer -> RatchetState]
    BY <1>1, <1>2 DEF TypeOK
<1>4. sent' \in [Peer -> Seq(Message)]
    <2>1. sent[p] \in Seq(Message)
        BY DEF TypeOK
    <2>2. Append(sent[p], Encrypted(kind, r)) \in Seq(Message)
        BY <1>1, <2>1
    <2> QED BY <1>2, <2>2 DEF TypeOK
<1>5. fresh' \in [Peer -> Nat]
    BY <1>2 DEF TypeOK
<1> QED BY <1>2, <1>3, <1>4, <1>5 DEF TypeOK

LEMMA ReceiveTyped ==
    ASSUME TypeOK, NEW p \in Peer, Receive(p)
    PROVE  TypeOK'
<1> DEFINE m == NextMessage(p)
<1>1. m \in Message
    BY NextMessageTyped DEF Receive
<1>2. /\ ratchet' = [ratchet EXCEPT ![p] =
                          IF Keeps(p, m.kind) THEN Opened(@, m, New(p)) ELSE @]
      /\ fresh' = [fresh EXCEPT ![p] = IF Steps(ratchet[p], m.pub) THEN @ + 1 ELSE @]
      /\ last_recv' = [last_recv EXCEPT ![p] = @ + 1] /\ sent' = sent
    BY DEF Receive
<1> HIDE DEF m
<1>3. Opened(ratchet[p], m, New(p)) \in RatchetState
    BY <1>1, NewTyped, OpenedTyped
<1>4. ratchet' \in [Peer -> RatchetState]
    BY <1>2, <1>3 DEF TypeOK
<1> QED BY <1>2, <1>4 DEF TypeOK

LEMMA TypesKept == TypeOK /\ [Next]_vars => TypeOK'
<1> SUFFICES ASSUME TypeOK, [Next]_vars PROVE TypeOK'
    OBVIOUS
<1>1. ASSUME NEW p \in Peer, SendText(p) \/ SendReceipt(p) \/ SendAux(p) PROVE TypeOK'
    BY <1>1, SendTyped DEF SendText, SendReceipt, SendAux
<1>2. ASSUME NEW p \in Peer, Receive(p) PROVE TypeOK'
    BY <1>2, ReceiveTyped
<1>3. CASE UNCHANGED vars
    BY <1>3 DEF vars, TypeOK
<1> QED BY <1>1, <1>2, <1>3 DEF Next

LEMMA TypesAtInit == Init => TypeOK
<1> SUFFICES ASSUME Init PROVE TypeOK
    OBVIOUS
<1>1. /\ Inviter \in Peer /\ Joiner \in Peer /\ <<>> \in Root
      /\ \A p \in Peer : Pair(p, 0) \in Key
    BY DEF Peer, Pair, Key, Root
<1>2. InviterStart \in RatchetState
    BY <1>1, ChainTyped DEF InviterStart, RatchetState
<1>3. Mixed(<<>>, Pair(Joiner, 0), Pair(Inviter, 0)) \in Root
    BY <1>1, MixedTyped
<1>4. JoinerStart \in RatchetState
    BY <1>1, <1>3, ChainTyped DEF JoinerStart, RatchetState
<1> QED BY <1>2, <1>4 DEF Init, TypeOK

\* Ratchets, key counters, messages and receive counters keep their types.
THEOREM TypeCorrect == Spec => []TypeOK
BY TypesAtInit, TypesKept, PTL DEF Spec

-----------------------------------------------------------------------------
(* The kept keys *)

SkippedInv == SkippedOfCurrentChain /\ \A p \in Peer : IsFiniteSet(ratchet[p].skipped)

\* The kept keys of one ratchet.
KeptOK(r) ==
    /\ IsFiniteSet(r.skipped) /\ Cardinality(r.skipped) <= MaxSkippedKeys
    /\ \A s \in r.skipped : s.key.chain = r.recv /\ s.n < r.recv_n

LEMMA SkippedByPeer == SkippedInv <=> \A p \in Peer : KeptOK(ratchet[p])
BY DEF SkippedInv, SkippedOfCurrentChain, KeptOK

\* The keys between the counter and the message are as many as their numbers.
LEMMA GapSize ==
    ASSUME NEW r \in RatchetState, NEW m \in Message, m.n >= r.recv_n
    PROVE  /\ IsFiniteSet(Gap(r, m)) /\ Cardinality(Gap(r, m)) <= m.n - r.recv_n
           /\ \A s \in Gap(r, m) : s.key.chain = r.recv /\ s.n < m.n + 1
<1>1. r.recv_n \in Nat /\ m.n \in Nat
    BY DEF RatchetState, Message
<1> DEFINE f == [i \in r.recv_n .. (m.n - 1) |->
                   [pub |-> m.pub, n |-> i, key |-> [chain |-> r.recv, n |-> i]]]
           S == r.recv_n .. (m.n - 1)
<1>2. IsFiniteSet(S) /\ Cardinality(S) = m.n - r.recv_n
    <2>1. r.recv_n \in Int /\ m.n - 1 \in Int
        BY <1>1
    <2>2. /\ IsFiniteSet(S)
          /\ Cardinality(S) = IF r.recv_n > m.n - 1 THEN 0 ELSE (m.n - 1) - r.recv_n + 1
        BY <2>1, FS_Interval
    <2> QED BY <1>1, <2>2
<1>3. Gap(r, m) = {f[i] : i \in S}
    BY DEF Gap
<1> DEFINE G == {f[i] : i \in S}
<1>4. f \in Surjection(S, G)
    BY DEF Surjection
<1> HIDE DEF f, S, G
<1>5. IsFiniteSet(G) /\ Cardinality(G) <= Cardinality(S)
    BY <1>2, <1>4, FS_Surjection
<1>6. IsFiniteSet(Gap(r, m)) /\ Cardinality(Gap(r, m)) <= m.n - r.recv_n
    BY <1>2, <1>3, <1>5 DEF G
<1>7. \A s \in Gap(r, m) : s.key.chain = r.recv /\ s.n < m.n + 1
    BY <1>1 DEF Gap
<1> QED BY <1>6, <1>7

LEMMA ReceivingKept ==
    ASSUME NEW r \in RatchetState, KeptOK(r), NEW pub \in Key, NEW new \in Key
    PROVE  KeptOK(Receiving(r, pub, new))
<1>1. CASE Steps(r, pub)
    <2>1. Receiving(r, pub, new).skipped = {}
        <3>1. Receiving(r, pub, new) = DhRatchet(r, pub, new)
            BY <1>1, ReceivingTyped
        <3>2. DhRatchet(r, pub, new).skipped = {}
            BY StepTyped
        <3> QED BY <3>1, <3>2
    <2>2. 0 <= MaxSkippedKeys
        BY LimitsAreNat
    <2> QED BY <2>1, <2>2, FS_EmptySet DEF KeptOK
<1>2. CASE ~ Steps(r, pub)
    <2>1. /\ Receiving(r, pub, new).recv = r.recv
          /\ Receiving(r, pub, new).recv_n = r.recv_n
          /\ Receiving(r, pub, new).skipped = r.skipped
        BY <1>2, ReceivingTyped
    <2> QED BY <2>1 DEF KeptOK
<1> QED BY <1>1, <1>2

LEMMA OpenedKept ==
    ASSUME NEW r \in RatchetState, KeptOK(r), NEW m \in Message, NEW new \in Key,
           Opens(r, m, new)
    PROVE  KeptOK(Opened(r, m, new))
<1> DEFINE r1 == Receiving(r, m.pub, new)
           r2 == Opened(r, m, new)
<1>1. KeptOK(r1)
    BY ReceivingKept DEF Message
<1>2. /\ r2 \in RatchetState /\ r1 \in RatchetState /\ r2.recv = r1.recv
      /\ m.n < r1.recv_n => r2 = r1
      /\ m.n >= r1.recv_n => r2.skipped = r1.skipped \cup Gap(r1, m) /\ r2.recv_n = m.n + 1
    BY OpenedTyped
<1>3. OpensSkipped(r1, m) \/ OpensNext(r1, m)
    BY DEF Opens
<1> HIDE DEF r1, r2
<1>4. r1.recv_n \in Nat /\ m.n \in Nat /\ MaxSkippedKeys \in Nat
    BY <1>2, LimitsAreNat DEF RatchetState, Message
<1>5. CASE m.n < r1.recv_n
    BY <1>1, <1>2, <1>5 DEF r1, r2
<1>6. CASE m.n >= r1.recv_n
    <2>1. Cardinality(r1.skipped) + (m.n - r1.recv_n) <= MaxSkippedKeys
        BY <1>3, <1>4, <1>6 DEF OpensSkipped, OpensNext, WithinLimits
    <2>2. /\ IsFiniteSet(Gap(r1, m)) /\ Cardinality(Gap(r1, m)) <= m.n - r1.recv_n
          /\ \A s \in Gap(r1, m) : s.key.chain = r1.recv /\ s.n < m.n + 1
        BY <1>2, <1>6, GapSize
    <2>3. IsFiniteSet(r1.skipped) /\ \A s \in r1.skipped : s.key.chain = r1.recv /\ s.n < r1.recv_n
        BY <1>1 DEF KeptOK
    <2>4. IsFiniteSet(r2.skipped) /\ Cardinality(r2.skipped) <= MaxSkippedKeys
        <3>1. /\ IsFiniteSet(r1.skipped \cup Gap(r1, m))
              /\ Cardinality(r1.skipped \cup Gap(r1, m)) = Cardinality(r1.skipped)
                   + Cardinality(Gap(r1, m)) - Cardinality(r1.skipped \cap Gap(r1, m))
            BY <2>2, <2>3, FS_Union
        <3>2. IsFiniteSet(r1.skipped \cap Gap(r1, m))
            BY <2>3, FS_Subset
        <3>3. /\ Cardinality(r1.skipped) \in Nat /\ Cardinality(Gap(r1, m)) \in Nat
              /\ Cardinality(r1.skipped \cap Gap(r1, m)) \in Nat
            BY <2>2, <2>3, <3>2, FS_CardinalityType
        <3>4. r2.skipped = r1.skipped \cup Gap(r1, m)
            BY <1>2, <1>6
        <3> QED BY <1>4, <2>1, <2>2, <3>1, <3>3, <3>4
    <2>5. \A s \in r2.skipped : s.key.chain = r2.recv /\ s.n < r2.recv_n
        <3>1. \A s \in r1.skipped : s.n \in Nat
            BY <1>2 DEF RatchetState, Skipped
        <3> QED BY <1>2, <1>4, <1>6, <2>2, <2>3, <3>1
    <2> QED BY <2>4, <2>5 DEF KeptOK, r2
<1> QED BY <1>4, <1>5, <1>6

LEMMA SkippedStep == TypeOK /\ SkippedInv /\ [Next]_vars => SkippedInv'
<1> SUFFICES ASSUME TypeOK, SkippedInv, [Next]_vars, NEW q \in Peer
             PROVE  KeptOK(ratchet'[q])
    BY DEF SkippedInv, SkippedOfCurrentChain, KeptOK
<1>0. ratchet \in [Peer -> RatchetState] /\ KeptOK(ratchet[q])
    BY SkippedByPeer DEF TypeOK
<1>1. ASSUME NEW p \in Peer, NEW kind \in {"text", "receipt", "aux"}, Send(p, kind)
      PROVE  KeptOK(ratchet'[q])
    <2> DEFINE r == Sending(ratchet[p], New(p))
    <2>1. /\ r.skipped = ratchet[p].skipped /\ r.recv = ratchet[p].recv
          /\ r.recv_n = ratchet[p].recv_n
        <3>1. CASE ratchet[p].pending = NoKey
            BY <3>1 DEF Sending
        <3>2. CASE ratchet[p].pending # NoKey
            BY <3>2, NewTyped, SendInitTyped DEF Sending
        <3> QED BY <3>1, <3>2
    <2>2. r \in RatchetState
        BY SendingTyped
    <2>3. ratchet' = [ratchet EXCEPT ![p] = IF Advances(kind)
                                            THEN [r EXCEPT !.send_n = @ + 1] ELSE @]
        BY <1>1 DEF Send
    <2> HIDE DEF r
    <2>4. /\ ratchet'[q].skipped = ratchet[q].skipped /\ ratchet'[q].recv = ratchet[q].recv
          /\ ratchet'[q].recv_n = ratchet[q].recv_n
        BY <1>0, <2>1, <2>2, <2>3 DEF RatchetState
    <2> QED BY <1>0, <2>4 DEF KeptOK
<1>2. ASSUME NEW p \in Peer, Receive(p) PROVE KeptOK(ratchet'[q])
    <2> DEFINE m == NextMessage(p)
    <2>1. m \in Message
        BY <1>2, NextMessageTyped DEF Receive
    <2>2. /\ Opens(ratchet[p], m, New(p))
          /\ ratchet' = [ratchet EXCEPT ![p] =
                          IF Keeps(p, m.kind) THEN Opened(@, m, New(p)) ELSE @]
        BY <1>2 DEF Receive
    <2>3. KeptOK(ratchet[p])
        BY SkippedByPeer
    <2> HIDE DEF m
    <2>4. KeptOK(Opened(ratchet[p], m, New(p)))
        BY <2>1, <2>2, <2>3, NewTyped, OpenedKept
    <2>5. ratchet'[q] = ratchet[q] \/ ratchet'[q] = Opened(ratchet[p], m, New(p))
        BY <1>0, <2>2
    <2> QED BY <1>0, <2>4, <2>5
<1>3. CASE UNCHANGED vars
    BY <1>0, <1>3 DEF vars
<1> QED BY <1>1, <1>2, <1>3 DEF Next, SendText, SendReceipt, SendAux

\* The kept keys are within MAX_SKIPPED_KEYS and all of the chain in use, for
\* every value of the two limits (_dh_ratchet, decrypt).
THEOREM SkippedBounded == Spec => []SkippedOfCurrentChain
<1>1. Init => SkippedInv
    <2> SUFFICES ASSUME Init, NEW p \in Peer PROVE KeptOK(ratchet[p])
        BY SkippedByPeer
    <2>1. ratchet[p].skipped = {}
        BY DEF Init, InviterStart, JoinerStart
    <2> QED BY <2>1, FS_EmptySet, LimitsAreNat DEF KeptOK
<1>2. SkippedInv => SkippedOfCurrentChain
    BY DEF SkippedInv
<1> QED BY <1>1, <1>2, SkippedStep, TypesAtInit, TypesKept, PTL DEF Spec

-----------------------------------------------------------------------------
(* Message keys *)

\* A key pair that was generated, and a root key of such pairs.
Known(k) == k.k <= fresh[k.of]
KnownRoot(r) == \A i \in 1 .. Len(r) : \A k \in r[i] : Known(k)

\* Nothing in use or sent is of a key pair that is still to be generated.
KnownRatchet(r) ==
    /\ KnownRoot(r.root) /\ KnownRoot(r.send.root) /\ Known(r.dh_self)
    /\ r.dh_peer # NoKey => Known(r.dh_peer)
    /\ r.pending # NoKey => Known(r.pending)
KeysKnown ==
    /\ \A p \in Peer : KnownRatchet(ratchet[p])
    /\ \A p \in Peer : \A i \in 1 .. Len(sent[p]) :
         Known(sent[p][i].pub) /\ KnownRoot(sent[p][i].key.chain.root)

\* The chain a peer sends with is its own, and its texts are behind send_n there.
OwnChains ==
    /\ \A p, q \in Peer : p # q => ratchet[p].send # ratchet[q].send
    /\ \A p, q \in Peer : \A i \in 1 .. Len(sent[p]) :
         sent[p][i].kind = "text" /\ sent[p][i].key.chain = ratchet[q].send =>
           p = q /\ sent[p][i].key.n < ratchet[q].send_n

KeyInv == KeysKnown /\ OwnChains /\ TextKeysDistinct

\* What known means after the step.
KnownNext(k) == k.k <= fresh'[k.of]
KnownRootNext(r) == \A i \in 1 .. Len(r) : \A k \in r[i] : KnownNext(k)
KnownRatchetNext(r) ==
    /\ KnownRootNext(r.root) /\ KnownRootNext(r.send.root) /\ KnownNext(r.dh_self)
    /\ r.dh_peer # NoKey => KnownNext(r.dh_peer)
    /\ r.pending # NoKey => KnownNext(r.pending)

\* Key pairs are generated and never forgotten.
LEMMA KnownStays ==
    ASSUME TypeOK, NEW p \in Peer, fresh' = fresh \/ fresh' = [fresh EXCEPT ![p] = @ + 1]
    PROVE  /\ \A k \in Key : Known(k) => KnownNext(k)
           /\ \A r \in Root : KnownRoot(r) => KnownRootNext(r)
           /\ \A r \in RatchetState : KnownRatchet(r) => KnownRatchetNext(r)
<1>1. \A q \in Peer : fresh[q] \in Nat /\ fresh'[q] \in Nat /\ fresh[q] <= fresh'[q]
    <2>1. fresh \in [Peer -> Nat]
        BY DEF TypeOK
    <2>2. CASE fresh' = fresh
        BY <2>1, <2>2
    <2>3. CASE fresh' = [fresh EXCEPT ![p] = @ + 1]
        <3>1. \A q \in Peer : fresh'[q] = IF q = p THEN fresh[q] + 1 ELSE fresh[q]
            BY <2>1, <2>3
        <3> QED BY <2>1, <3>1
    <2> QED BY <2>2, <2>3
<1>2. \A k \in Key : Known(k) => KnownNext(k)
    BY <1>1 DEF Key, Known, KnownNext
<1>3. ASSUME NEW r \in Root, KnownRoot(r) PROVE KnownRootNext(r)
    <2>1. \A i \in 1 .. Len(r) : r[i] \subseteq Key
        BY DEF Root
    <2> QED BY <1>2, <1>3, <2>1 DEF KnownRoot, KnownRootNext
<1>4. ASSUME NEW r \in RatchetState, KnownRatchet(r) PROVE KnownRatchetNext(r)
    <2>1. /\ r.root \in Root /\ r.send.root \in Root /\ r.dh_self \in Key
          /\ r.dh_peer # NoKey => r.dh_peer \in Key
          /\ r.pending # NoKey => r.pending \in Key
        BY DEF RatchetState, Chain
    <2> QED BY <1>2, <1>3, <1>4, <2>1 DEF KnownRatchet, KnownRatchetNext
<1> QED BY <1>2, <1>3, <1>4

\* Mixing known keys into a known root key.
LEMMA MixedKnown ==
    ASSUME NEW r \in Root, NEW a \in Key, NEW b \in Key
    PROVE  /\ KnownRoot(r) /\ Known(a) /\ Known(b) => KnownRoot(Mixed(r, a, b))
           /\ KnownRootNext(r) /\ KnownNext(a) /\ KnownNext(b) => KnownRootNext(Mixed(r, a, b))
           /\ KnownRoot(Mixed(r, a, b)) => Known(a)
<1> DEFINE x == Mixed(r, a, b)
<1>1. /\ x \in Root /\ Len(x) = Len(r) + 1 /\ x[Len(r) + 1] = {a, b}
      /\ \A i \in 1 .. Len(r) : x[i] = r[i]
    BY MixedTyped
<1>2. Len(r) \in Nat
    BY DEF Root
<1> HIDE DEF x
<1>3. \A i \in 1 .. Len(x) : x[i] = {a, b} \/ (i \in 1 .. Len(r) /\ x[i] = r[i])
    BY <1>1, <1>2
<1>4. KnownRoot(r) /\ Known(a) /\ Known(b) => KnownRoot(x)
    BY <1>3 DEF KnownRoot
<1>5. KnownRootNext(r) /\ KnownNext(a) /\ KnownNext(b) => KnownRootNext(x)
    BY <1>3 DEF KnownRootNext
<1>6. KnownRoot(x) => Known(a)
    <2>1. Len(r) + 1 \in 1 .. Len(x)
        BY <1>1, <1>2
    <2> QED BY <1>1, <2>1 DEF KnownRoot
<1> QED BY <1>4, <1>5, <1>6 DEF x

\* A root step of p with a new key pair: what it mixes is known from then on, and
\* the chain it gives is none that is in use or was sent with.
LEMMA NewRoot ==
    ASSUME TypeOK, KeysKnown, NEW p \in Peer, fresh' = [fresh EXCEPT ![p] = @ + 1],
           NEW root \in Root, KnownRoot(root), NEW self \in Key, Known(self),
           NEW pub \in Key, Known(pub)
    PROVE  LET root2 == Mixed(Mixed(root, self, pub), New(p), pub) IN
           /\ KnownRootNext(root2) /\ KnownNext(New(p)) /\ KnownNext(pub)
           /\ ~ KnownRoot(root2)
<1>1. New(p) \in Key /\ New(p).of = p /\ New(p).k = fresh[p] + 1 /\ fresh[p] \in Nat
    BY NewTyped
<1>2. fresh'[p] = fresh[p] + 1
    BY DEF TypeOK
<1>3. KnownNext(New(p)) /\ ~ Known(New(p))
    BY <1>1, <1>2 DEF Known, KnownNext
<1>4. KnownNext(self) /\ KnownNext(pub) /\ KnownRootNext(root)
    BY KnownStays
<1>5. Mixed(root, self, pub) \in Root
    BY MixedTyped
<1>6. KnownRootNext(Mixed(root, self, pub))
    BY <1>4, MixedKnown
<1>7. KnownRootNext(Mixed(Mixed(root, self, pub), New(p), pub))
    BY <1>1, <1>3, <1>4, <1>5, <1>6, MixedKnown
<1>8. KnownRoot(Mixed(Mixed(root, self, pub), New(p), pub)) => Known(New(p))
    BY <1>1, <1>5, MixedKnown
<1> QED BY <1>3, <1>4, <1>7, <1>8

\* The two forms a ratchet may take: the sending chain goes on, or a new one is begun.
Continues(r, r1) ==
    r1.root = r.root /\ r1.send = r.send /\ r1.dh_self = r.dh_self /\ r1.send_n = r.send_n
Begins(r1) == ~ KnownRoot(r1.send.root)

LEMMA SendingKnown ==
    ASSUME TypeOK, KeysKnown, NEW p \in Peer,
           fresh' = [fresh EXCEPT ![p] = IF ratchet[p].pending = NoKey THEN @ ELSE @ + 1]
    PROVE  LET r1 == Sending(ratchet[p], New(p)) IN
           KnownRatchetNext(r1) /\ (Continues(ratchet[p], r1) \/ Begins(r1))
<1> DEFINE r == ratchet[p]
<1>1. r \in RatchetState /\ KnownRatchet(r) /\ New(p) \in Key
    BY NewTyped DEF KeysKnown
<1>2. CASE r.pending = NoKey
    <2>1. fresh' = fresh
        BY <1>2 DEF TypeOK
    <2>2. KnownRatchetNext(r)
        BY <1>1, <2>1, KnownStays
    <2> QED BY <1>2, <2>2 DEF Sending, Continues
<1>3. CASE r.pending # NoKey
    <2> DEFINE r1 == PairingSendInit(r, New(p))
               root2 == Mixed(Mixed(r.root, r.dh_self, r.pending), New(p), r.pending)
    <2>1. /\ r.pending \in Key /\ Known(r.pending) /\ r.root \in Root /\ KnownRoot(r.root)
          /\ r.dh_self \in Key /\ Known(r.dh_self)
        BY <1>1, <1>3 DEF KnownRatchet, RatchetState
    <2>2. fresh' = [fresh EXCEPT ![p] = @ + 1]
        BY <1>3
    <2>3. KnownRootNext(root2) /\ KnownNext(New(p)) /\ KnownNext(r.pending) /\ ~ KnownRoot(root2)
        BY <2>1, <2>2, NewRoot
    <2>4. /\ r1.send = DHChain(root2) /\ r1.root = root2 /\ r1.dh_self = New(p)
          /\ r1.dh_peer = r.pending /\ r1.pending = NoKey /\ root2 \in Root
        BY <1>1, <1>3, SendInitTyped
    <2>5. Sending(r, New(p)) = r1
        BY <1>3 DEF Sending
    <2> HIDE DEF r1, root2
    <2>6. r1.send.root = root2
        BY <2>4, ChainTyped
    <2>7. KnownRatchetNext(r1) /\ Begins(r1)
        BY <2>3, <2>4, <2>6 DEF KnownRatchetNext, Begins
    <2> QED BY <2>5, <2>7
<1> QED BY <1>2, <1>3

LEMMA OpenedKnown ==
    ASSUME TypeOK, KeysKnown, NEW p \in Peer, NEW m \in Message, Known(m.pub),
           fresh' = [fresh EXCEPT ![p] = IF Steps(ratchet[p], m.pub) THEN @ + 1 ELSE @]
    PROVE  LET r1 == Opened(ratchet[p], m, New(p)) IN
           KnownRatchetNext(r1) /\ (Continues(ratchet[p], r1) \/ Begins(r1))
<1> DEFINE r == ratchet[p]
           r0 == Receiving(r, m.pub, New(p))
           r1 == Opened(r, m, New(p))
<1>1. r \in RatchetState /\ KnownRatchet(r) /\ New(p) \in Key /\ m.pub \in Key
    BY NewTyped DEF KeysKnown, Message
<1>2. /\ r1.root = r0.root /\ r1.send = r0.send /\ r1.send_n = r0.send_n
      /\ r1.dh_self = r0.dh_self /\ r1.dh_peer = r0.dh_peer /\ r1.pending = r0.pending
    BY <1>1, OpenedTyped
<1>3. CASE ~ Steps(r, m.pub)
    <2>1. fresh' = fresh
        BY <1>3 DEF TypeOK
    <2>2. KnownRatchetNext(r) /\ KnownNext(m.pub)
        BY <1>1, <2>1, KnownStays
    <2>3. /\ r0.root = r.root /\ r0.send = r.send /\ r0.send_n = r.send_n
          /\ r0.dh_self = r.dh_self /\ r0.pending = r.pending /\ r0.dh_peer = m.pub
        BY <1>1, <1>3, ReceivingTyped
    <2> HIDE DEF r, r0, r1
    <2>4. KnownRatchetNext(r1) /\ Continues(r, r1)
        BY <1>2, <2>2, <2>3 DEF KnownRatchetNext, Continues
    <2> QED BY <2>4 DEF r, r1
<1>4. CASE Steps(r, m.pub)
    <2> DEFINE root2 == Mixed(Mixed(r.root, r.dh_self, m.pub), New(p), m.pub)
    <2>1. /\ r.root \in Root /\ KnownRoot(r.root) /\ r.dh_self \in Key /\ Known(r.dh_self)
        BY <1>1 DEF KnownRatchet, RatchetState
    <2>2. fresh' = [fresh EXCEPT ![p] = @ + 1]
        BY <1>4
    <2>3. KnownRootNext(root2) /\ KnownNext(New(p)) /\ KnownNext(m.pub) /\ ~ KnownRoot(root2)
        BY <1>1, <2>1, <2>2, NewRoot
    <2>4. r0 = DhRatchet(r, m.pub, New(p))
        BY <1>1, <1>4, ReceivingTyped
    <2>5. /\ r0.send = DHChain(root2) /\ r0.root = root2 /\ r0.dh_self = New(p)
          /\ r0.dh_peer = m.pub /\ r0.pending = r.pending /\ root2 \in Root
        BY <1>1, <2>4, StepTyped
    <2>6. r.pending # NoKey => KnownNext(r.pending)
        BY <1>1, <2>2, KnownStays DEF KnownRatchet, RatchetState
    <2> HIDE DEF r, r0, r1, root2
    <2>7. r0.send.root = root2
        BY <2>5, ChainTyped
    <2>8. KnownRatchetNext(r1) /\ Begins(r1)
        BY <1>2, <2>3, <2>5, <2>6, <2>7 DEF KnownRatchetNext, Begins
    <2> QED BY <2>8 DEF r, r1
<1> QED BY <1>3, <1>4

\* What the messages sent are made of.
LEMMA SentFacts ==
    ASSUME TypeOK
    PROVE  \A q \in Peer : \A i \in 1 .. Len(sent[q]) :
             /\ sent[q][i].pub \in Key /\ sent[q][i].key.chain.root \in Root
             /\ sent[q][i].key.n \in Nat
             /\ sent[q][i].key = [chain |-> sent[q][i].key.chain, n |-> sent[q][i].key.n]
<1>1. \A q \in Peer : \A i \in 1 .. Len(sent[q]) : sent[q][i] \in Message
    <2>1. \A q \in Peer : sent[q] \in Seq(Message)
        BY DEF TypeOK
    <2> QED BY <2>1
<1>2. \A m \in Message : m.pub \in Key /\ m.key \in MessageKey
    BY DEF Message
<1>3. \A k \in MessageKey : k.chain \in Chain /\ k.n \in Nat /\ k = [chain |-> k.chain, n |-> k.n]
    BY DEF MessageKey
<1>4. \A c \in Chain : c.root \in Root
    BY DEF Chain
<1> QED BY <1>1, <1>2, <1>3, <1>4

\* A peer's ratchet becomes r1: its chain is its own.
LEMMA ChainsMove ==
    ASSUME TypeOK, KeyInv, NEW p \in Peer, NEW r1,
           Continues(ratchet[p], r1) \/ Begins(r1)
    PROVE  /\ \A q \in Peer : q # p => r1.send # ratchet[q].send
           /\ \A q \in Peer : \A i \in 1 .. Len(sent[q]) :
                sent[q][i].kind = "text" /\ sent[q][i].key.chain = r1.send =>
                  q = p /\ sent[q][i].key.n < r1.send_n
<1>1. CASE Continues(ratchet[p], r1)
    BY <1>1 DEF KeyInv, OwnChains, Continues
<1>2. CASE Begins(r1)
    BY <1>2 DEF KeyInv, KeysKnown, KnownRatchet, Begins
<1> QED BY <1>1, <1>2

\* What a step keeps that sends nothing.
LEMMA ReceiveKeys ==
    ASSUME TypeOK, KeyInv, NEW p \in Peer, Receive(p)
    PROVE  KeyInv'
<1> DEFINE m == NextMessage(p)
           r1 == ratchet'[p]
<1>1. m \in Message /\ Known(m.pub)
    <2>1. last_recv[p] + 1 \in 1 .. Len(sent[Other(p)]) /\ m \in Message
        BY NextMessageTyped DEF Receive
    <2> QED BY <2>1, NewTyped DEF KeyInv, KeysKnown, NextMessage
<1>2. /\ ratchet' = [ratchet EXCEPT ![p] =
                          IF Keeps(p, m.kind) THEN Opened(@, m, New(p)) ELSE @]
      /\ fresh' = [fresh EXCEPT ![p] = IF Steps(ratchet[p], m.pub) THEN @ + 1 ELSE @]
      /\ sent' = sent
    BY DEF Receive
<1> HIDE DEF m
<1>3. /\ fresh' = fresh \/ fresh' = [fresh EXCEPT ![p] = @ + 1]
      /\ ratchet \in [Peer -> RatchetState]
    BY <1>2 DEF TypeOK
<1>4. \A q \in Peer : q # p => ratchet'[q] = ratchet[q]
    BY <1>2, <1>3
<1>5. KnownRatchetNext(r1) /\ (Continues(ratchet[p], r1) \/ Begins(r1))
    <2>1. CASE Keeps(p, m.kind)
        <3>1. r1 = Opened(ratchet[p], m, New(p))
            BY <1>2, <1>3, <2>1
        <3> QED BY <1>1, <1>2, <3>1, OpenedKnown DEF KeyInv
    <2>2. CASE ~ Keeps(p, m.kind)
        <3>1. r1 = ratchet[p]
            BY <1>2, <1>3, <2>2
        <3>2. KnownRatchetNext(ratchet[p])
            BY <1>3, KnownStays DEF KeyInv, KeysKnown
        <3> QED BY <3>1, <3>2 DEF Continues
    <2> QED BY <2>1, <2>2
<1>6. \A q \in Peer : KnownRatchetNext(ratchet'[q])
    <2>1. \A q \in Peer : KnownRatchetNext(ratchet[q])
        BY <1>3, KnownStays DEF KeyInv, KeysKnown
    <2> QED BY <1>4, <1>5, <2>1
<1>7. \A q \in Peer : \A i \in 1 .. Len(sent[q]) :
        KnownNext(sent[q][i].pub) /\ KnownRootNext(sent[q][i].key.chain.root)
    BY <1>3, SentFacts, KnownStays DEF KeyInv, KeysKnown
<1>8. KeysKnown'
    BY <1>2, <1>6, <1>7
    DEF KeysKnown, KnownRatchet, KnownRatchetNext, Known, KnownNext, KnownRoot, KnownRootNext
<1>9. OwnChains'
    <2>1. /\ \A q \in Peer : q # p => r1.send # ratchet[q].send
          /\ \A q \in Peer : \A i \in 1 .. Len(sent[q]) :
               sent[q][i].kind = "text" /\ sent[q][i].key.chain = r1.send =>
                 q = p /\ sent[q][i].key.n < r1.send_n
        BY <1>5, ChainsMove
    <2> HIDE DEF r1
    <2>2. \A q \in Peer : ratchet'[q] = IF q = p THEN r1 ELSE ratchet[q]
        BY <1>4 DEF r1
    <2> QED BY <1>2, <2>1, <2>2 DEF KeyInv, OwnChains
<1>10. TextKeysDistinct'
    BY <1>2 DEF KeyInv, TextKeysDistinct
<1> QED BY <1>8, <1>9, <1>10 DEF KeyInv

LEMMA SendKeys ==
    ASSUME TypeOK, KeyInv, NEW p \in Peer, NEW kind \in {"text", "receipt", "aux"}, Send(p, kind)
    PROVE  KeyInv'
<1> DEFINE r == Sending(ratchet[p], New(p))
           m == Encrypted(kind, r)
           s == IF Advances(kind) THEN [r EXCEPT !.send_n = @ + 1] ELSE ratchet[p]
<1>1. r \in RatchetState /\ m \in Message
    BY SendingTyped
<1>2. /\ sent' = [sent EXCEPT ![p] = Append(@, m)]
      /\ ratchet' = [ratchet EXCEPT ![p] = s]
      /\ fresh' = [fresh EXCEPT ![p] = IF ratchet[p].pending = NoKey THEN @ ELSE @ + 1]
    BY DEF Send
<1>3. /\ fresh' = fresh \/ fresh' = [fresh EXCEPT ![p] = @ + 1]
      /\ ratchet \in [Peer -> RatchetState] /\ sent \in [Peer -> Seq(Message)]
    BY <1>2 DEF TypeOK
<1>4. KnownRatchetNext(r) /\ (Continues(ratchet[p], r) \/ Begins(r))
    BY <1>2, SendingKnown DEF KeyInv
<1>5. /\ m.kind = kind /\ m.pub = r.dh_self
      /\ m.key = [chain |-> r.send, n |-> r.send_n]
      /\ m.key.chain = r.send /\ m.key.n = r.send_n
    BY DEF Encrypted
<1>6. /\ s = ratchet[p] /\ kind # "text"
      \/ /\ s.send = r.send /\ s.send_n = r.send_n + 1 /\ r.send_n \in Nat
         /\ s.root = r.root /\ s.dh_self = r.dh_self /\ s.dh_peer = r.dh_peer
         /\ s.pending = r.pending
    BY <1>1 DEF Advances, RatchetState
<1> HIDE DEF r, m, s
<1>7. \A q \in Peer : ratchet'[q] = IF q = p THEN s ELSE ratchet[q]
    BY <1>2, <1>3
<1>8. \A q \in Peer : \A i \in 1 .. Len(sent'[q]) :
        \/ i \in 1 .. Len(sent[q]) /\ sent'[q][i] = sent[q][i]
        \/ q = p /\ i = Len(sent[q]) + 1 /\ sent'[q][i] = m
    <2>1. \A q \in Peer : sent'[q] = IF q = p THEN Append(sent[q], m) ELSE sent[q]
        BY <1>2, <1>3
    <2>2. sent[p] \in Seq(Message)
        BY <1>3
    <2>3. \A i \in 1 .. Len(Append(sent[p], m)) :
            \/ i \in 1 .. Len(sent[p]) /\ Append(sent[p], m)[i] = sent[p][i]
            \/ i = Len(sent[p]) + 1 /\ Append(sent[p], m)[i] = m
        BY <1>1, <2>2
    <2> QED BY <2>1, <2>3
<1>9. KeysKnown'
    <2>1. \A q \in Peer : KnownRatchetNext(ratchet[q])
        BY <1>3, KnownStays DEF KeyInv, KeysKnown
    <2>2. KnownRatchetNext(s)
        BY <1>4, <1>6, <2>1 DEF KnownRatchetNext
    <2>3. \A q \in Peer : \A i \in 1 .. Len(sent[q]) :
            KnownNext(sent[q][i].pub) /\ KnownRootNext(sent[q][i].key.chain.root)
        BY <1>3, SentFacts, KnownStays DEF KeyInv, KeysKnown
    <2>4. KnownNext(m.pub) /\ KnownRootNext(m.key.chain.root)
        BY <1>4, <1>5 DEF KnownRatchetNext
    <2>5. \A q \in Peer : \A i \in 1 .. Len(sent'[q]) :
            KnownNext(sent'[q][i].pub) /\ KnownRootNext(sent'[q][i].key.chain.root)
        BY <1>8, <2>3, <2>4
    <2>6. \A q \in Peer : KnownRatchetNext(ratchet'[q])
        BY <1>7, <2>1, <2>2
    <2> QED BY <2>5, <2>6
        DEF KeysKnown, KnownRatchet, KnownRatchetNext, Known, KnownNext, KnownRoot, KnownRootNext
<1>10. /\ \A q \in Peer : q # p => r.send # ratchet[q].send
       /\ \A q \in Peer : \A i \in 1 .. Len(sent[q]) :
            sent[q][i].kind = "text" /\ sent[q][i].key.chain = r.send =>
              q = p /\ sent[q][i].key.n < r.send_n
    BY <1>4, ChainsMove
<1>t. \A q \in Peer : \A i \in 1 .. Len(sent[q]) :
        sent[q][i].key.n \in Nat /\ sent[q][i].key = [chain |-> sent[q][i].key.chain,
                                                      n |-> sent[q][i].key.n]
    BY SentFacts
<1>11. OwnChains'
    <2>1. CASE s = ratchet[p] /\ kind # "text"
        <3>1. \A q \in Peer : ratchet'[q] = ratchet[q]
            BY <1>7, <2>1
        <3>2. \A q \in Peer : \A i \in 1 .. Len(sent'[q]) :
                sent'[q][i].kind = "text" =>
                  i \in 1 .. Len(sent[q]) /\ sent'[q][i] = sent[q][i]
            BY <1>5, <1>8, <2>1
        <3> QED BY <3>1, <3>2 DEF KeyInv, OwnChains
    <2>2. CASE s.send = r.send /\ s.send_n = r.send_n + 1 /\ r.send_n \in Nat
        <3>1. \A q, u \in Peer : q # u => ratchet'[q].send # ratchet'[u].send
            BY <1>7, <1>10, <2>2 DEF KeyInv, OwnChains
        <3>2. ASSUME NEW q \in Peer, NEW u \in Peer, NEW i \in 1 .. Len(sent'[q]),
                     sent'[q][i].kind = "text", sent'[q][i].key.chain = ratchet'[u].send
              PROVE  q = u /\ sent'[q][i].key.n < ratchet'[u].send_n
            <4>1. CASE i \in 1 .. Len(sent[q]) /\ sent'[q][i] = sent[q][i]
                <5>1. CASE u = p
                    <6>1. ratchet'[u].send = r.send /\ ratchet'[u].send_n = r.send_n + 1
                        BY <1>7, <2>2, <5>1
                    <6>2. sent[q][i].kind = "text" /\ sent[q][i].key.chain = r.send
                        BY <3>2, <4>1, <6>1
                    <6>3. q = p /\ sent[q][i].key.n < r.send_n /\ sent[q][i].key.n \in Nat
                        BY <1>10, <1>t, <4>1, <6>2
                    <6>4. sent[q][i].key.n < r.send_n + 1
                        BY <2>2, <6>3
                    <6> QED BY <4>1, <5>1, <6>1, <6>3, <6>4
                <5>2. CASE u # p
                    BY <1>7, <3>2, <4>1, <5>2 DEF KeyInv, OwnChains
                <5> QED BY <5>1, <5>2
            <4>2. CASE q = p /\ sent'[q][i] = m
                <5>1. u = p
                    BY <1>5, <1>7, <1>10, <3>2, <4>2
                <5> QED BY <1>5, <1>7, <2>2, <4>2, <5>1
            <4> QED BY <1>8, <4>1, <4>2
        <3> QED BY <3>1, <3>2 DEF OwnChains
    <2> QED BY <1>6, <2>1, <2>2
<1>12. TextKeysDistinct'
    <2>1. \A q \in Peer : \A i \in 1 .. Len(sent[q]) :
            sent[q][i].kind = "text" => sent[q][i].key # m.key
        <3>1. r.send_n \in Nat
            BY <1>1 DEF RatchetState
        <3> QED BY <1>5, <1>10, <1>t, <3>1
    <2>2. ASSUME NEW q \in Peer, NEW u \in Peer,
                 NEW i \in 1 .. Len(sent'[q]), NEW j \in 1 .. Len(sent'[u]),
                 sent'[q][i].kind = "text", sent'[u][j].kind = "text",
                 sent'[q][i].key = sent'[u][j].key
          PROVE  q = u /\ i = j
        <3>1. CASE /\ i \in 1 .. Len(sent[q]) /\ sent'[q][i] = sent[q][i]
                   /\ j \in 1 .. Len(sent[u]) /\ sent'[u][j] = sent[u][j]
            BY <2>2, <3>1 DEF KeyInv, TextKeysDistinct
        <3>2. CASE /\ i \in 1 .. Len(sent[q]) /\ sent'[q][i] = sent[q][i]
                   /\ sent'[u][j] = m
            BY <2>1, <2>2, <3>2
        <3>3. CASE /\ j \in 1 .. Len(sent[u]) /\ sent'[u][j] = sent[u][j]
                   /\ sent'[q][i] = m
            BY <2>1, <2>2, <3>3
        <3>4. CASE q = p /\ i = Len(sent[q]) + 1 /\ u = p /\ j = Len(sent[u]) + 1
            BY <3>4
        <3> QED BY <1>8, <3>1, <3>2, <3>3, <3>4
    <2> QED BY <2>2 DEF TextKeysDistinct
<1> QED BY <1>9, <1>11, <1>12 DEF KeyInv

LEMMA KeyStep == TypeOK /\ KeyInv /\ [Next]_vars => KeyInv'
<1> SUFFICES ASSUME TypeOK, KeyInv, [Next]_vars PROVE KeyInv'
    OBVIOUS
<1>1. ASSUME NEW p \in Peer, SendText(p) \/ SendReceipt(p) \/ SendAux(p) PROVE KeyInv'
    BY <1>1, SendKeys DEF SendText, SendReceipt, SendAux
<1>2. ASSUME NEW p \in Peer, Receive(p) PROVE KeyInv'
    BY <1>2, ReceiveKeys
<1>3. CASE UNCHANGED vars
    BY <1>3 DEF vars, KeyInv, KeysKnown, OwnChains, TextKeysDistinct, KnownRatchet, Known, KnownRoot
<1> QED BY <1>1, <1>2, <1>3 DEF Next

LEMMA KeyInit == Init => KeyInv
<1> SUFFICES ASSUME Init PROVE KeyInv
    OBVIOUS
<1>0. /\ Inviter \in Peer /\ Joiner \in Peer /\ \A p \in Peer : p = Inviter \/ p = Joiner
      /\ Inviter # Joiner /\ <<>> \in Root
      /\ \A p \in Peer : Pair(p, 0) \in Key
    BY EndsDiffer DEF Peer, Pair, Key, Root
<1>1. \A p \in Peer : Known(Pair(p, 0))
    BY DEF Init, Known, Pair
<1>2. KnownRoot(<<>>)
    BY DEF KnownRoot
<1>3. KnownRoot(Mixed(<<>>, Pair(Joiner, 0), Pair(Inviter, 0)))
    BY <1>0, <1>1, <1>2, MixedKnown
<1>4. KnownRatchet(InviterStart)
    <2>1. /\ InviterStart.root = <<>> /\ InviterStart.send.root = <<>>
          /\ InviterStart.dh_self = Pair(Inviter, 0) /\ InviterStart.dh_peer = NoKey
          /\ InviterStart.pending = Pair(Joiner, 0)
        BY DEF InviterStart, BootChain
    <2> QED BY <1>0, <1>1, <1>2, <2>1 DEF KnownRatchet
<1>5. KnownRatchet(JoinerStart)
    <2>1. /\ JoinerStart.root = Mixed(<<>>, Pair(Joiner, 0), Pair(Inviter, 0))
          /\ JoinerStart.send.root = <<>>
          /\ JoinerStart.dh_self = Pair(Joiner, 0) /\ JoinerStart.dh_peer = Pair(Inviter, 0)
          /\ JoinerStart.pending = NoKey
        BY DEF JoinerStart, BootChain
    <2> QED BY <1>0, <1>1, <1>2, <1>3, <2>1 DEF KnownRatchet
<1>6. \A p \in Peer : sent[p] = <<>> /\ ratchet[p] = IF p = Inviter THEN InviterStart ELSE JoinerStart
    BY DEF Init
<1>7. KeysKnown
    BY <1>4, <1>5, <1>6 DEF KeysKnown
<1>8. InviterStart.send # JoinerStart.send
    <2>1. InviterStart.send.boot = Inviter /\ JoinerStart.send.boot = Joiner
        BY DEF InviterStart, JoinerStart, BootChain
    <2> QED BY <1>0, <2>1
<1>9. OwnChains
    BY <1>0, <1>6, <1>8 DEF OwnChains
<1>10. TextKeysDistinct
    BY <1>6 DEF TextKeysDistinct
<1> QED BY <1>7, <1>9, <1>10 DEF KeyInv

\* No two texts are encrypted with the same message key, whatever was received,
\* restored or sent in between (encrypt, _dh_ratchet, _pairing_send_init).
THEOREM TextKeysNeverRepeat == Spec => []TextKeysDistinct
<1>1. KeyInv => TextKeysDistinct
    BY DEF KeyInv
<1> QED BY <1>1, KeyInit, KeyStep, TypesAtInit, TypesKept, PTL DEF Spec

-----------------------------------------------------------------------------
(* The two ratchets agree, when both peers fetch with decrypt_inbound *)

\* The messages on their way to p.
Flight(p) == last_recv[p] + 1 .. Len(sent[Other(p)])

\* Ratchet r opens m, unless a limit refuses.
Fits(r, m) ==
    /\ m.key.n = m.n
    /\ r.dh_peer \in {NoKey, m.pub} => m.key.chain = r.recv /\ m.n >= r.recv_n
    /\ r.dh_peer \notin {NoKey, m.pub} => m.key.chain = DHChain(Mixed(r.root, r.dh_self, m.pub))

\* What is sent after the text m is of a later number, or of a later key.
Follows(r, m, x) ==
    \/ x.pub = m.pub /\ x.key.chain = m.key.chain /\ m.n < x.n
    \/ m.pub = r.dh_peer /\ x.pub # m.pub

FlightFits(q) ==
    /\ \A i \in Flight(q) : Fits(ratchet[q], sent[Other(q)][i])
    /\ \A i, j \in Flight(q) : i < j /\ sent[Other(q)][i].kind = "text" =>
         Follows(ratchet[q], sent[Other(q)][i], sent[Other(q)][j])

\* So does what the other peer would send next.
Upcoming(r) == Encrypted("text", r)
UpcomingFits(q) ==
    ratchet[Other(q)].pending = NoKey =>
        /\ Fits(ratchet[q], Upcoming(ratchet[Other(q)]))
        /\ \A i \in Flight(q) : sent[Other(q)][i].kind = "text" =>
             Follows(ratchet[q], sent[Other(q)][i], Upcoming(ratchet[Other(q)]))

\* The inviter has sent receipts at most.
Starting ==
    LET i == ratchet[Inviter]
        j == ratchet[Joiner]
    IN  /\ i.pending = j.dh_self /\ i.dh_peer \in {NoKey, j.dh_self}
        /\ j.pending = NoKey /\ j.dh_peer # NoKey
        /\ j.root = Mixed(i.root, i.dh_self, j.dh_self)
        /\ \A k \in Flight(Inviter) : sent[Joiner][k].pub = j.dh_self
        /\ \A k \in Flight(Joiner) : sent[Inviter][k].kind # "text"

\* p has a key of its own that its peer's ratchet has not met.
Ahead(p) ==
    LET q == Other(p)
        a == ratchet[p]
        b == ratchet[q]
    IN  /\ a.pending = NoKey /\ b.pending = NoKey
        /\ a.dh_peer = b.dh_self /\ b.dh_peer \notin {NoKey, a.dh_self}
        /\ a.root = Mixed(b.root, b.dh_self, a.dh_self)
        /\ \A k \in Flight(p) : sent[q][k].pub = b.dh_self
        /\ \A k \in Flight(q) : sent[p][k].kind = "text" =>
             sent[p][k].pub \in {b.dh_peer, a.dh_self}

InStep == Starting \/ \E p \in Peer : Ahead(p)
Agreement == InStep /\ \A q \in Peer : FlightFits(q) /\ UpcomingFits(q)

\* A root step needs no order of the two keys.
LEMMA MixedEitherWay ==
    ASSUME NEW r, NEW a, NEW b
    PROVE  Mixed(r, a, b) = Mixed(r, b, a)
<1>1. {a, b} = {b, a}
    OBVIOUS
<1> QED BY <1>1 DEF Mixed, DH

\* The empty key is nobody's.
LEMMA KeysAreNoNoKey == NoKey \notin Key
BY NoKeyIsNoPair DEF NoKey, Key

\* A key pair that is generated now is none in use.
LEMMA NewIsNew ==
    ASSUME TypeOK, KeyInv, NEW p \in Peer
    PROVE  /\ New(p) \in Key
           /\ \A q \in Peer : ratchet[q].dh_self # New(p) /\ ratchet[q].dh_peer # New(p)
<1>1. New(p) \in Key /\ New(p).of = p /\ New(p).k = fresh[p] + 1 /\ fresh[p] \in Nat
    BY NewTyped
<1>2. ~ Known(New(p))
    BY <1>1 DEF Known
<1>3. ASSUME NEW q \in Peer PROVE ratchet[q].dh_self # New(p) /\ ratchet[q].dh_peer # New(p)
    <2>1. KnownRatchet(ratchet[q])
        BY DEF KeyInv, KeysKnown
    <2> QED BY <1>1, <1>2, <2>1, KeysAreNoNoKey DEF KnownRatchet
<1> QED BY <1>1, <1>3

\* The fields of a message.
LEMMA EncryptedFields ==
    ASSUME NEW kind \in {"text", "receipt", "aux"}, NEW r \in RatchetState
    PROVE  /\ Encrypted(kind, r) \in Message /\ Encrypted(kind, r).kind = kind
           /\ Encrypted(kind, r).pub = r.dh_self /\ Encrypted(kind, r).n = r.send_n
           /\ Encrypted(kind, r).key.chain = r.send /\ Encrypted(kind, r).key.n = r.send_n
BY DEF Encrypted, Message, MessageKey, RatchetState

\* What opens a text opens a receipt or a push in its place.
LEMMA AnyKindFits ==
    ASSUME NEW kind \in {"text", "receipt", "aux"}, NEW r \in RatchetState, NEW b, NEW x
    PROVE  /\ Fits(b, Encrypted(kind, r)) <=> Fits(b, Upcoming(r))
           /\ Follows(b, x, Encrypted(kind, r)) <=> Follows(b, x, Upcoming(r))
BY EncryptedFields DEF Upcoming, Fits, Follows

\* A ratchet that sends opens what it did.
LEMMA SendingOpensAsBefore ==
    ASSUME NEW r, NEW s, s.root = r.root, s.dh_self = r.dh_self, s.dh_peer = r.dh_peer,
           s.recv = r.recv, s.recv_n = r.recv_n
    PROVE  /\ \A x : Fits(r, x) => Fits(s, x)
           /\ \A x, y : Follows(r, x, y) => Follows(s, x, y)
BY DEF Fits, Follows

\* The ratchet with which a message that fits is opened has its chain.
LEMMA FitsOpens ==
    ASSUME NEW r \in RatchetState, NEW m \in Message, NEW new \in Key, Fits(r, m)
    PROVE  LET r1 == Receiving(r, m.pub, new) IN
           m.n >= r1.recv_n /\ m.key = [chain |-> r1.recv, n |-> m.n]
<1> DEFINE r1 == Receiving(r, m.pub, new)
<1>1. /\ m.pub \in Key /\ m.n \in Nat /\ m.key = [chain |-> m.key.chain, n |-> m.key.n]
      /\ m.key.n = m.n
    BY DEF Message, MessageKey, Fits
<1>2. m.n >= r1.recv_n /\ m.key.chain = r1.recv
    <2>1. CASE Steps(r, m.pub)
        <3>1. r1.recv = DHChain(Mixed(r.root, r.dh_self, m.pub)) /\ r1.recv_n = 0
            BY <1>1, <2>1, ReceivingTyped, StepTyped
        <3> QED BY <1>1, <2>1, <3>1 DEF Steps, Fits
    <2>2. CASE ~ Steps(r, m.pub)
        <3>1. r1.recv = r.recv /\ r1.recv_n = r.recv_n
            BY <1>1, <2>2, ReceivingTyped
        <3> QED BY <2>2, <3>1 DEF Steps, Fits
    <2> QED BY <2>1, <2>2
<1> HIDE DEF r1
<1> QED BY <1>1, <1>2 DEF r1

\* What a peer's ratchet is after a message that fits, without and with a root step.
LEMMA OpenedFitting ==
    ASSUME NEW r \in RatchetState, NEW m \in Message, NEW new \in Key, Fits(r, m)
    PROVE  LET s == Opened(r, m, new) IN
           /\ s \in RatchetState
           /\ s.dh_peer = m.pub /\ s.recv = m.key.chain /\ s.recv_n = m.n + 1
           /\ s.pending = r.pending
           /\ ~ Steps(r, m.pub) => /\ s.root = r.root /\ s.dh_self = r.dh_self
                                   /\ s.send = r.send /\ s.send_n = r.send_n
           /\ Steps(r, m.pub) =>
                /\ s.root = Mixed(Mixed(r.root, r.dh_self, m.pub), new, m.pub)
                /\ s.send = DHChain(s.root) /\ s.dh_self = new /\ s.send_n = 0
<1> DEFINE r1 == Receiving(r, m.pub, new)
           s == Opened(r, m, new)
<1>1. m.pub \in Key /\ m.n \in Nat
    BY DEF Message
<1>2. m.n >= r1.recv_n /\ m.key = [chain |-> r1.recv, n |-> m.n]
    BY FitsOpens
<1>3. m.key.chain = r1.recv
    BY <1>2
<1>4. /\ s \in RatchetState /\ s.root = r1.root /\ s.send = r1.send /\ s.send_n = r1.send_n
      /\ s.recv = r1.recv /\ s.dh_self = r1.dh_self /\ s.dh_peer = r1.dh_peer
      /\ s.pending = r1.pending /\ s.recv_n = m.n + 1
    BY <1>2, OpenedTyped
<1> HIDE DEF s
<1>5. CASE Steps(r, m.pub)
    <2>1. /\ r1.root = Mixed(Mixed(r.root, r.dh_self, m.pub), new, m.pub)
          /\ r1.send = DHChain(r1.root) /\ r1.dh_self = new /\ r1.send_n = 0
          /\ r1.dh_peer = m.pub /\ r1.pending = r.pending
        BY <1>1, <1>5, ReceivingTyped, StepTyped
    <2> HIDE DEF r1
    <2> QED BY <1>3, <1>4, <1>5, <2>1 DEF s
<1>6. CASE ~ Steps(r, m.pub)
    <2>1. /\ r1.root = r.root /\ r1.send = r.send /\ r1.send_n = r.send_n
          /\ r1.dh_self = r.dh_self /\ r1.dh_peer = m.pub /\ r1.pending = r.pending
        BY <1>1, <1>6, ReceivingTyped
    <2> HIDE DEF r1
    <2> QED BY <1>3, <1>4, <1>6, <2>1 DEF s
<1> QED BY <1>5, <1>6

\* What fitted behind a text fits after it.
LEMMA FitsAfterText ==
    ASSUME NEW r \in RatchetState, NEW m \in Message, NEW new \in Key, Fits(r, m)
    PROVE  LET s == Opened(r, m, new) IN
           /\ \A x \in Message : Fits(r, x) /\ Follows(r, m, x) => Fits(s, x)
           /\ \A y, x \in Message : Follows(r, m, y) /\ Follows(r, y, x) => Follows(s, y, x)
<1> DEFINE s == Opened(r, m, new)
<1>1. m.n \in Nat /\ m.pub \in Key /\ m.pub # NoKey /\ \A x \in Message : x.n \in Nat /\ x.pub # NoKey
    BY KeysAreNoNoKey DEF Message
<1>2. /\ s.dh_peer = m.pub /\ s.recv = m.key.chain /\ s.recv_n = m.n + 1
      /\ ~ Steps(r, m.pub) => s.root = r.root /\ s.dh_self = r.dh_self
    BY OpenedFitting
<1> HIDE DEF s
<1>3. ASSUME NEW x \in Message, Fits(r, x), Follows(r, m, x) PROVE Fits(s, x)
    <2>1. CASE x.pub = m.pub
        <3>1. x.key.chain = m.key.chain /\ m.n < x.n
            BY <1>3, <2>1 DEF Follows
        <3>2. x.n >= m.n + 1
            BY <1>1, <3>1
        <3> QED BY <1>1, <1>2, <1>3, <2>1, <3>1, <3>2 DEF Fits
    <2>2. CASE x.pub # m.pub
        <3>1. m.pub = r.dh_peer /\ r.dh_peer # NoKey /\ ~ Steps(r, m.pub)
            BY <1>1, <1>3, <2>2 DEF Follows, Steps
        <3>2. x.key.chain = DHChain(Mixed(r.root, r.dh_self, x.pub))
            BY <1>3, <2>2, <3>1 DEF Fits
        <3> QED BY <1>1, <1>2, <1>3, <2>2, <3>1, <3>2 DEF Fits
    <2> QED BY <2>1, <2>2
<1>4. ASSUME NEW y \in Message, NEW x \in Message, Follows(r, m, y), Follows(r, y, x)
      PROVE  Follows(s, y, x)
    BY <1>1, <1>2, <1>4 DEF Follows
<1> QED BY <1>3, <1>4 DEF s

\* Agreement is strong enough.
LEMMA AgreementOpens == TypeOK /\ Agreement => OnlyLimitsRefuse
<1> SUFFICES ASSUME TypeOK, Agreement, NEW p \in Peer, Waiting(p)
             PROVE  LET m == NextMessage(p)
                        r == Receiving(ratchet[p], m.pub, New(p))
                    IN  Opens(ratchet[p], m, New(p)) \/ (m.n >= r.recv_n /\ ~WithinLimits(r, m))
    BY DEF OnlyLimitsRefuse
<1> DEFINE m == NextMessage(p)
           r == Receiving(ratchet[p], m.pub, New(p))
<1>1. m \in Message /\ last_recv[p] + 1 \in Flight(p) /\ m = sent[Other(p)][last_recv[p] + 1]
    <2>1. m \in Message /\ last_recv[p] + 1 \in 1 .. Len(sent[Other(p)])
        BY NextMessageTyped
    <2> QED BY <2>1, NewTyped DEF Flight, NextMessage
<1>2. Fits(ratchet[p], m)
    BY <1>1 DEF Agreement, FlightFits
<1>3. m.n >= r.recv_n /\ m.key = [chain |-> r.recv, n |-> m.n]
    BY <1>1, <1>2, FitsOpens, NewTyped
<1> QED BY <1>3 DEF Opens, OpensNext

\* p receives the first message on its way: the others are still there.
LEMMA FlightAfterReceive ==
    ASSUME TypeOK, NEW p \in Peer, Receive(p)
    PROVE  /\ sent' = sent /\ last_recv[p] + 1 \in Flight(p)
           /\ \A q \in Peer : q # p => Flight(q)' = Flight(q) /\ ratchet'[q] = ratchet[q]
           /\ \A i \in Flight(p)' : i \in Flight(p) /\ last_recv[p] + 1 < i
           /\ ratchet'[p] = IF Keeps(p, NextMessage(p).kind)
                            THEN Opened(ratchet[p], NextMessage(p), New(p)) ELSE ratchet[p]
<1>1. /\ sent' = sent /\ last_recv' = [last_recv EXCEPT ![p] = @ + 1]
      /\ last_recv \in [Peer -> Nat] /\ ratchet \in [Peer -> RatchetState]
      /\ ratchet' = [ratchet EXCEPT ![p] = IF Keeps(p, NextMessage(p).kind)
                       THEN Opened(@, NextMessage(p), New(p)) ELSE @]
    BY DEF Receive, TypeOK
<1>2. last_recv[p] + 1 \in 1 .. Len(sent[Other(p)])
    BY NextMessageTyped DEF Receive
<1>3. last_recv[p] \in Nat /\ last_recv'[p] = last_recv[p] + 1
      /\ \A q \in Peer : q # p => last_recv'[q] = last_recv[q]
    BY <1>1
<1>4. Len(sent[Other(p)]) \in Nat
    BY NewTyped
<1>5. \A i \in Flight(p)' : i \in Flight(p) /\ last_recv[p] + 1 < i
    BY <1>1, <1>3, <1>4 DEF Flight
<1>6. last_recv[p] + 1 \in Flight(p)
    BY <1>2, <1>3, <1>4 DEF Flight
<1>7. \A q \in Peer : q # p => Flight(q)' = Flight(q)
    BY <1>1, <1>3 DEF Flight
<1>8. \A q \in Peer : q # p => ratchet'[q] = ratchet[q]
    BY <1>1
<1>9. ratchet'[p] = IF Keeps(p, NextMessage(p).kind)
                    THEN Opened(ratchet[p], NextMessage(p), New(p)) ELSE ratchet[p]
    BY <1>1
<1> QED BY <1>1, <1>5, <1>6, <1>7, <1>8, <1>9

\* The messages in flight.
LEMMA FlightMessages ==
    ASSUME TypeOK, NEW q \in Peer
    PROVE  /\ Other(q) \in Peer /\ Other(q) # q /\ Other(Other(q)) = q
           /\ \A r \in Peer : r # q => r = Other(q)
           /\ \A i \in Flight(q) : i \in Nat /\ i \in 1 .. Len(sent[Other(q)])
                                   /\ sent[Other(q)][i] \in Message
<1>1. /\ Other(q) \in Peer /\ Other(q) # q /\ Other(Other(q)) = q
      /\ \A r \in Peer : r # q => r = Other(q)
    BY EndsDiffer DEF Other, Peer
<1>2. sent[Other(q)] \in Seq(Message) /\ last_recv[q] \in Nat
    BY NewTyped
<1>3. \A i \in Flight(q) : i \in Nat /\ i \in 1 .. Len(sent[Other(q)])
                           /\ sent[Other(q)][i] \in Message
    BY <1>2 DEF Flight
<1> QED BY <1>1, <1>3

\* A message that is not kept leaves what is behind it.
LEMMA PassedOver ==
    ASSUME TypeOK, Agreement, NEW p \in Peer, Receive(p), ratchet' = ratchet
    PROVE  Agreement'
<1>1. /\ sent' = sent /\ \A q \in Peer : Flight(q)' \subseteq Flight(q)
    BY FlightAfterReceive
<1>2. \A q \in Peer : FlightFits(q) /\ UpcomingFits(q)
    BY DEF Agreement
<1>3. \A q \in Peer : FlightFits(q)'
    BY <1>1, <1>2 DEF FlightFits, Fits, Follows
<1>4. \A q \in Peer : UpcomingFits(q)'
    BY <1>1, <1>2 DEF UpcomingFits, Fits, Follows
<1>5. ASSUME Starting PROVE Starting'
    <2>1. Inviter \in Peer /\ Joiner \in Peer
        BY DEF Peer
    <2> QED BY <1>1, <1>5, <2>1 DEF Starting
<1>6. ASSUME NEW q \in Peer, Ahead(q) PROVE Ahead(q)'
    <2>1. Other(q) \in Peer
        BY FlightMessages
    <2> QED BY <1>1, <1>6, <2>1 DEF Ahead
<1>7. InStep'
    BY <1>5, <1>6 DEF Agreement, InStep
<1> QED BY <1>3, <1>4, <1>7 DEF Agreement

\* A text that is kept without a root step: only the receive counter moves.
LEMMA KeptInChain ==
    ASSUME TypeOK, Agreement, NEW p \in Peer, NEW a, NEW s,
           a = ratchet[p], s = ratchet'[p], sent' = sent,
           \A q \in Peer : q # p => ratchet'[q] = ratchet[q],
           \A q \in Peer : Flight(q)' \subseteq Flight(q),
           NEW k \in Flight(p), sent[Other(p)][k].kind = "text",
           s.root = a.root, s.dh_self = a.dh_self, s.pending = a.pending,
           s.dh_peer = sent[Other(p)][k].pub, a.dh_peer \in {NoKey, s.dh_peer}
    PROVE  InStep'
<1>1. /\ Other(p) \in Peer /\ Other(p) # p /\ Other(Other(p)) = p
      /\ \A r \in Peer : r # p => r = Other(p)
      /\ sent[Other(p)][k] \in Message
    BY FlightMessages
<1>2. ratchet'[Other(p)] = ratchet[Other(p)]
    BY <1>1
<1>3. s.dh_peer \in Key /\ s.dh_peer # NoKey
    BY <1>1, KeysAreNoNoKey DEF Message
<1>4. CASE Starting
    <2>1. Inviter \in Peer /\ Joiner \in Peer /\ Other(Inviter) = Joiner /\ Other(Joiner) = Inviter
        BY EndsDiffer DEF Peer, Other
    <2>2. p = Inviter
        <3>1. p # Joiner
            BY <1>4, <2>1 DEF Starting
        <3> QED BY <3>1 DEF Peer
    <2>3. s.dh_peer = ratchet[Joiner].dh_self
        BY <1>4, <2>1, <2>2 DEF Starting
    <2>4. Starting'
        BY <1>2, <1>4, <2>1, <2>2, <2>3 DEF Starting
    <2> QED BY <2>4 DEF InStep
<1>5. CASE Ahead(p)
    <2>1. a.dh_peer = ratchet[Other(p)].dh_self /\ a.dh_peer \in Key
        BY <1>1, <1>5 DEF Ahead, TypeOK, RatchetState
    <2>2. s.dh_peer = a.dh_peer
        BY <2>1, KeysAreNoNoKey
    <2>3. Ahead(p)'
        BY <1>1, <1>2, <1>5, <2>1, <2>2 DEF Ahead
    <2> QED BY <2>3 DEF InStep
<1>6. CASE Ahead(Other(p))
    <2>1. a.dh_peer # NoKey
        BY <1>1, <1>6 DEF Ahead
    <2>2. s.dh_peer = a.dh_peer
        BY <2>1
    <2>3. Ahead(Other(p))'
        BY <1>1, <1>2, <1>6, <2>2 DEF Ahead
    <2> QED BY <1>1, <2>3 DEF InStep
<1> QED BY <1>1, <1>4, <1>5, <1>6 DEF Agreement, InStep

\* A text with a key the ratchet has not met is of the peer that is ahead.
LEMMA StepsOnAhead ==
    ASSUME TypeOK, Agreement, NEW p \in Peer, NEW k \in Flight(p),
           sent[Other(p)][k].kind = "text", Steps(ratchet[p], sent[Other(p)][k].pub)
    PROVE  Ahead(Other(p)) /\ sent[Other(p)][k].pub = ratchet[Other(p)].dh_self
<1>1. /\ Other(p) \in Peer /\ Other(p) # p /\ Other(Other(p)) = p
      /\ \A r \in Peer : r # p => r = Other(p)
    BY FlightMessages
<1>2. ratchet[p].dh_peer \notin {NoKey, sent[Other(p)][k].pub}
    BY DEF Steps
<1>3. ~ Starting
    <2>1. Inviter \in Peer /\ Joiner \in Peer /\ Other(Inviter) = Joiner /\ Other(Joiner) = Inviter
        BY EndsDiffer DEF Peer, Other
    <2>2. CASE p = Inviter
        BY <1>2, <2>1, <2>2 DEF Starting
    <2>3. CASE p = Joiner
        BY <2>1, <2>3 DEF Starting
    <2> QED BY <2>2, <2>3 DEF Peer
<1>4. ~ Ahead(p)
    BY <1>2 DEF Ahead
<1>5. Ahead(Other(p))
    BY <1>1, <1>3, <1>4 DEF Agreement, InStep
<1> QED BY <1>1, <1>2, <1>5 DEF Ahead

\* The root step of p, on a key of its peer: what p sends next is of its own new key,
\* which its peer opens with the root step that follows.
LEMMA StepSends ==
    ASSUME TypeOK, KeyInv, NEW p \in Peer, NEW q \in Peer, p # q, NEW m \in Message,
           Ahead(q), m.pub = ratchet[q].dh_self, NEW s \in RatchetState,
           s.root = Mixed(Mixed(ratchet[p].root, ratchet[p].dh_self, m.pub), New(p), m.pub),
           s.send = DHChain(s.root), s.dh_self = New(p), s.send_n = 0
    PROVE  /\ Fits(ratchet[q], Upcoming(s))
           /\ s.root = Mixed(ratchet[q].root, ratchet[q].dh_self, s.dh_self)
           /\ ratchet[q].dh_peer \notin {NoKey, s.dh_self}
<1>1. Other(q) = p /\ ratchet[q] \in RatchetState /\ ratchet[p] \in RatchetState
    BY FlightMessages, NewTyped
<1>2. ratchet[q].dh_peer = ratchet[p].dh_self
      /\ ratchet[q].root = Mixed(ratchet[p].root, ratchet[p].dh_self, ratchet[q].dh_self)
    BY <1>1 DEF Ahead
<1>3. ratchet[q].dh_peer # New(p) /\ ratchet[q].dh_peer # NoKey
    BY <1>1, <1>2, NewIsNew, KeysAreNoNoKey DEF RatchetState
<1>4. s.root = Mixed(ratchet[q].root, New(p), m.pub)
    BY <1>2
<1>5. s.root = Mixed(ratchet[q].root, ratchet[q].dh_self, s.dh_self)
    BY <1>4, MixedEitherWay
<1>6. /\ Upcoming(s).pub = s.dh_self /\ Upcoming(s).key.chain = s.send
      /\ Upcoming(s).key.n = Upcoming(s).n
    BY EncryptedFields DEF Upcoming
<1> QED BY <1>3, <1>5, <1>6 DEF Fits

\* A text is kept.
LEMMA TextKept ==
    ASSUME TypeOK, KeyInv, Agreement, NEW p \in Peer, Receive(p),
           NextMessage(p).kind = "text",
           ratchet'[p] = Opened(ratchet[p], NextMessage(p), New(p))
    PROVE  Agreement'
<1> DEFINE q == Other(p)
           m == NextMessage(p)
           k == last_recv[p] + 1
           a == ratchet[p]
           s == ratchet'[p]
<1>1. /\ q \in Peer /\ q # p /\ Other(q) = p /\ \A r \in Peer : r # p => r = q
      /\ \A i \in Flight(p) : i \in Nat /\ sent[q][i] \in Message
      /\ \A i \in Flight(q) : i \in Nat /\ sent[p][i] \in Message
    BY FlightMessages
<1>2. /\ sent' = sent /\ k \in Flight(p) /\ Flight(q)' = Flight(q) /\ ratchet'[q] = ratchet[q]
      /\ \A i \in Flight(p)' : i \in Flight(p) /\ k < i
    BY <1>1, FlightAfterReceive
<1>3. m = sent[q][k] /\ m \in Message /\ a \in RatchetState /\ New(p) \in Key
    BY <1>1, <1>2, NewTyped DEF NextMessage
<1>4. Fits(a, m)
    BY <1>2, <1>3 DEF Agreement, FlightFits
<1>5. /\ \A x \in Message : Fits(a, x) /\ Follows(a, m, x) => Fits(s, x)
      /\ \A y, x \in Message : Follows(a, m, y) /\ Follows(a, y, x) => Follows(s, y, x)
    BY <1>3, <1>4, FitsAfterText
<1>6. /\ s \in RatchetState /\ s.dh_peer = m.pub /\ s.pending = a.pending
      /\ ~ Steps(a, m.pub) => /\ s.root = a.root /\ s.dh_self = a.dh_self
                              /\ s.send = a.send /\ s.send_n = a.send_n
      /\ Steps(a, m.pub) =>
           /\ s.root = Mixed(Mixed(a.root, a.dh_self, m.pub), New(p), m.pub)
           /\ s.send = DHChain(s.root) /\ s.dh_self = New(p) /\ s.send_n = 0
    BY <1>3, <1>4, OpenedFitting
<1>7. /\ \A i \in Flight(p) : Fits(a, sent[q][i])
      /\ \A i, j \in Flight(p) : i < j /\ sent[q][i].kind = "text" => Follows(a, sent[q][i], sent[q][j])
      /\ FlightFits(q) /\ UpcomingFits(q)
    BY <1>1 DEF Agreement, FlightFits
<1>8. ratchet[q].pending = NoKey =>
        /\ Fits(a, Upcoming(ratchet[q]))
        /\ \A i \in Flight(p) : sent[q][i].kind = "text" => Follows(a, sent[q][i], Upcoming(ratchet[q]))
    BY DEF Agreement, UpcomingFits
<1>9. ratchet[q] \in RatchetState /\ Upcoming(ratchet[q]) \in Message
    BY <1>1, NewTyped, EncryptedFields DEF Upcoming
<1> HIDE DEF q, m, k, a, s
<1>t. \A j \in Flight(p) : k < j => Follows(a, m, sent[q][j])
    <2>1. sent[q][k] = m /\ m.kind = "text" /\ k \in Flight(p)
        BY <1>2, <1>3 DEF m
    <2> QED BY <1>7, <2>1
<1>10. \A i \in Flight(p)' : Follows(a, m, sent[q][i])
    BY <1>2, <1>t
<1>11. FlightFits(p)'
    <2>1. \A i \in Flight(p)' : Fits(s, sent[q][i])
        BY <1>1, <1>2, <1>5, <1>7, <1>10
    <2>2. \A i, j \in Flight(p)' : i < j /\ sent[q][i].kind = "text" =>
            Follows(s, sent[q][i], sent[q][j])
        BY <1>1, <1>2, <1>5, <1>7, <1>10
    <2> QED BY <1>2, <2>1, <2>2 DEF FlightFits, Fits, Follows, q, s
<1>12. FlightFits(q)'
    BY <1>1, <1>2, <1>7 DEF FlightFits, Fits, Follows
<1>13. UpcomingFits(p)'
    <2> DEFINE u == Upcoming(ratchet[q])
    <2>u. u \in Message
        BY <1>9
    <2> HIDE DEF u
    <2>1. ASSUME ratchet[q].pending = NoKey
          PROVE  /\ Fits(s, u)
                 /\ \A i \in Flight(p)' : sent[q][i].kind = "text" => Follows(s, sent[q][i], u)
        <3>1. /\ Fits(a, u)
              /\ \A i \in Flight(p) : sent[q][i].kind = "text" => Follows(a, sent[q][i], u)
            BY <1>8, <2>1 DEF u
        <3>2. Follows(a, m, u)
            <4>1. sent[q][k] = m /\ m.kind = "text" /\ k \in Flight(p)
                BY <1>2, <1>3 DEF m
            <4> QED BY <3>1, <4>1
        <3>3. Fits(s, u)
            BY <1>5, <2>u, <3>1, <3>2
        <3>4. ASSUME NEW i \in Flight(p)', sent[q][i].kind = "text"
              PROVE  Follows(s, sent[q][i], u)
            <4>1. i \in Flight(p) /\ sent[q][i] \in Message
                BY <1>1, <1>2
            <4>2. Follows(a, m, sent[q][i]) /\ Follows(a, sent[q][i], u)
                BY <1>10, <3>1, <3>4, <4>1
            <4> QED BY <1>5, <2>u, <4>1, <4>2
        <3> QED BY <3>3, <3>4
    <2> QED BY <1>2, <2>1 DEF u, UpcomingFits, Fits, Follows, Upcoming, Encrypted, q, s
<1>14. CASE ~ Steps(a, m.pub)
    <2>1. Upcoming(s) = Upcoming(a)
        BY <1>6, <1>14 DEF Upcoming, Encrypted
    <2>2. a.pending = NoKey =>
            /\ Fits(ratchet[q], Upcoming(a))
            /\ \A i \in Flight(q) : sent[p][i].kind = "text" => Follows(ratchet[q], sent[p][i], Upcoming(a))
        BY <1>1, <1>7 DEF UpcomingFits, a
    <2>3. UpcomingFits(q)'
        BY <1>1, <1>2, <1>6, <2>1, <2>2 DEF UpcomingFits, Fits, Follows, Upcoming, Encrypted, s
    <2>4. a.dh_peer \in {NoKey, s.dh_peer}
        BY <1>6, <1>14 DEF Steps
    <2>5. \A r \in Peer : r # p => ratchet'[r] = ratchet[r]
        BY <1>1, <1>2
    <2>6. \A r \in Peer : Flight(r)' \subseteq Flight(r)
        BY <1>1, <1>2
    <2>7. sent[Other(p)][k].kind = "text" /\ s.dh_peer = sent[Other(p)][k].pub
        BY <1>3, <1>6 DEF q, m
    <2>8. InStep'
        BY <1>2, <1>6, <1>14, <2>4, <2>5, <2>6, <2>7, KeptInChain DEF a, s
    <2> QED BY <1>1, <1>11, <1>12, <1>13, <2>3, <2>8 DEF Agreement
<1>15. CASE Steps(a, m.pub)
    <2>1. Ahead(q) /\ m.pub = ratchet[q].dh_self
        BY <1>2, <1>3, <1>15, StepsOnAhead DEF a, q, m
    <2>2. /\ Fits(ratchet[q], Upcoming(s))
          /\ s.root = Mixed(ratchet[q].root, ratchet[q].dh_self, s.dh_self)
          /\ ratchet[q].dh_peer \notin {NoKey, s.dh_self}
        BY <1>1, <1>3, <1>6, <1>15, <2>1, StepSends DEF a
    <2>3. \A i \in Flight(q) : sent[p][i].pub = ratchet[q].dh_peer
        BY <1>1, <2>1 DEF Ahead
    <2>4. Upcoming(s).pub = s.dh_self
        BY DEF Upcoming, Encrypted
    <2>5. \A i \in Flight(q) : Follows(ratchet[q], sent[p][i], Upcoming(s))
        BY <2>2, <2>3, <2>4 DEF Follows
    <2>6. UpcomingFits(q)'
        BY <1>1, <1>2, <2>2, <2>5 DEF UpcomingFits, Fits, Follows, Upcoming, Encrypted, s
    <2>7. \A i \in Flight(p)' : sent[q][i].pub = m.pub
        <3>1. m.pub # a.dh_peer
            BY <1>15 DEF Steps
        <3> QED BY <1>10, <3>1 DEF Follows
    <2>8. s.pending = NoKey /\ ratchet[q].pending = NoKey
        BY <1>1, <1>6, <2>1 DEF Ahead, a
    <2>9. Ahead(p)'
        BY <1>1, <1>2, <1>6, <2>1, <2>2, <2>3, <2>7, <2>8 DEF Ahead, q, s
    <2> QED BY <1>1, <1>11, <1>12, <1>13, <2>6, <2>9 DEF Agreement, InStep
<1> QED BY <1>14, <1>15

\* Receiving keeps the agreement, if only texts are kept.
LEMMA ReceiveAgrees ==
    ASSUME Restoring = Peer, TypeOK, KeyInv, Agreement, NEW p \in Peer, Receive(p)
    PROVE  Agreement'
<1>1. /\ \A q \in Peer : q # p => ratchet'[q] = ratchet[q]
      /\ ratchet'[p] = IF Keeps(p, NextMessage(p).kind)
                       THEN Opened(ratchet[p], NextMessage(p), New(p)) ELSE ratchet[p]
    BY FlightAfterReceive
<1>2. CASE NextMessage(p).kind = "text"
    BY <1>1, <1>2, TextKept DEF Keeps
<1>3. CASE NextMessage(p).kind # "text"
    <2>1. \A q \in Peer : ratchet'[q] = ratchet[q]
        BY <1>1, <1>3 DEF Keeps
    <2>2. ratchet \in [Peer -> RatchetState] /\ ratchet' \in [Peer -> RatchetState]
        BY ReceiveTyped DEF TypeOK
    <2>3. ratchet' = ratchet
        BY <2>1, <2>2
    <2> QED BY <2>3, PassedOver
<1> QED BY <1>2, <1>3

\* p sends: the message is the last on its way to the peer.
LEMMA FlightAfterSend ==
    ASSUME TypeOK, NEW p \in Peer, NEW kind \in {"text", "receipt", "aux"}, Send(p, kind)
    PROVE  LET q == Other(p)
               m == Encrypted(kind, Sending(ratchet[p], New(p)))
           IN  /\ Flight(p)' = Flight(p) /\ sent'[q] = sent[q] /\ ratchet'[q] = ratchet[q]
               /\ \A i \in Flight(q) : sent'[p][i] = sent[p][i] /\ i # Len(sent[p]) + 1
               /\ \A i \in Flight(q)' : i \in Flight(q) \/ (i = Len(sent[p]) + 1 /\ sent'[p][i] = m)
               /\ \A i \in Flight(q) : i < Len(sent[p]) + 1
<1> DEFINE q == Other(p)
           m == Encrypted(kind, Sending(ratchet[p], New(p)))
<1>1. /\ sent' = [sent EXCEPT ![p] = Append(@, m)] /\ last_recv' = last_recv
      /\ \E s : ratchet' = [ratchet EXCEPT ![p] = s]
    BY DEF Send
<1>2. /\ q \in Peer /\ q # p /\ Other(q) = p
    BY FlightMessages
<1>3. m \in Message /\ sent[p] \in Seq(Message) /\ last_recv[q] \in Nat
    BY <1>2, SendingTyped, NewTyped
<1> HIDE DEF q, m
<1>4. /\ sent'[p] = Append(sent[p], m) /\ sent'[q] = sent[q] /\ ratchet'[q] = ratchet[q]
    BY <1>1, <1>2 DEF TypeOK
<1>5. /\ Len(sent'[p]) = Len(sent[p]) + 1 /\ Len(sent[p]) \in Nat
      /\ sent'[p][Len(sent[p]) + 1] = m
      /\ \A i \in 1 .. Len(sent[p]) : sent'[p][i] = sent[p][i]
    BY <1>3, <1>4
<1>6. /\ Flight(q) = last_recv[q] + 1 .. Len(sent[p])
      /\ Flight(q)' = last_recv[q] + 1 .. Len(sent'[p])
    BY <1>1, <1>2 DEF Flight
<1>7. Flight(p)' = Flight(p)
    BY <1>1, <1>4 DEF Flight, q
<1>8. \A i \in Flight(q) : i \in 1 .. Len(sent[p]) /\ i < Len(sent[p]) + 1
    BY <1>3, <1>5, <1>6
<1>9. \A i \in Flight(q)' : i \in Flight(q) \/ i = Len(sent[p]) + 1
    BY <1>3, <1>5, <1>6
<1> QED BY <1>4, <1>5, <1>7, <1>8, <1>9 DEF q, m

\* A message that fits behind the others, and a ratchet that opens what the old one did.
LEMMA SentFits ==
    ASSUME TypeOK, Agreement, NEW p \in Peer, NEW kind \in {"text", "receipt", "aux"},
           Send(p, kind),
           Fits(ratchet[Other(p)], Encrypted(kind, Sending(ratchet[p], New(p)))),
           \A i \in Flight(Other(p)) : sent[p][i].kind = "text" =>
             Follows(ratchet[Other(p)], sent[p][i], Encrypted(kind, Sending(ratchet[p], New(p)))),
           \A i \in Flight(p) : Fits(ratchet'[p], sent[Other(p)][i]),
           \A i, j \in Flight(p) : i < j /\ sent[Other(p)][i].kind = "text" =>
             Follows(ratchet'[p], sent[Other(p)][i], sent[Other(p)][j])
    PROVE  FlightFits(Other(p))' /\ FlightFits(p)'
<1> DEFINE q == Other(p)
           m == Encrypted(kind, Sending(ratchet[p], New(p)))
<1>1. /\ q \in Peer /\ q # p /\ Other(q) = p
      /\ \A i \in Flight(q) : i \in Nat
    BY FlightMessages
<1>2. /\ Flight(p)' = Flight(p) /\ sent'[q] = sent[q] /\ ratchet'[q] = ratchet[q]
      /\ \A i \in Flight(q) : sent'[p][i] = sent[p][i] /\ i # Len(sent[p]) + 1
      /\ \A i \in Flight(q)' : i \in Flight(q) \/ (i = Len(sent[p]) + 1 /\ sent'[p][i] = m)
      /\ \A i \in Flight(q) : i < Len(sent[p]) + 1
    BY FlightAfterSend
<1>3. /\ \A i \in Flight(q) : Fits(ratchet[q], sent[p][i])
      /\ \A i, j \in Flight(q) : i < j /\ sent[p][i].kind = "text" =>
           Follows(ratchet[q], sent[p][i], sent[p][j])
    BY <1>1 DEF Agreement, FlightFits
<1>4. /\ Fits(ratchet[q], m)
      /\ \A i \in Flight(q) : sent[p][i].kind = "text" => Follows(ratchet[q], sent[p][i], m)
    OBVIOUS
<1>l. Len(sent[p]) \in Nat
    BY NewTyped
<1> HIDE DEF m
<1>5. \A i \in Flight(q)' : Fits(ratchet[q], sent'[p][i])
    BY <1>2, <1>3, <1>4
<1>6. ASSUME NEW i \in Flight(q)', NEW j \in Flight(q)', i < j, sent'[p][i].kind = "text"
      PROVE  Follows(ratchet[q], sent'[p][i], sent'[p][j])
    <2>1. i \in Flight(q)
        <3>1. CASE i = Len(sent[p]) + 1 /\ j \in Flight(q)
            BY <1>1, <1>2, <1>6, <1>l, <3>1
        <3>2. CASE i = Len(sent[p]) + 1 /\ j = Len(sent[p]) + 1
            BY <1>6, <1>l, <3>2
        <3> QED BY <1>2, <3>1, <3>2
    <2> QED BY <1>2, <1>3, <1>4, <1>6, <2>1
<1>7. FlightFits(q)'
    BY <1>1, <1>2, <1>5, <1>6 DEF FlightFits, Fits, Follows
<1>8. FlightFits(p)'
    BY <1>2 DEF FlightFits, Fits, Follows
<1> QED BY <1>7, <1>8

\* A peer that has begun sends on its chain.
LEMMA SendInChain ==
    ASSUME TypeOK, Agreement, NEW p \in Peer, NEW kind \in {"text", "receipt", "aux"},
           Send(p, kind), ratchet[p].pending = NoKey
    PROVE  Agreement'
<1> DEFINE q == Other(p)
           a == ratchet[p]
           s == ratchet'[p]
           m == Encrypted(kind, a)
<1>1. /\ q \in Peer /\ q # p /\ Other(q) = p /\ \A r \in Peer : r # p => r = q
      /\ a \in RatchetState /\ a.send_n \in Nat
    BY FlightMessages, NewTyped DEF RatchetState
<1>2. Sending(a, New(p)) = a
    BY DEF Sending
<1>3. s = IF Advances(kind) THEN [a EXCEPT !.send_n = @ + 1] ELSE a
    BY <1>2 DEF Send, TypeOK
<1>4. /\ s.root = a.root /\ s.dh_self = a.dh_self /\ s.dh_peer = a.dh_peer /\ s.send = a.send
      /\ s.recv = a.recv /\ s.recv_n = a.recv_n /\ s.pending = a.pending
      /\ s.send_n = a.send_n + 1 \/ (s.send_n = a.send_n /\ kind # "text")
      /\ s.send_n \in Nat /\ s.send_n >= a.send_n
    BY <1>1, <1>3 DEF Advances, RatchetState
<1>5. /\ Flight(p)' = Flight(p) /\ sent'[q] = sent[q] /\ ratchet'[q] = ratchet[q]
      /\ \A i \in Flight(q) : sent'[p][i] = sent[p][i]
      /\ \A i \in Flight(q)' : i \in Flight(q) \/ sent'[p][i] = m
    BY <1>2, FlightAfterSend
<1>6. /\ Fits(ratchet[q], Upcoming(a))
      /\ \A i \in Flight(q) : sent[p][i].kind = "text" => Follows(ratchet[q], sent[p][i], Upcoming(a))
    BY <1>1 DEF Agreement, UpcomingFits
<1>7. /\ Fits(ratchet[q], m)
      /\ \A i \in Flight(q) : sent[p][i].kind = "text" => Follows(ratchet[q], sent[p][i], m)
    BY <1>1, <1>6, AnyKindFits
<1>8. /\ \A i \in Flight(p) : Fits(a, sent[q][i])
      /\ \A i, j \in Flight(p) : i < j /\ sent[q][i].kind = "text" => Follows(a, sent[q][i], sent[q][j])
      /\ ratchet[q].pending = NoKey =>
           /\ Fits(a, Upcoming(ratchet[q]))
           /\ \A i \in Flight(p) : sent[q][i].kind = "text" => Follows(a, sent[q][i], Upcoming(ratchet[q]))
    BY <1>1 DEF Agreement, FlightFits, UpcomingFits
<1>f. m.kind = kind /\ m.pub = a.dh_self /\ m.n = a.send_n /\ m.key.chain = a.send
      /\ m.key.n = a.send_n
    BY <1>1, EncryptedFields
<1>u. /\ Upcoming(s).pub = s.dh_self /\ Upcoming(s).n = s.send_n /\ Upcoming(s).key.chain = s.send
      /\ Upcoming(s).key.n = s.send_n
      /\ Upcoming(a).pub = a.dh_self /\ Upcoming(a).n = a.send_n /\ Upcoming(a).key.chain = a.send
      /\ Upcoming(a).key.n = a.send_n
    BY DEF Upcoming, Encrypted
<1>m. \A i \in Flight(q) : sent[p][i].n \in Nat
    BY <1>1, FlightMessages DEF Message
<1>n. ratchet[q].recv_n \in Nat
    BY <1>1, NewTyped DEF RatchetState
<1> HIDE DEF q, a, s, m
<1>9. /\ \A x : Fits(a, x) => Fits(s, x)
      /\ \A x, y : Follows(a, x, y) => Follows(s, x, y)
    BY <1>4, SendingOpensAsBefore
<1>10. FlightFits(q)' /\ FlightFits(p)'
    BY <1>2, <1>7, <1>8, <1>9, SentFits DEF q, a, s, m
<1>11. UpcomingFits(p)'
    <2>1. ratchet[q].pending = NoKey =>
            /\ Fits(s, Upcoming(ratchet[q]))
            /\ \A i \in Flight(p) : sent[q][i].kind = "text" => Follows(s, sent[q][i], Upcoming(ratchet[q]))
        BY <1>8, <1>9
    <2> QED BY <1>5, <2>1 DEF UpcomingFits, Fits, Follows, Upcoming, Encrypted, q, s
<1>12. UpcomingFits(q)'
    <2>1. Fits(ratchet[q], Upcoming(s))
        BY <1>1, <1>4, <1>6, <1>n, <1>u DEF Fits
    <2>2. \A i \in Flight(q) : sent[p][i].kind = "text" => Follows(ratchet[q], sent[p][i], Upcoming(s))
        BY <1>1, <1>4, <1>6, <1>m, <1>u DEF Follows
    <2>3. kind = "text" => Follows(ratchet[q], m, Upcoming(s))
        BY <1>1, <1>4, <1>f, <1>u DEF Follows
    <2>4. \A i \in Flight(q)' : sent'[p][i].kind = "text" => Follows(ratchet[q], sent'[p][i], Upcoming(s))
        BY <1>5, <1>f, <2>2, <2>3
    <2> QED BY <1>1, <1>5, <2>1, <2>4 DEF UpcomingFits, Fits, Follows, Upcoming, Encrypted, s
<1>13. InStep'
    <2>1. CASE Starting
        <3>1. Inviter \in Peer /\ Joiner \in Peer /\ Other(Inviter) = Joiner /\ Other(Joiner) = Inviter
            BY EndsDiffer DEF Peer, Other
        <3>2. p = Joiner /\ q = Inviter
            <4>1. ratchet[Inviter].pending \in Key
                BY <2>1, <3>1, NewTyped DEF Starting, RatchetState
            <4>2. p # Inviter
                BY <4>1, KeysAreNoNoKey
            <4> QED BY <3>1, <4>2 DEF Peer, q
        <3>3. Starting'
            BY <1>4, <1>5, <1>f, <2>1, <3>1, <3>2 DEF Starting, a, s
        <3> QED BY <3>3 DEF InStep
    <2>2. CASE Ahead(p)
        <3>1. Ahead(p)'
            BY <1>4, <1>5, <1>f, <2>2 DEF Ahead, q, a, s
        <3> QED BY <3>1 DEF InStep
    <2>3. CASE Ahead(q)
        <3>1. Ahead(q)'
            BY <1>1, <1>4, <1>5, <1>f, <2>3 DEF Ahead, a, s
        <3> QED BY <1>1, <3>1 DEF InStep
    <2> QED BY <1>1, <2>1, <2>2, <2>3 DEF Agreement, InStep
<1> QED BY <1>1, <1>10, <1>11, <1>12, <1>13 DEF Agreement

\* Of the two ends only the inviter has yet to begin, until its first text or push.
LEMMA OnlyInviterPends ==
    ASSUME TypeOK, Agreement, NEW p \in Peer, ratchet[p].pending # NoKey
    PROVE  Starting /\ p = Inviter /\ Other(p) = Joiner
<1>1. Inviter \in Peer /\ Joiner \in Peer /\ Other(Inviter) = Joiner
    BY EndsDiffer DEF Peer, Other
<1>2. /\ Other(p) \in Peer /\ Other(p) # p /\ Other(Other(p)) = p
      /\ \A r \in Peer : r # p => r = Other(p)
    BY FlightMessages
<1>3. ~ Ahead(p) /\ ~ Ahead(Other(p))
    BY <1>2 DEF Ahead
<1>4. \A r \in Peer : ~ Ahead(r)
    BY <1>2, <1>3
<1>5. Starting
    BY <1>4 DEF Agreement, InStep
<1>6. p # Joiner
    BY <1>5 DEF Starting
<1> QED BY <1>1, <1>5, <1>6 DEF Peer

\* The pairing's first send of the inviter is the root step that the joiner,
\* which already has the receive step, takes when it opens it.
LEMMA FirstMessage ==
    ASSUME TypeOK, KeyInv, NEW a \in RatchetState, NEW b \in RatchetState,
           a = ratchet[Inviter], b = ratchet[Joiner], a.pending # NoKey, Starting,
           NEW kind \in {"text", "receipt", "aux"}
    PROVE  LET r == PairingSendInit(a, New(Inviter))
               m == Encrypted(kind, r)
           IN  /\ r \in RatchetState /\ r.pending = NoKey /\ r.dh_self = New(Inviter)
               /\ r.dh_peer = b.dh_self /\ r.recv = a.recv /\ r.recv_n = a.recv_n
               /\ r.root = Mixed(b.root, b.dh_self, r.dh_self)
               /\ b.dh_peer \notin {NoKey, r.dh_self}
               /\ Fits(b, m)
               /\ m.kind = kind /\ m.pub = r.dh_self /\ m.n = 0 /\ r.send_n = 0
               /\ m.key.chain = r.send
<1> DEFINE r == PairingSendInit(a, New(Inviter))
           m == Encrypted(kind, r)
<1>1. Inviter \in Peer /\ Joiner \in Peer /\ New(Inviter) \in Key
    BY NewTyped DEF Peer
<1>2. /\ r \in RatchetState /\ r.pending = NoKey /\ r.dh_self = New(Inviter)
      /\ r.dh_peer = a.pending /\ r.recv = a.recv /\ r.recv_n = a.recv_n /\ r.send_n = 0
      /\ r.root = Mixed(Mixed(a.root, a.dh_self, a.pending), New(Inviter), a.pending)
      /\ r.send = DHChain(r.root)
    BY <1>1, SendInitTyped
<1> HIDE DEF r
<1>3. a.pending = b.dh_self /\ b.root = Mixed(a.root, a.dh_self, b.dh_self) /\ b.dh_peer # NoKey
    BY DEF Starting
<1>4. r.root = Mixed(b.root, r.dh_self, b.dh_self)
    BY <1>2, <1>3
<1>5. r.root = Mixed(b.root, b.dh_self, r.dh_self)
    BY <1>4, MixedEitherWay
<1>6. b.dh_peer \notin {NoKey, r.dh_self}
    BY <1>1, <1>2, <1>3, NewIsNew
<1>7. /\ m.kind = kind /\ m.pub = r.dh_self /\ m.n = 0 /\ m.key.chain = r.send /\ m.key.n = 0
    BY <1>2, EncryptedFields
<1> HIDE DEF m
<1>8. Fits(b, m)
    BY <1>2, <1>5, <1>6, <1>7 DEF Fits
<1> QED BY <1>2, <1>3, <1>5, <1>6, <1>7, <1>8 DEF r, m

\* The inviter begins.
LEMMA SendFirst ==
    ASSUME TypeOK, KeyInv, Agreement, NEW p \in Peer, NEW kind \in {"text", "receipt", "aux"},
           Send(p, kind), ratchet[p].pending # NoKey
    PROVE  Agreement'
<1> DEFINE q == Other(p)
           a == ratchet[p]
           b == ratchet[q]
           r == PairingSendInit(a, New(p))
           s == ratchet'[p]
           m == Encrypted(kind, r)
<1>1. /\ q \in Peer /\ q # p /\ Other(q) = p /\ \A x \in Peer : x # p => x = q
      /\ a \in RatchetState /\ b \in RatchetState
    BY FlightMessages, NewTyped
<1>2. Starting /\ p = Inviter /\ q = Joiner
    BY OnlyInviterPends
<1>3. Sending(a, New(p)) = r
    BY DEF Sending
<1>4. s = IF Advances(kind) THEN [r EXCEPT !.send_n = @ + 1] ELSE a
    BY <1>3 DEF Send, TypeOK
<1>5. /\ r \in RatchetState /\ r.pending = NoKey /\ r.dh_peer = b.dh_self
      /\ r.recv = a.recv /\ r.recv_n = a.recv_n
      /\ r.root = Mixed(b.root, b.dh_self, r.dh_self)
      /\ b.dh_peer \notin {NoKey, r.dh_self} /\ r.send_n = 0 /\ Fits(b, m)
      /\ m.kind = kind /\ m.pub = r.dh_self /\ m.n = 0 /\ m.key.chain = r.send
    BY <1>1, <1>2, FirstMessage
<1>6. /\ Flight(p)' = Flight(p) /\ sent'[q] = sent[q] /\ ratchet'[q] = b
      /\ \A i \in Flight(q) : sent'[p][i] = sent[p][i]
      /\ \A i \in Flight(q)' : i \in Flight(q) \/ sent'[p][i] = m
    BY <1>3, FlightAfterSend
<1>7. /\ a.dh_peer \in {NoKey, b.dh_self} /\ b.pending = NoKey
      /\ \A i \in Flight(p) : sent[q][i].pub = b.dh_self
      /\ \A i \in Flight(q) : sent[p][i].kind # "text"
    BY <1>2 DEF Starting
<1>8. /\ \A i \in Flight(p) : Fits(a, sent[q][i])
      /\ \A i, j \in Flight(p) : i < j /\ sent[q][i].kind = "text" => Follows(a, sent[q][i], sent[q][j])
      /\ Fits(a, Upcoming(b))
      /\ \A i \in Flight(p) : sent[q][i].kind = "text" => Follows(a, sent[q][i], Upcoming(b))
    BY <1>1, <1>7 DEF Agreement, FlightFits, UpcomingFits
<1>9. Upcoming(b).pub = b.dh_self
    BY DEF Upcoming, Encrypted
<1>10. /\ Fits(ratchet[Other(p)], Encrypted(kind, Sending(ratchet[p], New(p))))
       /\ \A i \in Flight(Other(p)) : sent[p][i].kind = "text" =>
            Follows(ratchet[Other(p)], sent[p][i], Encrypted(kind, Sending(ratchet[p], New(p))))
    BY <1>3, <1>5, <1>7
<1>11. CASE ~ Advances(kind)
    <2>1. s = a /\ kind # "text"
        BY <1>4, <1>11 DEF Advances
    <2>2. FlightFits(q)' /\ FlightFits(p)'
        BY <1>8, <1>10, <2>1, SentFits DEF a, q, s
    <2>3. UpcomingFits(p)'
        BY <1>6, <1>8, <2>1 DEF UpcomingFits, Fits, Follows, Upcoming, Encrypted, q, a, s
    <2>4. UpcomingFits(q)'
        BY <1>1, <2>1 DEF UpcomingFits, a, s
    <2>5. Starting'
        BY <1>2, <1>5, <1>6, <2>1 DEF Starting, a, s
    <2> QED BY <1>1, <2>2, <2>3, <2>4, <2>5 DEF Agreement, InStep
<1>12. CASE Advances(kind)
    <2>1. /\ s.root = r.root /\ s.dh_self = r.dh_self /\ s.dh_peer = b.dh_self /\ s.send = r.send
          /\ s.recv = a.recv /\ s.recv_n = a.recv_n /\ s.pending = NoKey /\ s.send_n = 1
        BY <1>4, <1>5, <1>12 DEF RatchetState
    <2> HIDE DEF a, b, r, s, m, q
    <2>2. \A x : Fits(a, x) /\ x.pub = b.dh_self => Fits(s, x)
        BY <1>7, <2>1 DEF Fits
    <2>3. \A x, y : Follows(a, x, y) /\ x.pub = b.dh_self /\ y.pub = b.dh_self => Follows(s, x, y)
        BY DEF Follows
    <2>4. /\ \A i \in Flight(p) : Fits(s, sent[q][i])
          /\ \A i, j \in Flight(p) : i < j /\ sent[q][i].kind = "text" => Follows(s, sent[q][i], sent[q][j])
        BY <1>7, <1>8, <2>2, <2>3
    <2>5. FlightFits(q)' /\ FlightFits(p)'
        BY <1>10, <2>4, SentFits DEF q, s
    <2>6. UpcomingFits(p)'
        <3>1. /\ Fits(s, Upcoming(b))
              /\ \A i \in Flight(p) : sent[q][i].kind = "text" => Follows(s, sent[q][i], Upcoming(b))
            BY <1>7, <1>8, <1>9, <2>2, <2>3
        <3> QED BY <1>6, <3>1 DEF UpcomingFits, Fits, Follows, Upcoming, Encrypted, q, s
    <2>7. UpcomingFits(q)'
        <3>1. /\ Upcoming(s).pub = r.dh_self /\ Upcoming(s).n = 1 /\ Upcoming(s).key.chain = r.send
              /\ Upcoming(s).key.n = 1
            BY <2>1 DEF Upcoming, Encrypted
        <3>2. Fits(b, Upcoming(s))
            BY <1>5, <3>1 DEF Fits
        <3>3. Follows(b, m, Upcoming(s))
            BY <1>5, <3>1 DEF Follows
        <3>4. \A i \in Flight(q)' : sent'[p][i].kind = "text" => Follows(b, sent'[p][i], Upcoming(s))
            BY <1>6, <1>7, <3>3
        <3> QED BY <1>1, <1>6, <3>2, <3>4 DEF UpcomingFits, Fits, Follows, Upcoming, Encrypted, s, b
    <2>8. Ahead(p)'
        BY <1>5, <1>6, <1>7, <2>1 DEF Ahead, q, s, b
    <2> QED BY <1>1, <2>5, <2>6, <2>7, <2>8 DEF Agreement, InStep
<1> QED BY <1>11, <1>12

LEMMA AgreementStep ==
    ASSUME Restoring = Peer
    PROVE  TypeOK /\ KeyInv /\ Agreement /\ [Next]_vars => Agreement'
<1> SUFFICES ASSUME TypeOK, KeyInv, Agreement, [Next]_vars PROVE Agreement'
    OBVIOUS
<1>1. ASSUME NEW p \in Peer, SendText(p) \/ SendReceipt(p) \/ SendAux(p) PROVE Agreement'
    <2>1. PICK kind \in {"text", "receipt", "aux"} : Send(p, kind)
        BY <1>1 DEF SendText, SendReceipt, SendAux
    <2> QED BY <2>1, SendFirst, SendInChain
<1>2. ASSUME NEW p \in Peer, Receive(p) PROVE Agreement'
    BY <1>2, ReceiveAgrees
<1>3. CASE UNCHANGED vars
    <2>1. ratchet' = ratchet /\ sent' = sent /\ last_recv' = last_recv
        BY <1>3 DEF vars
    <2>2. \A q \in Peer : Flight(q)' = Flight(q)
        BY <2>1 DEF Flight
    <2>3. InStep'
        <3>1. Starting => Starting'
            BY <2>1, <2>2 DEF Starting, Peer
        <3>2. \A q \in Peer : Ahead(q) => Ahead(q)'
            BY <2>1, <2>2, FlightMessages DEF Ahead
        <3> QED BY <3>1, <3>2 DEF Agreement, InStep
    <2>4. \A q \in Peer : FlightFits(q)'
        BY <2>1, <2>2 DEF Agreement, FlightFits, Fits, Follows
    <2>5. \A q \in Peer : UpcomingFits(q)'
        BY <2>1, <2>2 DEF Agreement, UpcomingFits, Fits, Follows, Upcoming, Encrypted
    <2> QED BY <2>3, <2>4, <2>5 DEF Agreement
<1> QED BY <1>1, <1>2, <1>3 DEF Next

LEMMA AgreementInit == Init => Agreement
<1> SUFFICES ASSUME Init PROVE Agreement
    OBVIOUS
<1>1. /\ Inviter \in Peer /\ Joiner \in Peer /\ Inviter # Joiner
      /\ Other(Inviter) = Joiner /\ Other(Joiner) = Inviter
      /\ \A p \in Peer : p = Inviter \/ p = Joiner
    BY EndsDiffer DEF Peer, Other
<1>2. ratchet[Inviter] = InviterStart /\ ratchet[Joiner] = JoinerStart
    BY <1>1 DEF Init
<1>3. \A p \in Peer : Flight(p) = {}
    <2> SUFFICES ASSUME NEW p \in Peer PROVE Flight(p) = {}
        OBVIOUS
    <2>1. Other(p) \in Peer
        BY <1>1
    <2>2. last_recv[p] = 0 /\ sent[Other(p)] = <<>>
        BY <2>1 DEF Init
    <2> QED BY <2>2 DEF Flight
<1>4. Pair(Inviter, 0) # NoKey /\ Pair(Joiner, 0) # NoKey
    BY <1>1, KeysAreNoNoKey DEF Pair, Key
<1>5. Starting
    <2>1. /\ InviterStart.pending = JoinerStart.dh_self /\ InviterStart.dh_peer = NoKey
          /\ JoinerStart.pending = NoKey /\ JoinerStart.dh_peer # NoKey
        BY <1>4 DEF InviterStart, JoinerStart
    <2>2. JoinerStart.root = Mixed(<<>>, Pair(Joiner, 0), Pair(Inviter, 0))
          /\ InviterStart.root = <<>> /\ InviterStart.dh_self = Pair(Inviter, 0)
          /\ JoinerStart.dh_self = Pair(Joiner, 0)
        BY DEF InviterStart, JoinerStart
    <2>3. JoinerStart.root = Mixed(InviterStart.root, InviterStart.dh_self, JoinerStart.dh_self)
        BY <2>2, MixedEitherWay
    <2> QED BY <1>1, <1>2, <1>3, <2>1, <2>3 DEF Starting
<1>6. \A p \in Peer : FlightFits(p)
    BY <1>3 DEF FlightFits
<1>7. UpcomingFits(Inviter)
    <2>1. Fits(InviterStart, Upcoming(JoinerStart))
        BY DEF Fits, Upcoming, Encrypted, InviterStart, JoinerStart
    <2> QED BY <1>1, <1>2, <1>3, <2>1 DEF UpcomingFits
<1>8. UpcomingFits(Joiner)
    <2>1. InviterStart.pending # NoKey
        BY <1>4 DEF InviterStart
    <2> QED BY <1>1, <1>2, <2>1 DEF UpcomingFits
<1> QED BY <1>1, <1>5, <1>6, <1>7, <1>8 DEF Agreement, InStep

\* Between two peers that both fetch with decrypt_inbound the ratchets never part:
\* the next message of either opens unless the skipped-key limits alone refuse it,
\* for every value of the limits and any number of texts, receipts and pushes that
\* cross.  With decrypt_outer on one end it fails (run ratchet_mobile).
THEOREM OnlyLimitsRefuseMessages ==
    ASSUME Restoring = Peer
    PROVE  Spec => []OnlyLimitsRefuse
BY AgreementInit, AgreementStep, AgreementOpens, KeyInit, KeyStep, TypesAtInit, TypesKept, PTL
   DEF Spec
=============================================================================
