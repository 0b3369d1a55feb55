-------------------------- MODULE DirectoryProofs --------------------------
(***************************************************************************)
(* Proofs about Directory for every set of peers and every value of the    *)
(* bounds: the types, that the names a sender keeps of the profile it      *)
(* paired with are gate enough for its fallback relays, and that a peer    *)
(* polls its own relay.                                                    *)
(***************************************************************************)
EXTENDS Directory, TLAPS

-----------------------------------------------------------------------------
(* The lists of addresses name peers. *)

OfPeers(urls) == \A u \in urls : u[1] \in Peer

\* A relay that takes a letter is one of those it was offered to.
LEMMA TakersArePeers ==
    ASSUME NEW tiers, \A i \in DOMAIN tiers : OfPeers(tiers[i])
    PROVE  TakenBy(tiers) \subseteq Peer
BY DEF TakenBy, Operators, OfPeers

\* The relays a profile lists belong to peers.
LEMMA ProfileUrlsOfPeers ==
    ASSUME NEW p, NEW profile
    PROVE  OfPeers(ProfileUrls(p, profile))
BY DEF OfPeers, ProfileUrls, Listed

\* So do those a presence hint names.
LEMMA GroupUrlsOfPeers ==
    ASSUME NEW p PROVE OfPeers(GroupUrls(p))
BY DEF OfPeers, GroupUrls, Hints

\* So does a peer's own.
LEMMA EnvUrlsOfPeers ==
    ASSUME NEW p \in Peer PROVE OfPeers(EnvUrls(p))
BY DEF OfPeers, EnvUrls

\* So do the sender's fallbacks, acknowledged or not.
LEMMA FallbackUrlsOfPeers ==
    ASSUME NEW p, NEW q PROVE OfPeers(FallbackUrls(p, q))
BY ProfileUrlsOfPeers DEF OfPeers, FallbackUrls

\* Their order does not matter.
LEMMA FourTiersOfPeers ==
    ASSUME NEW a, NEW b, NEW c, NEW d,
           OfPeers(a), OfPeers(b), OfPeers(c), OfPeers(d),
           NEW i \in DOMAIN <<a, b, c, d>>
    PROVE  OfPeers(<<a, b, c, d>>[i])
<1>1. i \in {1, 2, 3, 4}
  OBVIOUS
<1> QED BY <1>1

\* A message is offered to relays of peers.
LEMMA DeliveryTiersOfPeers ==
    ASSUME NEW p \in Peer, NEW q, NEW i \in DOMAIN DeliveryTiers(p, q)
    PROVE  OfPeers(DeliveryTiers(p, q)[i])
<1> DEFINE theirs == ProfileUrls(p, held[p][q])
<1>1. OfPeers(theirs) /\ OfPeers({u \in theirs : u[1] = q})
  BY ProfileUrlsOfPeers DEF OfPeers
<1>2. OfPeers(EnvUrls(p)) /\ OfPeers(FallbackUrls(p, q)) /\ OfPeers(GroupUrls(p))
  BY EnvUrlsOfPeers, FallbackUrlsOfPeers, GroupUrlsOfPeers
<1> HIDE DEF theirs
<1>3. CASE DeliveryTiers(p, q) = <<EnvUrls(p)>>
  BY <1>2, <1>3
<1>4. CASE DeliveryTiers(p, q) =
             <<{u \in theirs : u[1] = q}, theirs, FallbackUrls(p, q), GroupUrls(p)>>
  BY <1>1, <1>2, <1>4, FourTiersOfPeers
<1> QED BY <1>3, <1>4 DEF DeliveryTiers, theirs

-----------------------------------------------------------------------------
(* Types *)

\* A letter that is posted, or lost, keeps the type of the mail.
LEMMA PostTyped ==
    ASSUME NEW p \in Peer, NEW q \in Peer, NEW tiers,
           NEW hint \in Hint, mail \in [Peer -> [Peer -> Seq(Letter)]],
           \A i \in DOMAIN tiers : OfPeers(tiers[i]), Post(p, q, tiers, hint)
    PROVE  mail' \in [Peer -> [Peer -> Seq(Letter)]]
<1>1. CASE UNCHANGED mail
  BY <1>1
<1>2. ASSUME NEW o \in TakenBy(tiers),
             mail' = [mail EXCEPT ![p][q] = Append(@, [hint |-> hint, relay |-> o])]
      PROVE  mail' \in [Peer -> [Peer -> Seq(Letter)]]
  <2>1. o \in Peer
    BY TakersArePeers
  <2>2. [hint |-> hint, relay |-> o] \in Letter
    BY <2>1 DEF Letter
  <2>3. Append(mail[p][q], [hint |-> hint, relay |-> o]) \in Seq(Letter)
    BY <2>2
  <2> QED BY <1>2, <2>3
<1> QED BY <1>1, <1>2 DEF Post

\* The records of which the state is made have their types.
LEMMA RecordsTyped ==
    /\ NoProfile \in Profile /\ NoAck \in Ack /\ NoHint \in Hint /\ IdleFan \in Fan
    /\ \A p \in Peer : FirstProfile(p) \in Profile
    /\ \A profile \in Profile : Acknowledged(profile) \in Ack
<1>1. Unlisted \in [Peer -> Nat]
  BY DEF Unlisted
<1>2. NoProfile \in Profile
  BY <1>1 DEF NoProfile, Profile
<1>3. NoAck \in Ack /\ NoHint \in Hint /\ IdleFan \in Fan
  BY DEF NoAck, Ack, NoHint, Hint, IdleFan, Fan
<1>4. ASSUME NEW p \in Peer PROVE FirstProfile(p) \in Profile
  <2>1. FirstAddress \in [Peer -> Nat]
    BY DirectoryAssumption
  <2>2. [o \in Peer |-> IF o = p THEN FirstAddress[p] ELSE 0] \in [Peer -> Nat]
    BY <2>1
  <2> QED BY <2>2 DEF FirstProfile, Profile
<1>5. ASSUME NEW profile \in Profile PROVE Acknowledged(profile) \in Ack
  BY DEF Acknowledged, Listed, Ack, Profile
<1> QED BY <1>2, <1>3, <1>4, <1>5

\* TypeOK holds of the states that Init allows.
LEMMA TypeInit == Init => TypeOK
<1> SUFFICES ASSUME Init PROVE TypeOK
  OBVIOUS
<1> USE RecordsTyped DEF Init
<1>1. home \in [Peer -> Nat]
  BY DirectoryAssumption
<1>2. /\ local \in [Peer -> Profile] /\ held \in [Peer -> [Peer -> Profile]]
      /\ acked \in [Peer -> [Peer -> Ack]] /\ presence \in [Peer -> [Peer -> Hint]]
      /\ fan \in [Peer -> Fan]
  OBVIOUS
<1>3. mail \in [Peer -> [Peer -> Seq(Letter)]]
  OBVIOUS
<1>4. stamps \in Nat /\ lapsed \in 0 .. stamps /\ kills \in Nat
  OBVIOUS
<1> QED BY <1>1, <1>2, <1>3, <1>4 DEF TypeOK

\* A broadcast begins with the next stamp.
LEMMA BroadcastTyped ==
    ASSUME TypeOK, NEW p \in Peer, NEW to \in SUBSET Peer, NEW k \in Nat,
           Broadcast(p, to, k)
    PROVE  stamps' \in Nat /\ lapsed \in 0 .. stamps' /\ fan' \in [Peer -> Fan]
<1>1. stamps' = stamps + 1 /\ stamps \in Nat /\ lapsed \in 0 .. stamps
  BY DEF Broadcast, TypeOK
<1>2. [todo |-> to, at |-> k, stamp |-> stamps + 1] \in Fan
  BY <1>1 DEF Fan
<1>3. fan' \in [Peer -> Fan]
  BY <1>2 DEF Broadcast, TypeOK
<1> QED BY <1>1, <1>3

\* Every step keeps TypeOK.
LEMMA TypeStep == TypeOK /\ [Next]_vars => TypeOK'
<1> SUFFICES ASSUME TypeOK, [Next]_vars PROVE TypeOK'
  OBVIOUS
<1> USE RecordsTyped
<1>1. ASSUME NEW p \in Peer, Publish(p) PROVE TypeOK'
  <2>1. /\ local' = [local EXCEPT ![p] = Signed(p)]
        /\ IF Signed(p).at # local[p].at /\ Signed(p).at[p] # 0
           THEN Broadcast(p, Contacts(p), Signed(p).at[p])
           ELSE UNCHANGED <<stamps, fan>>
        /\ UNCHANGED <<home, held, acked, presence, mail, lapsed, kills>>
    BY <1>1 DEF Publish
  <2>2. local[p].edition + 1 \in Nat
    BY DEF TypeOK, Profile
  <2>3. Authorized(p) \in [Peer -> Nat]
    BY DEF TypeOK, Authorized, Profile
  <2>4. Signed(p) \in Profile
    BY <2>2, <2>3 DEF Signed, Profile
  <2>5. local' \in [Peer -> Profile]
    BY <2>1, <2>4 DEF TypeOK
  <2>6. stamps' \in Nat /\ lapsed' \in 0 .. stamps' /\ fan' \in [Peer -> Fan]
    <3>1. Signed(p).at[p] \in Nat
      BY <2>4 DEF Profile
    <3>2. Contacts(p) \in SUBSET Peer
      BY DEF Contacts
    <3>3. CASE UNCHANGED <<stamps, fan>>
      BY <3>3, <2>1 DEF TypeOK
    <3>4. CASE Broadcast(p, Contacts(p), Signed(p).at[p])
      BY <3>1, <3>2, <3>4, <2>1, BroadcastTyped
    <3> QED BY <3>3, <3>4, <2>1
  <2> QED BY <2>1, <2>5, <2>6 DEF TypeOK
<1>2. ASSUME NEW p \in Peer, PresencePush(p) PROVE TypeOK'
  <2>1. PICK to \in {Contacts(p)} \cup {{q} : q \in Contacts(p)} :
          /\ Broadcast(p, to, IF local[p].at[p] # 0 THEN local[p].at[p] ELSE home[p])
          /\ UNCHANGED <<home, local, held, acked, presence, mail, lapsed, kills>>
    BY <1>2 DEF PresencePush
  <2>2. to \in SUBSET Peer
    BY DEF Contacts
  <2>3. (IF local[p].at[p] # 0 THEN local[p].at[p] ELSE home[p]) \in Nat
    BY DEF TypeOK, Profile
  <2>4. stamps' \in Nat /\ lapsed \in 0 .. stamps' /\ fan' \in [Peer -> Fan]
    BY <2>1, <2>2, <2>3, BroadcastTyped
  <2> QED BY <2>1, <2>4 DEF TypeOK
<1>3. ASSUME NEW p \in Peer, FanOut(p) PROVE TypeOK'
  <2>1. PICK q \in fan[p].todo :
          /\ Post(p, q, DeliveryTiers(p, q), [at |-> fan[p].at, stamp |-> fan[p].stamp])
          /\ fan' = [fan EXCEPT ![p].todo = @ \ {q}]
          /\ UNCHANGED <<home, local, held, acked, presence, stamps, lapsed, kills>>
    BY <1>3 DEF FanOut
  <2>2. fan[p] \in Fan /\ q \in Peer
    BY DEF TypeOK, Fan
  <2>3. [at |-> fan[p].at, stamp |-> fan[p].stamp] \in Hint
    BY <2>2 DEF Fan, Hint
  <2>4. mail \in [Peer -> [Peer -> Seq(Letter)]]
    BY DEF TypeOK
  <2>5. mail' \in [Peer -> [Peer -> Seq(Letter)]]
    BY <2>1, <2>2, <2>3, <2>4, DeliveryTiersOfPeers, PostTyped
  <2>6. [fan[p] EXCEPT !.todo = @ \ {q}] \in Fan
    BY <2>2 DEF Fan
  <2>7. fan' \in [Peer -> Fan]
    BY <2>1, <2>6 DEF TypeOK
  <2> QED BY <2>1, <2>5, <2>7 DEF TypeOK
<1>4. ASSUME NEW p \in Peer, FanEnd(p) PROVE TypeOK'
  <2>1. OwnHint(p) \in Hint
    BY DEF TypeOK, OwnHint, Fan, Hint
  <2> QED BY <1>4, <2>1 DEF FanEnd, TypeOK
<1>5. ASSUME NEW p \in Peer, Kill(p) PROVE TypeOK'
  BY <1>5 DEF Kill, TypeOK
<1>6. ASSUME NEW p \in Peer, Move(p) PROVE TypeOK'
  BY <1>6 DEF Move, TypeOK
<1>7. ASSUME NEW p \in Peer, NEW q \in Peer, Pair(p, q) PROVE TypeOK'
  <2>1. /\ local[p] \in Profile /\ local[q] \in Profile
        /\ Acknowledged(local[p]) \in Ack /\ Acknowledged(local[q]) \in Ack
    BY DEF TypeOK
  <2>2. held' \in [Peer -> [Peer -> Profile]]
    BY <1>7, <2>1 DEF Pair, TypeOK
  <2>3. acked' \in [Peer -> [Peer -> Ack]]
    BY <1>7, <2>1 DEF Pair, TypeOK
  <2> QED BY <1>7, <2>2, <2>3 DEF Pair, TypeOK
<1>8. ASSUME NEW p \in Peer, NEW q \in Peer, Receive(q, p) PROVE TypeOK'
  <2>1. mail[p][q] \in Seq(Letter) /\ mail[p][q] # <<>>
    BY <1>8 DEF Receive, TypeOK, Applied
  <2>2. Head(mail[p][q]) \in Letter /\ Tail(mail[p][q]) \in Seq(Letter)
    BY <2>1
  <2>3. Head(mail[p][q]).hint \in Hint
    BY <2>2 DEF Letter
  <2>4. presence' \in [Peer -> [Peer -> Hint]]
    BY <1>8, <2>3 DEF Receive, TypeOK, Applied
  <2>5. mail' \in [Peer -> [Peer -> Seq(Letter)]]
    BY <1>8, <2>2 DEF Receive, TypeOK, Applied
  <2> QED BY <1>8, <2>4, <2>5 DEF Receive, TypeOK, Applied
<1>9. CASE Lapse
  BY <1>9 DEF Lapse, TypeOK
<1>10. CASE UNCHANGED vars
  BY <1>10 DEF vars, TypeOK
<1> QED
  BY <1>1, <1>2, <1>3, <1>4, <1>5, <1>6, <1>7, <1>8, <1>9, <1>10 DEF Next

\* TypeOK is an invariant: the profiles, acknowledgements, hints, broadcasts and
\* letters of every peer keep their types.
THEOREM TypeCorrect == Spec => []TypeOK
BY TypeInit, TypeStep, PTL DEF Spec

-----------------------------------------------------------------------------
(* Relays are only ever added *)

\* What a peer has once listed it can still list.
CanRelist(p) ==
    \A o \in Listed(local[p]) :
        IF o = p THEN home[p] # 0 ELSE held[p][o].at[o] # 0

\* A peer lists what it listed in the profile its contact holds.
SentAreListed(p, q) == Listed(held[q][p]) \subseteq Listed(local[p])

\* The names that were acknowledged are in the profile the contact holds.
NamesAreHeld(p, q) ==
    /\ acked[p][q].names \subseteq Listed(held[q][p])
    /\ acked[p][q].names # {} => acked[p][q].edition # 0

\* Peers are contacts of each other; strangers know and write nothing.
Strangers(p, q) ==
    q \notin Contacts(p) =>
        /\ p \notin Contacts(q) /\ Listed(held[p][q]) = {}
        /\ mail[p][q] = <<>> /\ q \notin fan[p].todo

\* The inductive invariant.
OnlyAdded ==
    /\ \A p \in Peer : CanRelist(p) /\ local[p].edition # 0
    /\ \A p, q \in Peer :
         SentAreListed(p, q) /\ NamesAreHeld(p, q) /\ Strangers(p, q)

\* OnlyAdded holds of the states that Init allows.
LEMMA OnlyAddedInit == Init => OnlyAdded
<1> SUFFICES ASSUME Init PROVE OnlyAdded
  OBVIOUS
<1>1. Listed(NoProfile) = {}
  BY DEF Listed, NoProfile, Unlisted
<1>2. ASSUME NEW p \in Peer PROVE CanRelist(p) /\ local[p].edition # 0
  <2>1. local[p] = FirstProfile(p) /\ home = FirstAddress
    BY DEF Init
  <2>2. /\ FirstProfile(p).edition = 1
        /\ \A o \in Peer : FirstProfile(p).at[o] = IF o = p THEN FirstAddress[p] ELSE 0
    BY DEF FirstProfile
  <2>3. \A o \in Listed(local[p]) : o = p /\ home[p] # 0
    BY <2>1, <2>2 DEF Listed
  <2> QED BY <2>1, <2>2, <2>3 DEF CanRelist
<1>3. ASSUME NEW p \in Peer, NEW q \in Peer
      PROVE  SentAreListed(p, q) /\ NamesAreHeld(p, q) /\ Strangers(p, q)
  <2>1. /\ held[p][q] = NoProfile /\ held[q][p] = NoProfile
        /\ mail[p][q] = <<>> /\ acked[p][q] = NoAck /\ fan[p] = IdleFan
    BY DEF Init
  <2>2. p \notin Contacts(q) /\ q \notin Contacts(p)
    BY <2>1 DEF Contacts, NoProfile
  <2> QED BY <1>1, <2>1, <2>2
          DEF SentAreListed, NamesAreHeld, Strangers, NoAck, IdleFan
<1> QED BY <1>2, <1>3 DEF OnlyAdded

\* A letter goes to a contact.
LEMMA PostKeepsContacts ==
    ASSUME TypeOK, OnlyAdded, NEW p \in Peer, NEW q \in Contacts(p), NEW tiers, NEW hint,
           Post(p, q, tiers, hint), UNCHANGED <<home, local, held, acked>>,
           \A r \in Peer : fan'[r].todo \subseteq fan[r].todo
    PROVE  OnlyAdded'
<1>1. q \in Peer
  BY DEF Contacts
<1>2. ASSUME NEW r \in Peer PROVE CanRelist(r)' /\ local'[r].edition # 0
  BY DEF OnlyAdded, CanRelist, Listed
<1>3. ASSUME NEW r \in Peer, NEW s \in Peer, s \notin Contacts(r)
      PROVE  mail'[r][s] = mail[r][s]
  <2>1. ~(r = p /\ s = q)
    BY <1>3
  <2>2. CASE UNCHANGED mail
    BY <2>2
  <2>3. CASE \E o : mail' = [mail EXCEPT ![p][q] = Append(@, [hint |-> hint, relay |-> o])]
    <3>1. PICK o : mail' = [mail EXCEPT ![p][q] = Append(@, [hint |-> hint, relay |-> o])]
      BY <2>3
    <3> QED BY <1>1, <2>1, <3>1 DEF TypeOK
  <2> QED BY <2>2, <2>3 DEF Post
<1>4. ASSUME NEW r \in Peer, NEW s \in Peer
      PROVE  (SentAreListed(r, s) /\ NamesAreHeld(r, s) /\ Strangers(r, s))'
  <2>1. SentAreListed(r, s) /\ NamesAreHeld(r, s) /\ Strangers(r, s)
    BY DEF OnlyAdded
  <2>2. SentAreListed(r, s)' /\ NamesAreHeld(r, s)'
    BY <2>1 DEF SentAreListed, NamesAreHeld, Listed
  <2>3. Strangers(r, s)'
    BY <1>3, <2>1 DEF Strangers, Contacts, Listed
  <2> QED BY <2>2, <2>3
<1> QED BY <1>2, <1>4 DEF OnlyAdded

\* A broadcast is to those it was given, and leaves the others' alone.
LEMMA BroadcastTo ==
    ASSUME TypeOK, NEW p \in Peer, NEW to, NEW k, Broadcast(p, to, k), NEW r \in Peer
    PROVE  fan'[r].todo \subseteq fan[r].todo \/ (r = p /\ fan'[r].todo = to)
<1>1. fan' = [fan EXCEPT ![p] = [todo |-> to, at |-> k, stamp |-> stamps + 1]]
      /\ fan \in [Peer -> Fan]
  BY DEF Broadcast, TypeOK
<1>2. CASE r = p
  BY <1>1, <1>2
<1>3. CASE r # p
  <2>1. fan'[r] = fan[r]
    BY <1>1, <1>3
  <2> QED BY <2>1
<1> QED BY <1>2, <1>3

\* Publishing lists what was listed, and what contacts operate now.
LEMMA PublishAdds ==
    ASSUME TypeOK, OnlyAdded, NEW p \in Peer, Publish(p)
    PROVE  OnlyAdded'
<1>1. /\ local' = [local EXCEPT ![p] = Signed(p)]
      /\ \/ fan' = fan
         \/ \E k : Broadcast(p, Contacts(p), k)
      /\ UNCHANGED <<home, held, acked, presence, mail, lapsed, kills>>
  BY DEF Publish
<1>2. /\ local'[p] = Signed(p)
      /\ \A r \in Peer : r # p => local'[r] = local[r]
  BY <1>1 DEF TypeOK
<1>3. local'[p].edition # 0
  <2>1. local[p].edition \in Nat
    BY DEF TypeOK, Profile
  <2> QED BY <1>2, <2>1 DEF Signed
<1>4. \A o \in Peer : local'[p].at[o] = IF o = p THEN home[p] ELSE held[p][o].at[o]
  BY <1>2 DEF Signed, Authorized
<1>5. Listed(local[p]) \subseteq Listed(local'[p])
  BY <1>4 DEF OnlyAdded, CanRelist, Listed
<1>6. ASSUME NEW r \in Peer PROVE CanRelist(r)' /\ local'[r].edition # 0
  <2>1. CASE r = p
    BY <2>1, <1>1, <1>3, <1>4 DEF CanRelist, Listed
  <2>2. CASE r # p
    BY <2>2, <1>1, <1>2 DEF OnlyAdded, CanRelist, Listed
  <2> QED BY <2>1, <2>2
<1>7. ASSUME NEW r \in Peer, NEW s \in Peer
      PROVE  (SentAreListed(r, s) /\ NamesAreHeld(r, s) /\ Strangers(r, s))'
  <2>1. SentAreListed(r, s) /\ NamesAreHeld(r, s) /\ Strangers(r, s)
    BY DEF OnlyAdded
  <2>2. Listed(local[r]) \subseteq Listed(local'[r])
    BY <1>2, <1>5
  <2>3. SentAreListed(r, s)'
    BY <1>1, <2>1, <2>2 DEF SentAreListed, Listed
  <2>4. NamesAreHeld(r, s)'
    BY <1>1, <2>1 DEF NamesAreHeld, Listed
  <2>5. fan'[r].todo \subseteq fan[r].todo \/ fan'[r].todo \subseteq Contacts(r)
    BY <1>1, BroadcastTo
  <2>6. Strangers(r, s)'
    BY <1>1, <2>1, <2>5 DEF Strangers, Contacts, Listed
  <2> QED BY <2>3, <2>4, <2>6
<1> QED BY <1>6, <1>7 DEF OnlyAdded

\* What touches neither profiles nor letters disturbs nothing, if its broadcast is to
\* contacts and no relay is taken down.
LEMMA RestAdds ==
    ASSUME TypeOK, OnlyAdded, UNCHANGED <<local, held, acked, mail>>,
           \A r \in Peer : home[r] # 0 => home'[r] # 0,
           \A r \in Peer : \/ fan'[r].todo \subseteq fan[r].todo
                           \/ fan'[r].todo \subseteq Contacts(r)
    PROVE  OnlyAdded'
<1>1. ASSUME NEW r \in Peer PROVE CanRelist(r)' /\ local'[r].edition # 0
  BY DEF OnlyAdded, CanRelist, Listed
<1>2. ASSUME NEW r \in Peer, NEW s \in Peer
      PROVE  (SentAreListed(r, s) /\ NamesAreHeld(r, s) /\ Strangers(r, s))'
  <2>1. SentAreListed(r, s) /\ NamesAreHeld(r, s) /\ Strangers(r, s)
    BY DEF OnlyAdded
  <2>2. SentAreListed(r, s)' /\ NamesAreHeld(r, s)'
    BY <2>1 DEF SentAreListed, NamesAreHeld, Listed
  <2>3. Strangers(r, s)'
    BY <2>1 DEF Strangers, Contacts, Listed
  <2> QED BY <2>2, <2>3
<1> QED BY <1>1, <1>2 DEF OnlyAdded

\* Two strangers pair: nothing is on its way between them.
LEMMA PairAdds ==
    ASSUME TypeOK, OnlyAdded, NEW p \in Peer, NEW q \in Peer, Pair(p, q)
    PROVE  OnlyAdded'
<1>1. /\ p # q /\ q \notin Contacts(p)
      /\ held' = [held EXCEPT ![p][q] = local[q], ![q][p] = local[p]]
      /\ acked' = [acked EXCEPT ![p][q] = Acknowledged(local[p]),
                                ![q][p] = Acknowledged(local[q])]
      /\ UNCHANGED <<home, local, presence, fan, mail, stamps, lapsed, kills>>
  BY DEF Pair
<1>2. /\ p \notin Contacts(q) /\ Listed(held[p][q]) = {} /\ Listed(held[q][p]) = {}
      /\ mail[p][q] = <<>> /\ mail[q][p] = <<>>
  BY <1>1 DEF OnlyAdded, Strangers
<1>3. /\ held'[p][q] = local[q] /\ held'[q][p] = local[p]
      /\ acked'[p][q] = Acknowledged(local[p]) /\ acked'[q][p] = Acknowledged(local[q])
      /\ \A r, s \in Peer : ~(r = p /\ s = q) /\ ~(r = q /\ s = p) =>
           held'[r][s] = held[r][s] /\ acked'[r][s] = acked[r][s]
  BY <1>1 DEF TypeOK
<1>4. ASSUME NEW r \in Peer PROVE CanRelist(r)' /\ local'[r].edition # 0
  <2>1. CanRelist(r) /\ local[r].edition # 0
    BY DEF OnlyAdded
  <2>2. ASSUME NEW o \in Listed(local[r]), o # r PROVE held'[r][o].at[o] # 0
    <3>1. o \in Listed(held[r][o]) /\ o \in Peer
      BY <2>1, <2>2 DEF CanRelist, Listed
    <3>2. ~(r = p /\ o = q) /\ ~(r = q /\ o = p)
      BY <3>1, <1>2
    <3>3. held'[r][o] = held[r][o]
      BY <3>1, <3>2, <1>3
    <3> QED BY <3>1, <3>3 DEF Listed
  <2> QED BY <2>1, <2>2, <1>1 DEF CanRelist, Listed
<1>5. ASSUME NEW r \in Peer, NEW s \in Peer,
             (r = p /\ s = q) \/ (r = q /\ s = p)
      PROVE  (SentAreListed(r, s) /\ NamesAreHeld(r, s) /\ Strangers(r, s))'
  <2>1. /\ held'[s][r] = local[r] /\ held'[r][s] = local[s] /\ mail'[r][s] = <<>>
        /\ acked'[r][s] = Acknowledged(local[r])
    BY <1>1, <1>2, <1>3, <1>5
  <2>2. /\ local[r].edition \in Nat /\ local[r].edition # 0
        /\ local[s].edition \in Nat /\ local[s].edition # 0
    BY DEF TypeOK, Profile, OnlyAdded
  <2>3. s \in Contacts(r)'
    BY <2>1, <2>2 DEF Contacts
  <2>4. SentAreListed(r, s)'
    BY <2>1, <1>1 DEF SentAreListed, Listed
  <2>5. NamesAreHeld(r, s)'
    BY <2>1, <2>2 DEF NamesAreHeld, Acknowledged, Listed
  <2> QED BY <2>3, <2>4, <2>5 DEF Strangers
<1>6. ASSUME NEW r \in Peer, NEW s \in Peer, ~(r = p /\ s = q), ~(r = q /\ s = p)
      PROVE  (SentAreListed(r, s) /\ NamesAreHeld(r, s) /\ Strangers(r, s))'
  <2>1. SentAreListed(r, s) /\ NamesAreHeld(r, s) /\ Strangers(r, s)
    BY DEF OnlyAdded
  <2>2. /\ held'[s][r] = held[s][r] /\ held'[r][s] = held[r][s]
        /\ acked'[r][s] = acked[r][s]
    BY <1>3, <1>6
  <2>3. UNCHANGED <<local, mail, fan>>
    BY <1>1
  <2>4. SentAreListed(r, s)'
    BY <2>1, <2>2, <2>3 DEF SentAreListed, Listed
  <2>5. NamesAreHeld(r, s)'
    BY <2>1, <2>2 DEF NamesAreHeld, Listed
  <2>6. Strangers(r, s)'
    BY <2>1, <2>2, <2>3 DEF Strangers, Contacts, Listed
  <2> QED BY <2>4, <2>5, <2>6
<1>7. ASSUME NEW r \in Peer, NEW s \in Peer
      PROVE  (SentAreListed(r, s) /\ NamesAreHeld(r, s) /\ Strangers(r, s))'
  <2>1. CASE (r = p /\ s = q) \/ (r = q /\ s = p)
    BY <2>1, <1>5
  <2>2. CASE ~((r = p /\ s = q) \/ (r = q /\ s = p))
    <3>1. ~(r = p /\ s = q) /\ ~(r = q /\ s = p)
      BY <2>2
    <3> QED BY <3>1, <1>6
  <2> QED BY <2>1, <2>2
<1> QED BY <1>4, <1>7 DEF OnlyAdded

\* A letter that is taken was a contact's.
LEMMA ReceiveAdds ==
    ASSUME TypeOK, OnlyAdded, NEW p \in Peer, NEW q \in Peer, Receive(q, p)
    PROVE  OnlyAdded'
<1>1. /\ mail[p][q] # <<>> /\ mail' = [mail EXCEPT ![p][q] = Tail(@)]
      /\ UNCHANGED <<home, local, held, acked, fan>>
  BY DEF Receive, Applied
<1>2. q \in Contacts(p)
  BY <1>1 DEF OnlyAdded, Strangers
<1>3. ASSUME NEW r \in Peer PROVE CanRelist(r)' /\ local'[r].edition # 0
  BY <1>1 DEF OnlyAdded, CanRelist, Listed
<1>4. ASSUME NEW r \in Peer, NEW s \in Peer
      PROVE  (SentAreListed(r, s) /\ NamesAreHeld(r, s) /\ Strangers(r, s))'
  <2>1. SentAreListed(r, s) /\ NamesAreHeld(r, s) /\ Strangers(r, s)
    BY DEF OnlyAdded
  <2>2. SentAreListed(r, s)' /\ NamesAreHeld(r, s)'
    BY <1>1, <2>1 DEF SentAreListed, NamesAreHeld, Listed
  <2>3. ~(r = p /\ s = q) => mail'[r][s] = mail[r][s]
    BY <1>1 DEF TypeOK
  <2>4. Strangers(r, s)'
    BY <1>1, <1>2, <2>1, <2>3 DEF Strangers, Contacts, Listed
  <2> QED BY <2>2, <2>4
<1> QED BY <1>3, <1>4 DEF OnlyAdded

\* Every step keeps OnlyAdded.
LEMMA OnlyAddedStep == TypeOK /\ OnlyAdded /\ [Next]_vars => OnlyAdded'
<1> SUFFICES ASSUME TypeOK, OnlyAdded, [Next]_vars PROVE OnlyAdded'
  OBVIOUS
<1>1. ASSUME NEW p \in Peer, Publish(p) PROVE OnlyAdded'
  BY <1>1, PublishAdds
<1>2. ASSUME NEW p \in Peer, PresencePush(p) PROVE OnlyAdded'
  <2>1. PICK to \in {Contacts(p)} \cup {{q} : q \in Contacts(p)} :
          /\ \E k : Broadcast(p, to, k)
          /\ UNCHANGED <<home, local, held, acked, presence, mail, lapsed, kills>>
    BY <1>2 DEF PresencePush
  <2>2. to \subseteq Contacts(p)
    BY <2>1
  <2>3. ASSUME NEW r \in Peer
        PROVE  fan'[r].todo \subseteq fan[r].todo \/ fan'[r].todo \subseteq Contacts(r)
    BY <2>1, <2>2, BroadcastTo
  <2> QED BY <2>1, <2>3, RestAdds
<1>3. ASSUME NEW p \in Peer, FanOut(p) PROVE OnlyAdded'
  <2>1. PICK q \in fan[p].todo :
          /\ Post(p, q, DeliveryTiers(p, q), [at |-> fan[p].at, stamp |-> fan[p].stamp])
          /\ fan' = [fan EXCEPT ![p].todo = @ \ {q}]
          /\ UNCHANGED <<home, local, held, acked, presence, stamps, lapsed, kills>>
    BY <1>3 DEF FanOut
  <2>2. q \in Contacts(p)
    <3>1. q \in Peer
      BY DEF TypeOK, Fan
    <3> QED BY <3>1 DEF OnlyAdded, Strangers
  <2>3. ASSUME NEW r \in Peer PROVE fan'[r].todo \subseteq fan[r].todo
    <3>1. CASE r = p
      <4>1. fan'[p].todo = fan[p].todo \ {q}
        BY <2>1 DEF TypeOK, Fan
      <4> QED BY <3>1, <4>1
    <3>2. CASE r # p
      <4>1. fan'[r] = fan[r]
        BY <3>2, <2>1 DEF TypeOK
      <4> QED BY <4>1
    <3> QED BY <3>1, <3>2
  <2> QED BY <2>1, <2>2, <2>3, PostKeepsContacts
<1>4. ASSUME NEW p \in Peer, FanEnd(p) \/ Kill(p) PROVE OnlyAdded'
  <2>1. fan' = [fan EXCEPT ![p] = IdleFan] /\ UNCHANGED <<home, local, held, acked, mail>>
    BY <1>4 DEF FanEnd, Kill
  <2>2. ASSUME NEW r \in Peer PROVE fan'[r].todo \subseteq fan[r].todo
    <3>1. CASE r = p
      BY <2>1, <3>1 DEF TypeOK, IdleFan
    <3>2. CASE r # p
      <4>1. fan'[r] = fan[r]
        BY <3>2, <2>1 DEF TypeOK
      <4> QED BY <4>1
    <3> QED BY <3>1, <3>2
  <2> QED BY <2>1, <2>2, RestAdds
<1>5. ASSUME NEW p \in Peer, Move(p) PROVE OnlyAdded'
  <2>1. home' = [home EXCEPT ![p] = @ + 1] /\ UNCHANGED <<local, held, acked, mail, fan>>
    BY <1>5 DEF Move
  <2>2. ASSUME NEW r \in Peer, home[r] # 0 PROVE home'[r] # 0
    BY <2>1, <2>2 DEF TypeOK
  <2> QED BY <2>1, <2>2, RestAdds
<1>6. ASSUME NEW p \in Peer, NEW q \in Peer, Pair(p, q) PROVE OnlyAdded'
  BY <1>6, PairAdds
<1>7. ASSUME NEW p \in Peer, NEW q \in Peer, Receive(q, p) PROVE OnlyAdded'
  BY <1>7, ReceiveAdds
<1>8. CASE Lapse
  BY <1>8, RestAdds DEF Lapse
<1>9. CASE UNCHANGED vars
  BY <1>9, RestAdds DEF vars
<1> QED
  BY <1>1, <1>2, <1>3, <1>4, <1>5, <1>6, <1>7, <1>8, <1>9 DEF Next

\* The names of the relays a profile lists are those of its addresses.
LEMMA ProfileUrlsOperators ==
    ASSUME NEW p, NEW profile PROVE Operators(ProfileUrls(p, profile)) = Listed(profile)
<1>1. ASSUME NEW o \in Listed(profile) PROVE o \in Operators(ProfileUrls(p, profile))
  <2> DEFINE u == <<o, Resolve(p, o, profile.at[o])>>
  <2>1. u \in ProfileUrls(p, profile) /\ u[1] = o
    BY DEF ProfileUrls
  <2> HIDE DEF u
  <2> QED BY <2>1 DEF Operators
<1>2. \A u \in ProfileUrls(p, profile) : u[1] \in Listed(profile)
  BY DEF ProfileUrls
<1>3. Operators(ProfileUrls(p, profile)) \subseteq Listed(profile)
  BY <1>2 DEF Operators
<1> QED BY <1>1, <1>3

\* OnlyAdded is strong enough.
LEMMA OnlyAddedGates == TypeOK /\ OnlyAdded => GatedWithinFetch
<1> SUFFICES ASSUME TypeOK, OnlyAdded, NEW p \in Peer, NEW q \in Contacts(p),
                    GroupUrls(p) = {}, acked[p][q].names # {}
             PROVE  Operators(DeliveryUrls(p, q)) \subseteq Operators(FetchUrls(q, p, FALSE))
  BY DEF GatedWithinFetch
<1> DEFINE theirs == ProfileUrls(p, held[p][q])
           back == FallbackUrls(p, q)
           polled == ProfileUrls(q, local[q]) \cup ProfileUrls(q, held[q][p])
<1>1. q \in Peer
  BY DEF Contacts
<1>2. NamesAreHeld(p, q) /\ SentAreListed(p, q) /\ SentAreListed(q, p)
  BY <1>1 DEF OnlyAdded
<1>3. back = {u \in ProfileUrls(p, local[p]) : u[1] \in acked[p][q].names}
  BY <1>2 DEF NamesAreHeld, FallbackUrls
<1>4. Operators(back) \subseteq acked[p][q].names
  BY <1>3 DEF Operators
<1>5. back # {}
  <2>1. PICK o \in acked[p][q].names : o \in Listed(local[p])
    BY <1>2 DEF NamesAreHeld, SentAreListed
  <2>2. <<o, Resolve(p, o, local[p].at[o])>> \in ProfileUrls(p, local[p])
    BY <2>1 DEF ProfileUrls
  <2> QED BY <1>3, <2>1, <2>2
<1>6. Operators(theirs) \subseteq Listed(local[q])
  BY <1>2, ProfileUrlsOperators DEF SentAreListed
<1>7. DeliveryUrls(p, q) \subseteq theirs \cup back
  <2>1. DeliveryTiers(p, q) = <<{u \in theirs : u[1] = q}, theirs, back, GroupUrls(p)>>
    BY <1>5 DEF DeliveryTiers
  <2> DEFINE first == {u \in theirs : u[1] = q}
  <2>2. first \subseteq theirs
    OBVIOUS
  <2> HIDE DEF theirs, back, first
  <2>3. ASSUME NEW i \in DOMAIN <<first, theirs, back, {}>>
        PROVE  <<first, theirs, back, {}>>[i] \subseteq theirs \cup back
    <3>1. i \in {1, 2, 3, 4}
      OBVIOUS
    <3> QED BY <2>2, <3>1
  <2>4. DeliveryTiers(p, q) = <<first, theirs, back, {}>>
    BY <2>1 DEF first
  <2> QED BY <2>3, <2>4 DEF DeliveryUrls
<1>8. Operators(polled) = Listed(local[q]) \cup Listed(held[q][p])
  <2>1. Operators(polled) = Operators(ProfileUrls(q, local[q]))
                              \cup Operators(ProfileUrls(q, held[q][p]))
    BY DEF Operators
  <2> QED BY <2>1, ProfileUrlsOperators
<1>9. FetchUrls(q, p, FALSE) = polled
  <2>1. polled # {}
    BY <1>2, <1>8 DEF NamesAreHeld, Operators
  <2> QED BY <2>1 DEF FetchUrls, OrEnv
<1> HIDE DEF theirs, back, polled
<1>10. Operators(DeliveryUrls(p, q)) \subseteq Operators(theirs) \cup Operators(back)
  BY <1>7 DEF Operators
<1> QED BY <1>2, <1>4, <1>6, <1>8, <1>9, <1>10 DEF NamesAreHeld

\* A sender without hints posts to no relay that its contact does not know to poll, if
\* the contact was told of some relay when they paired: the names kept from that profile
\* (_peer_acked_sender_fallback_urls) are enough, however many profiles and relays follow.
THEOREM GateKeepsWithinFetch == Spec => []GatedWithinFetch
<1>1. Spec => []OnlyAdded
  BY OnlyAddedInit, OnlyAddedStep, TypeCorrect, PTL DEF Spec
<1> QED BY <1>1, TypeCorrect, OnlyAddedGates, PTL


-----------------------------------------------------------------------------
(* A peer's own relay *)

\* Unless a broadcast was killed, what a peer broadcasts, and keeps for itself, is the
\* address in its profile.
OwnHintCurrent(p) ==
    kills = 0 /\ local[p].at[p] # 0 =>
        IF fan[p] = IdleFan THEN presence[p][p].stamp # 0 => presence[p][p].at = local[p].at[p]
        ELSE fan[p].at = local[p].at[p]

\* The inductive invariant, with OnlyAdded.
OwnHintsCurrent == \A p \in Peer : p \notin Contacts(p) /\ OwnHintCurrent(p)

\* OwnHintsCurrent holds of the states that Init allows.
LEMMA OwnHintsInit == Init => OwnHintsCurrent
<1> SUFFICES ASSUME Init, NEW p \in Peer PROVE p \notin Contacts(p) /\ OwnHintCurrent(p)
  BY DEF OwnHintsCurrent
<1>1. held[p][p] = NoProfile /\ presence[p][p] = NoHint /\ fan[p] = IdleFan
  BY DEF Init
<1>2. NoProfile.edition = 0 /\ NoHint.stamp = 0
  BY DEF NoProfile, NoHint
<1> QED BY <1>1, <1>2 DEF Contacts, OwnHintCurrent

\* Nobody writes to itself.
LEMMA NoOwnMail ==
    ASSUME OnlyAdded, OwnHintsCurrent, NEW p \in Peer
    PROVE  mail[p][p] = <<>> /\ p \notin fan[p].todo
BY DEF OnlyAdded, Strangers, OwnHintsCurrent

\* A peer's address, broadcast and own hint are what others leave as they were.
LEMMA OthersLeave ==
    ASSUME OwnHintsCurrent, NEW p \in Peer, p \notin Contacts(p)',
           UNCHANGED kills, local'[p] = local[p], fan'[p] = fan[p],
           presence'[p][p] = presence[p][p]
    PROVE  p \notin Contacts(p)' /\ OwnHintCurrent(p)'
BY DEF OwnHintsCurrent, OwnHintCurrent

\* A broadcast that begins.
LEMMA BroadcastFrom ==
    ASSUME TypeOK, NEW p \in Peer, NEW to, NEW k, Broadcast(p, to, k)
    PROVE  /\ fan'[p].at = k /\ fan'[p] # IdleFan
           /\ \A r \in Peer : r # p => fan'[r] = fan[r]
<1>1. fan' = [fan EXCEPT ![p] = [todo |-> to, at |-> k, stamp |-> stamps + 1]]
      /\ fan \in [Peer -> Fan] /\ stamps \in Nat
  BY DEF Broadcast, TypeOK
<1>2. fan'[p] = [todo |-> to, at |-> k, stamp |-> stamps + 1]
  BY <1>1
<1>3. fan'[p].stamp # 0 /\ fan'[p].at = k
  BY <1>1, <1>2
<1>4. IdleFan.stamp = 0
  BY DEF IdleFan
<1> QED BY <1>1, <1>3, <1>4

\* Publishing a new address broadcasts it.
LEMMA PublishOwnHints ==
    ASSUME TypeOK, OwnHintsCurrent, NEW p \in Peer, Publish(p)
    PROVE  OwnHintsCurrent'
<1> DEFINE new == Signed(p)
<1>1. /\ fan[p] = IdleFan
      /\ local' = [local EXCEPT ![p] = new]
      /\ \/ new.at # local[p].at /\ new.at[p] # 0 /\ Broadcast(p, Contacts(p), new.at[p])
         \/ (new.at = local[p].at \/ new.at[p] = 0) /\ UNCHANGED <<stamps, fan>>
      /\ UNCHANGED <<home, held, acked, presence, mail, lapsed, kills>>
  BY DEF Publish
<1>2. /\ local'[p] = new /\ \A r \in Peer : r # p => local'[r] = local[r]
      /\ \A r \in Peer : r # p => fan'[r] = fan[r]
  BY <1>1, BroadcastFrom DEF TypeOK
<1>3. \A r \in Peer : r \notin Contacts(r)'
  BY <1>1 DEF OwnHintsCurrent, Contacts
<1> HIDE DEF new
<1>4. OwnHintCurrent(p)'
  <2>1. CASE new.at[p] # 0 /\ Broadcast(p, Contacts(p), new.at[p])
    BY <1>2, <2>1, BroadcastFrom DEF OwnHintCurrent
  <2>2. CASE (new.at = local[p].at \/ new.at[p] = 0) /\ UNCHANGED <<stamps, fan>>
    BY <1>1, <1>2, <2>2 DEF OwnHintsCurrent, OwnHintCurrent
  <2> QED BY <1>1, <2>1, <2>2 DEF new
<1> QED BY <1>1, <1>2, <1>3, <1>4, OthersLeave DEF OwnHintsCurrent

\* Every step keeps OwnHintsCurrent.
LEMMA OwnHintsStep == TypeOK /\ OnlyAdded /\ OwnHintsCurrent /\ [Next]_vars => OwnHintsCurrent'
<1> SUFFICES ASSUME TypeOK, OnlyAdded, OwnHintsCurrent, [Next]_vars PROVE OwnHintsCurrent'
  OBVIOUS
<1>0. /\ fan \in [Peer -> Fan] /\ held \in [Peer -> [Peer -> Profile]]
      /\ presence \in [Peer -> [Peer -> Hint]] /\ kills \in Nat
  BY DEF TypeOK
<1>1. ASSUME NEW p \in Peer, Publish(p) PROVE OwnHintsCurrent'
  BY <1>1, PublishOwnHints
<1>2. ASSUME NEW p \in Peer, PresencePush(p) PROVE OwnHintsCurrent'
  <2>1. PICK to \in {Contacts(p)} \cup {{q} : q \in Contacts(p)} :
          /\ Broadcast(p, to, IF local[p].at[p] # 0 THEN local[p].at[p] ELSE home[p])
          /\ UNCHANGED <<home, local, held, acked, presence, mail, lapsed, kills>>
    BY <1>2 DEF PresencePush
  <2>2. \A r \in Peer : r \notin Contacts(r)'
    BY <2>1 DEF OwnHintsCurrent, Contacts
  <2>3. OwnHintCurrent(p)'
    BY <2>1, BroadcastFrom DEF OwnHintCurrent
  <2>4. \A r \in Peer : r # p => fan'[r] = fan[r]
    BY <2>1, BroadcastFrom
  <2> QED BY <2>1, <2>2, <2>3, <2>4, OthersLeave DEF OwnHintsCurrent
<1>3. ASSUME NEW p \in Peer, FanOut(p) PROVE OwnHintsCurrent'
  <2>1. PICK q \in fan[p].todo :
          /\ fan' = [fan EXCEPT ![p].todo = @ \ {q}]
          /\ UNCHANGED <<home, local, held, acked, presence, stamps, lapsed, kills>>
    BY <1>3 DEF FanOut
  <2>2. \A r \in Peer : r \notin Contacts(r)'
    BY <2>1 DEF OwnHintsCurrent, Contacts
  <2>3. fan'[p].at = fan[p].at /\ \A r \in Peer : r # p => fan'[r] = fan[r]
    BY <1>0, <2>1 DEF Fan
  <2>4. fan[p] # IdleFan /\ IdleFan.at = 0
    BY <2>1 DEF IdleFan
  <2>5. OwnHintCurrent(p)'
    BY <2>1, <2>3, <2>4 DEF OwnHintsCurrent, OwnHintCurrent
  <2> QED BY <2>1, <2>2, <2>3, <2>5, OthersLeave DEF OwnHintsCurrent
<1>4. ASSUME NEW p \in Peer, FanEnd(p) PROVE OwnHintsCurrent'
  <2>1. /\ fan[p] # IdleFan /\ presence' = [presence EXCEPT ![p][p] = OwnHint(p)]
        /\ fan' = [fan EXCEPT ![p] = IdleFan]
        /\ UNCHANGED <<home, local, held, acked, mail, stamps, lapsed, kills>>
    BY <1>4 DEF FanEnd
  <2>2. \A r \in Peer : r \notin Contacts(r)'
    BY <2>1 DEF OwnHintsCurrent, Contacts
  <2>3. fan'[p] = IdleFan /\ presence'[p][p].at = fan[p].at
    BY <1>0, <2>1 DEF OwnHint
  <2>4. \A r \in Peer : r # p => fan'[r] = fan[r] /\ presence'[r][r] = presence[r][r]
    BY <1>0, <2>1
  <2>5. OwnHintCurrent(p)'
    BY <2>1, <2>3 DEF OwnHintsCurrent, OwnHintCurrent
  <2> QED BY <2>1, <2>2, <2>4, <2>5, OthersLeave DEF OwnHintsCurrent
<1>5. ASSUME NEW p \in Peer, Kill(p) PROVE OwnHintsCurrent'
  <2>1. kills' # 0 /\ held' = held
    BY <1>0, <1>5 DEF Kill
  <2> QED BY <2>1 DEF OwnHintsCurrent, OwnHintCurrent, Contacts
<1>6. ASSUME NEW p \in Peer, NEW q \in Peer, Pair(p, q) PROVE OwnHintsCurrent'
  <2>1. /\ p # q /\ held' = [held EXCEPT ![p][q] = local[q], ![q][p] = local[p]]
        /\ UNCHANGED <<local, presence, fan, kills>>
    BY <1>6 DEF Pair
  <2>2. \A r \in Peer : held'[r][r] = held[r][r]
    BY <1>0, <2>1
  <2>3. \A r \in Peer : r \notin Contacts(r)'
    BY <2>2 DEF OwnHintsCurrent, Contacts
  <2> QED BY <2>1, <2>3, OthersLeave DEF OwnHintsCurrent
<1>7. ASSUME NEW p \in Peer, NEW q \in Peer, Receive(q, p) PROVE OwnHintsCurrent'
  <2>1. p # q
    BY <1>7, NoOwnMail DEF Receive, Applied
  <2>2. /\ \A r \in Peer : held'[r][r] = held[r][r] /\ presence'[r][r] = presence[r][r]
        /\ UNCHANGED <<local, fan, kills>>
    BY <1>0, <1>7, <2>1 DEF Receive, Applied
  <2>3. \A r \in Peer : r \notin Contacts(r)'
    BY <2>2 DEF OwnHintsCurrent, Contacts
  <2> QED BY <2>2, <2>3, OthersLeave DEF OwnHintsCurrent
<1>8. CASE UNCHANGED <<local, held, presence, fan, kills>>
  BY <1>8 DEF OwnHintsCurrent, OwnHintCurrent, Contacts
<1> QED
  BY <1>1, <1>2, <1>3, <1>4, <1>5, <1>6, <1>7, <1>8
  DEF Next, Move, Lapse, vars

\* OwnHintsCurrent is strong enough.
LEMMA OwnHintsPoll == TypeOK /\ OwnHintsCurrent => OwnRelayPolled
<1> SUFFICES ASSUME TypeOK, OwnHintsCurrent, NEW p \in Peer, NEW q \in Peer,
                    fan[p] = IdleFan, kills = 0, local[p].at[p] = home[p], home[p] # 0
             PROVE  <<p, home[p]>> \in FetchUrls(p, q, FALSE)
  BY DEF OwnRelayPolled
<1>1. Fresh(p, p) => presence[p][p].stamp # 0
  BY DEF Fresh, TypeOK, Hint
<1>2. Resolve(p, p, local[p].at[p]) = home[p]
  BY <1>1 DEF OwnHintsCurrent, OwnHintCurrent, Resolve
<1>3. <<p, home[p]>> \in ProfileUrls(p, local[p])
  BY <1>2 DEF ProfileUrls, Listed
<1> QED BY <1>3 DEF FetchUrls, OrEnv

\* A peer polls the relay it runs at its new address once the broadcast that follows
\* the publication is over, whatever hints of the old address it kept
\* (broadcast_presence saves its payload for the broadcaster too).
THEOREM OwnRelayIsPolled == Spec => []OwnRelayPolled
<1>1. Spec => []OnlyAdded
  BY OnlyAddedInit, OnlyAddedStep, TypeCorrect, PTL DEF Spec
<1>2. Spec => []OwnHintsCurrent
  BY <1>1, OwnHintsInit, OwnHintsStep, TypeCorrect, PTL DEF Spec
<1> QED BY <1>2, TypeCorrect, OwnHintsPoll, PTL
=============================================================================
