----------------------------- MODULE Directory -----------------------------
(***************************************************************************)
(* Who can be reached where: the delivery profiles peers publish and pair  *)
(* with, the short-lived presence hints that override them, and the two    *)
(* lists made of both: the relays a sender posts to and the relays its     *)
(* recipient polls.                                                        *)
(*                                                                         *)
(* A relay is named by the peer that operates it; <<o, k>> is its k-th     *)
(* address, and no two relays ever share one.  A relay that moves keeps    *)
(* its blobs, and its old address answers no more.  Mail of one peer to    *)
(* another is opened in order (module Delivery); a hint that no relay      *)
(* takes leaves nothing behind here.  What contacts hold of a profile is   *)
(* what they paired with: profile_push raises NameError (it uses Session,  *)
(* which profile_cmds.py does not import) before it saves or posts, and    *)
(* profiles stay within their 7 days, so that none is fetched again from   *)
(* its owner.  Everybody has published once before, and was offline long   *)
(* enough for the hints of that to lapse.                                  *)
(***************************************************************************)
EXTENDS Naturals, Sequences

CONSTANTS
    Peer,
    Acquainted,     \* bound, sets of two peers: who may pair
    FirstAddress,   \* [Peer -> Nat]: address of the relay a peer runs, 0 for none
    LastAddress,    \* bound, [Peer -> Nat]: a relay moves up to this address
    MaxEditions,    \* bound, [Peer -> Nat]: profiles it signs, its relay not having moved
    MaxStamps,      \* bound: presence payloads, beyond which nobody asks for one
    MaxKills,       \* bound: killed commands
    Wide,           \* of fetch: TRUE is --wide
    Flaky           \* may a relay that is up fail to take a blob?

ASSUME DirectoryAssumption ==
    /\ FirstAddress \in [Peer -> Nat] /\ LastAddress \in [Peer -> Nat]
    /\ MaxEditions \in [Peer -> Nat]
    /\ MaxStamps \in Nat /\ MaxKills \in Nat
    /\ Wide \subseteq BOOLEAN /\ Flaky \in BOOLEAN

Unlisted == [o \in Peer |-> 0]
NoProfile == [edition |-> 0, at |-> Unlisted]
FirstProfile(p) ==
    [edition |-> 1, at |-> [o \in Peer |-> IF o = p THEN FirstAddress[p] ELSE 0]]
NoAck == [edition |-> 0, names |-> {}]
NoHint == [at |-> 0, stamp |-> 0]
IdleFan == [todo |-> {}, at |-> 0, stamp |-> 0]

\* An edition stands for a profile's version, which publish may leave as it is: only
\* a profile that is pushed would have it compared.
Profile == [edition : Nat, at : [Peer -> Nat]]
Ack == [edition : Nat, names : SUBSET Peer]
Hint == [at : Nat, stamp : Nat]
Fan == [todo : SUBSET Peer, at : Nat, stamp : Nat]
Letter == [hint : Hint, relay : Peer]

VARIABLES
    home,       \* [Peer -> Nat]: the address a peer's relay has now
    local,      \* [Peer -> Profile]: local_profile
    held,       \* [Peer -> [Peer -> Profile]]: delivery_profile of a contact
    acked,      \* [Peer -> [Peer -> Ack]]: peer_acked_my_profile_version, _relay_names
    presence,   \* [Peer -> [Peer -> Hint]]: the relay_presence table
    fan,        \* [Peer -> Fan]: a presence broadcast under way
    mail,       \* [Peer -> [Peer -> Seq(Letter)]]: from, to
    stamps,     \* presence payloads made so far
    lapsed,     \* payloads up to this one are past their 30 minutes
    kills       \* commands killed so far

vars == <<home, local, held, acked, presence, fan, mail, stamps, lapsed, kills>>

Init ==
    /\ home = FirstAddress
    /\ local = [p \in Peer |-> FirstProfile(p)]
    /\ held = [p \in Peer |-> [q \in Peer |-> NoProfile]]
    /\ acked = [p \in Peer |-> [q \in Peer |-> NoAck]]
    /\ presence = [p \in Peer |-> [o \in Peer |-> NoHint]]
    /\ fan = [p \in Peer |-> IdleFan]
    /\ mail = [p \in Peer |-> [q \in Peer |-> <<>>]]
    /\ stamps = 0 /\ lapsed = 0 /\ kills = 0

Contacts(p) == {q \in Peer : held[p][q].edition > 0}
Listed(profile) == {o \in Peer : profile.at[o] # 0}

-----------------------------------------------------------------------------
(* The lists of relay addresses *)

\* is_presence_fresh.
Fresh(p, o) == presence[p][o].stamp > lapsed

\* resolve_operator_url: a fresh hint goes before the address in a profile.
Resolve(p, o, k) == IF Fresh(p, o) THEN presence[p][o].at ELSE k

\* _profile_mailbox_urls.
ProfileUrls(p, profile) ==
    {<<o, Resolve(p, o, profile.at[o])>> : o \in Listed(profile)}

\* list_presences: whoever has a row, stale ones too.
Hints(p) == {o \in Peer : presence[p][o] # NoHint}

\* fresh_group_relay_urls.
GroupUrls(p) == {<<o, presence[p][o].at>> : o \in {x \in Hints(p) : Fresh(p, x)}}

\* YAKR_RELAY_URL, asked when a list is empty: a peer's own relay.
EnvUrls(p) == IF home[p] = 0 THEN {} ELSE {<<p, home[p]>>}
OrEnv(p, urls) == IF urls = {} THEN EnvUrls(p) ELSE urls

\* (slip) All relays of one's own profile may be used.
FallbackUrls_Ungated(p, q) == ProfileUrls(p, local[p])
\* _peer_acked_sender_fallback_urls: those of the profile that the contact knows by
\* name, and all of them if it was told no name.
FallbackUrls(p, q) ==
    IF acked[p][q].edition = 0 THEN {}
    ELSE IF acked[p][q].names = {} THEN ProfileUrls(p, local[p])
    ELSE {u \in ProfileUrls(p, local[p]) : u[1] \in acked[p][q].names}

\* delivery_mailbox_urls, in the order in which they are tried: a profile lists its
\* owner's relay first.
DeliveryTiers(p, q) ==
    LET theirs == ProfileUrls(p, held[p][q])
        all == theirs \cup FallbackUrls(p, q) \cup GroupUrls(p)
    IN  IF all = {} THEN <<EnvUrls(p)>>
        ELSE <<{u \in theirs : u[1] = q}, theirs, FallbackUrls(p, q), GroupUrls(p)>>

DeliveryUrls(p, q) ==
    LET tiers == DeliveryTiers(p, q) IN UNION {tiers[i] : i \in DOMAIN tiers}

\* fetch_mailbox_urls.
FetchUrls(q, p, wide) ==
    OrEnv(q, ProfileUrls(q, local[q]) \cup ProfileUrls(q, held[q][p]) \cup
             (IF wide THEN GroupUrls(q) \cup
                           UNION {ProfileUrls(q, held[q][c]) : c \in Contacts(q)}
              ELSE {}))

Operators(urls) == {u[1] : u \in urls}
Live(u) == u[2] # 0 /\ home[u[1]] = u[2]

\* (slip) Only the first tier is tried.
TakenBy_FirstTier(tiers) == Operators({u \in tiers[1] : Live(u)})
\* deliver_encrypted: the relays of the first tier that has one up.
TakenBy(tiers) ==
    LET up(i) == {u \in tiers[i] : Live(u)}
    IN  Operators(UNION {up(i) : i \in {j \in DOMAIN tiers :
                                Flaky \/ \A h \in 1 .. j - 1 : up(h) = {}}})

-----------------------------------------------------------------------------
(* Profiles *)

\* self_relay_descriptor, authorized_publish_relays: one's own relay, and those
\* contacts operate, as their profiles have them.
Authorized(p) ==
    [o \in Peer |-> IF o = p THEN home[p] ELSE held[p][o].at[o]]

Signed(p) == [edition |-> local[p].edition + 1, at |-> Authorized(p)]

\* (slip) The acknowledgement keeps addresses, not names.
Acknowledged_Urls(profile) ==
    [edition |-> profile.edition, names |-> {<<o, profile.at[o]>> : o \in Listed(profile)}]
\* apply_peer_profile_ack.
Acknowledged(profile) == [edition |-> profile.edition, names |-> Listed(profile)]

\* Pairing exchanges profiles; each side holds the other's and counts its own
\* as acknowledged.
Pair(p, q) ==
    /\ {p, q} \in Acquainted /\ p # q /\ q \notin Contacts(p)
    /\ held' = [held EXCEPT ![p][q] = local[q], ![q][p] = local[p]]
    /\ acked' = [acked EXCEPT ![p][q] = Acknowledged(local[p]),
                              ![q][p] = Acknowledged(local[q])]
    /\ UNCHANGED <<home, local, presence, fan, mail, stamps, lapsed, kills>>

\* broadcast_presence begins: one payload for one address.
Broadcast(p, to, k) ==
    /\ stamps' = stamps + 1
    /\ fan' = [fan EXCEPT ![p] = [todo |-> to, at |-> k, stamp |-> stamps + 1]]

\* profile_publish; when an address in it is new (relay_locations_changed), and
\* one's own relay is in it (own_presence_payloads), a broadcast follows.
Publish(p) ==
    LET new == Signed(p) IN
    /\ fan[p] = IdleFan
    /\ local[p].edition < MaxEditions[p] \/ local[p].at[p] # home[p]
    /\ local' = [local EXCEPT ![p] = new]
    /\ IF new.at # local[p].at /\ new.at[p] # 0
       THEN Broadcast(p, Contacts(p), new.at[p])
       ELSE UNCHANGED <<stamps, fan>>
    /\ UNCHANGED <<home, held, acked, presence, mail, lapsed, kills>>

-----------------------------------------------------------------------------
(* Presence *)

\* presence_push, to one contact or to all: the address in the local profile, or
\* else the one in the environment.
PresencePush(p) ==
    \E to \in {Contacts(p)} \cup {{q} : q \in Contacts(p)} :
        LET k == IF local[p].at[p] # 0 THEN local[p].at[p] ELSE home[p] IN
        /\ fan[p] = IdleFan /\ k # 0 /\ stamps < MaxStamps
        /\ Broadcast(p, to, k)
        /\ UNCHANGED <<home, local, held, acked, presence, mail, lapsed, kills>>

\* A letter to q is stored by a relay that takes it, or by none.
Post(p, q, tiers, hint) ==
    LET takers == TakenBy(tiers) IN
    \/ \E o \in takers :
         mail' = [mail EXCEPT ![p][q] = Append(@, [hint |-> hint, relay |-> o])]
    \/ (Flaky \/ takers = {}) /\ UNCHANGED mail

\* broadcast_presence: the next contact.
FanOut(p) ==
    /\ \E q \in fan[p].todo :
         /\ Post(p, q, DeliveryTiers(p, q), [at |-> fan[p].at, stamp |-> fan[p].stamp])
         /\ fan' = [fan EXCEPT ![p].todo = @ \ {q}]
    /\ UNCHANGED <<home, local, held, acked, presence, stamps, lapsed, kills>>

\* (slip) The row the broadcaster has of itself is never replaced.
OwnHint_Once(p) ==
    IF presence[p][p] # NoHint THEN presence[p][p]
    ELSE [at |-> fan[p].at, stamp |-> fan[p].stamp]
\* broadcast_presence saves the payload for the broadcaster itself too.
OwnHint(p) == [at |-> fan[p].at, stamp |-> fan[p].stamp]

\* After the last contact.
FanEnd(p) ==
    /\ fan[p] # IdleFan /\ fan[p].todo = {}
    /\ presence' = [presence EXCEPT ![p][p] = OwnHint(p)]
    /\ fan' = [fan EXCEPT ![p] = IdleFan]
    /\ UNCHANGED <<home, local, held, acked, mail, stamps, lapsed, kills>>

\* The command is killed in its broadcast.
Kill(p) ==
    /\ fan[p] # IdleFan /\ kills < MaxKills
    /\ kills' = kills + 1
    /\ fan' = [fan EXCEPT ![p] = IdleFan]
    /\ UNCHANGED <<home, local, held, acked, presence, mail, stamps, lapsed>>

-----------------------------------------------------------------------------
(* Fetching *)

\* apply_presence_message: a stale hint is dropped.
Applied(q, p, hint) ==
    IF hint.stamp > lapsed THEN [presence EXCEPT ![q][p] = hint] ELSE presence

\* fetch_contact_inbound takes the next letter, if a relay it polls has it.
Receive(q, p) ==
    /\ mail[p][q] # <<>>
    /\ LET m == Head(mail[p][q]) IN
       /\ \E wide \in Wide : <<m.relay, home[m.relay]>> \in FetchUrls(q, p, wide)
       /\ presence' = Applied(q, p, m.hint)
    /\ mail' = [mail EXCEPT ![p][q] = Tail(@)]
    /\ UNCHANGED <<home, local, held, acked, fan, stamps, lapsed, kills>>

-----------------------------------------------------------------------------
\* A peer starts a relay, or its relay moves.
Move(p) ==
    /\ home[p] < LastAddress[p]
    /\ home' = [home EXCEPT ![p] = @ + 1]
    /\ UNCHANGED <<local, held, acked, presence, fan, mail, stamps, lapsed, kills>>

\* The oldest payload reaches its valid_until (PRESENCE_TTL_MS).
Lapse ==
    /\ lapsed < stamps /\ lapsed' = lapsed + 1
    /\ UNCHANGED <<home, local, held, acked, presence, fan, mail, stamps, kills>>

Next ==
    \/ \E p \in Peer : Publish(p) \/ PresencePush(p) \/ FanOut(p) \/ FanEnd(p)
                       \/ Kill(p) \/ Move(p)
    \/ \E p, q \in Peer : Pair(p, q) \/ Receive(q, p)
    \/ Lapse

Spec == Init /\ [][Next]_vars

(***************************************************************************)
(* Fairness.  A broadcast runs on unless it is killed, clients poll, and a *)
(* peer whose relay has moved publishes its address.  Hints need not lapse.*)
(***************************************************************************)
Fairness ==
    /\ \A p \in Peer : /\ WF_vars(FanOut(p)) /\ WF_vars(FanEnd(p))
                       /\ WF_vars(Publish(p) /\ local[p].at[p] # home[p])
    /\ \A p, q \in Peer : WF_vars(Receive(q, p))

FairSpec == Spec /\ Fairness

-----------------------------------------------------------------------------
(* Properties *)

\* Every variable keeps its type.
TypeOK ==
    /\ home \in [Peer -> Nat] /\ local \in [Peer -> Profile]
    /\ held \in [Peer -> [Peer -> Profile]] /\ acked \in [Peer -> [Peer -> Ack]]
    /\ presence \in [Peer -> [Peer -> Hint]] /\ fan \in [Peer -> Fan]
    /\ mail \in [Peer -> [Peer -> Seq(Letter)]]
    /\ stamps \in Nat /\ lapsed \in 0 .. stamps /\ kills \in Nat

\* Mail is not stored on a relay the recipient does not poll (delivery_mailbox_urls
\* against fetch_mailbox_urls), relays taken by name, wherever they are, for a
\* sender that has no hints and a contact that was told of some relay when they
\* paired: the names kept by _peer_acked_sender_fallback_urls are gate enough.
GatedWithinFetch ==
    \A p \in Peer : \A q \in Contacts(p) :
        GroupUrls(p) = {} /\ acked[p][q].names # {} =>
            Operators(DeliveryUrls(p, q)) \subseteq Operators(FetchUrls(q, p, FALSE))

\* A peer polls the relay it operates itself, once it has published its address
\* and the broadcast that follows is over and was not killed: no hint of its own
\* older address is left to override the new one (broadcast_presence).
OwnRelayPolled ==
    \A p, q \in Peer :
        /\ fan[p] = IdleFan /\ kills = 0
        /\ local[p].at[p] = home[p] /\ home[p] # 0
        => <<p, home[p]>> \in FetchUrls(p, q, FALSE)

\* A hint that is broadcast to a contact gets there, or lapses before, though the
\* relay of one of the two has moved and neither knows of it yet: what the sender
\* finds dead it passes by (deliver_encrypted), down to relays the contact polls.
\* Stamps beyond MaxStamps are those of publications; with two moves it does not hold.
HintsArrive ==
    \A p, q \in Peer : \A s \in 1 .. MaxStamps + 1 :
        fan[p].stamp = s /\ q \in fan[p].todo
            ~> presence[q][p].stamp >= s \/ lapsed >= s \/ kills > 0
=============================================================================
