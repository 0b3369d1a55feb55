------------------------------ MODULE Mailbox ------------------------------
(***************************************************************************)
(* A mailbox relay that requires capabilities: its blobs, its memory of    *)
(* nonces, and the signed requests of a client that reach it late, more    *)
(* than once, or never.                                                    *)
(*                                                                         *)
(* A request is named by its nonce, which travels as base64 text.  The     *)
(* decoding is not strict, so several texts, here the spellings of the     *)
(* nonce, decode to the bytes that are signed; the relay remembers the     *)
(* text.  The checks of the grant are module Capability's; where they fail *)
(* the relay answers 401 and nothing changes, so here they pass.  Time is  *)
(* counted in ticks of the relay's clock; the client's clock is a constant *)
(* offset away from it.                                                    *)
(***************************************************************************)
EXTENDS Integers, FiniteSets, Sequences

CONSTANTS
    Nonce,          \* bound: requests the client signs
    Spelling,       \* header texts that decode to one nonce
    Tag,            \* mailbox tags posted to
    Skew,           \* TIMESTAMP_SKEW_MS (5 min)
    NonceTtl,       \* nonces are remembered this long (10 min)
    MessageTtl,     \* MESSAGE_TTL_MS, the relay's maximum too (24 h)
    MaxBlobs,       \* max_blobs_per_tag (256)
    Offset,         \* what the client's clock may be ahead of the relay's
    Handling,       \* bound: ticks the relay takes over one request
    Lag,            \* bound: ticks between a post's encryption and its signature
    MaxTime         \* bound: the clock

ASSUME MailboxAssumption ==
    /\ Skew \in Nat /\ NonceTtl \in Nat /\ MessageTtl \in Nat /\ MaxBlobs \in Nat
    /\ Handling \in Nat /\ Lag \in Nat /\ MaxTime \in Nat /\ Offset \subseteq Int

\* A nonce is remembered (_prune_nonces) no shorter than a timestamp may be good,
\* from Skew before its time to Skew after.
ASSUME NoncesOutliveTimestamps == NonceTtl >= 2 * Skew

Request == [kind : {"post", "fetch"}, ts : Int, tag : Tag, expires : Int]
\* A row, stored when a request was let in: which, in which spelling, which time.
Blob == [tag : Tag, expires : Int, nonce : Nonce, text : Spelling, nth : Nat]

VARIABLES
    now,        \* the relay's clock
    offset,     \* how far the client's clock is ahead
    sent,       \* [Nonce -> SUBSET Request]: the requests signed
    seen,       \* [Nonce -> [Spelling -> SUBSET Int]]: _seen_nonces, by header text
    blobs,      \* the relay's rows
    passed,     \* history: [Nonce -> [Spelling -> Seq(Int)]], when it was let in
    acked       \* history: blobs answered 201

vars == <<now, offset, sent, seen, blobs, passed, acked>>

Init ==
    /\ now = 0 /\ offset \in Offset
    /\ sent = [n \in Nonce |-> {}]
    /\ seen = [n \in Nonce |-> [x \in Spelling |-> {}]]
    /\ blobs = {} /\ acked = {}
    /\ passed = [n \in Nonce |-> [x \in Spelling |-> <<>>]]

-----------------------------------------------------------------------------
(* The client *)

ClientNow == now + offset

\* capability_request_headers, with a fresh nonce.
Sign(n, r) ==
    /\ sent[n] = {}
    /\ sent' = [sent EXCEPT ![n] = {r}]
    /\ UNCHANGED <<now, offset, seen, blobs, passed, acked>>

\* sign_capability_request: a request for one endpoint and body, at the client's time.
Signed(kind, t, expires) == [kind |-> kind, ts |-> ClientNow, tag |-> t, expires |-> expires]

\* send_encrypted: the blob's expiry was fixed by _outer_blob.
Post(n) ==
    \E t \in Tag, lag \in 0 .. Lag : Sign(n, Signed("post", t, ClientNow - lag + MessageTtl))

\* fetch_relay_blobs.
Fetch(n) == \E t \in Tag : Sign(n, Signed("fetch", t, 0))

-----------------------------------------------------------------------------
(* The relay *)

\* verify_capability_request: the timestamp is within Skew.
Fresh(r) == r.ts - now \in -Skew .. Skew

\* (slip) A nonce is dropped when its time is reached.
Remembered_Short(t, at) == at - t < NonceTtl
\* _prune_nonces.
Remembered(t, at) == at - t <= NonceTtl

\* The blobs of a tag that have not expired, as store counts and fetch returns them.
Live(tag, at) == {b \in blobs : b.tag = tag /\ at < b.expires}

\* (slip) One more than the limit.
HasRoom_OneMore(tag, at) == Cardinality(Live(tag, at)) <= MaxBlobs
\* max_blobs_per_tag.
HasRoom(tag, at) == Cardinality(Live(tag, at)) < MaxBlobs

\* (slip) The longest expiry is not looked at.
ExpiryAllowed_AnyLength(r, at) == at < r.expires
\* BlobStore.store: neither expired nor longer than the relay's maximum.
ExpiryAllowed(r, at) == at < r.expires /\ r.expires <= at + MessageTtl

\* BlobStore.store of an accepted post, answered 201; 400 and 429 store nothing,
\* and the relay may die before it stores.
Store(n, x, r, at) ==
    LET b == [tag |-> r.tag, expires |-> r.expires,
              nonce |-> n, text |-> x, nth |-> Len(passed[n][x]) + 1] IN
    /\ r.kind = "post"
    /\ \/ /\ ExpiryAllowed(r, at) /\ HasRoom(r.tag, at)
          /\ blobs' = blobs \cup {b} /\ acked' = acked \cup {b}
       \/ UNCHANGED <<blobs, acked>>

\* fetch_blobs_post answers with the live blobs of a tag and takes none away.
Serve(r) == r.kind = "fetch" /\ UNCHANGED <<blobs, acked>>

\* store_blob and fetch_blobs_post, of a request whose nonce is spelt x: the clock is
\* read to verify it, to consume the text, and to store its blob, all within Handling.
Arrive(n, x) ==
    \E r \in sent[n], at, done \in now .. now + Handling :
        LET known == [m \in Nonce |-> [y \in Spelling |->
                                        {t \in seen[m][y] : Remembered(t, at)}]] IN
        /\ at <= done /\ done <= MaxTime /\ now' = done
        /\ Fresh(r)
        /\ IF known[n][x] = {}
           THEN /\ seen' = [known EXCEPT ![n][x] = {at}]
                /\ passed' = [passed EXCEPT ![n][x] = Append(@, at)]
                /\ Store(n, x, r, done) \/ Serve(r)
           ELSE /\ seen' = known
                /\ UNCHANGED <<blobs, passed, acked>>
        /\ UNCHANGED <<offset, sent>>

\* (slip) The sweeper takes the blobs of the coming tick too.
Swept_Early(b) == b.expires <= now + 1
\* BlobStore.sweep_expired.
Swept(b) == b.expires <= now

Sweep ==
    /\ blobs' = {b \in blobs : ~Swept(b)}
    /\ UNCHANGED <<now, offset, sent, seen, passed, acked>>

Tick ==
    /\ now < MaxTime /\ now' = now + 1
    /\ UNCHANGED <<offset, sent, seen, blobs, passed, acked>>

Next ==
    \/ Sweep \/ Tick
    \/ \E n \in Nonce : Post(n) \/ Fetch(n) \/ \E x \in Spelling : Arrive(n, x)

Spec == Init /\ [][Next]_vars

-----------------------------------------------------------------------------
(* Properties *)

\* Every part of the state keeps its type, and no blob outlives the relay's maximum.
TypeOK ==
    /\ now \in Nat /\ offset \in Offset
    /\ sent \in [Nonce -> SUBSET Request]
    /\ seen \in [Nonce -> [Spelling -> SUBSET Int]]
    /\ blobs \subseteq Blob /\ acked \subseteq Blob
    /\ \A b \in blobs : b.expires <= now + MessageTtl
    /\ passed \in [Nonce -> [Spelling -> Seq(Int)]]

\* A request is not let in again as it was sent, however late and however often it
\* arrives and whatever the client's clock: while its timestamp is good the text of
\* its nonce is remembered (verify_capability_request, consume_nonce, _prune_nonces).
\* Not so if it was let in within Handling of the first time its timestamp was good,
\* which takes a clock ahead by all of Skew; and in another spelling it counts as
\* another request.
NoReplay ==
    \A n \in Nonce, x \in Spelling : \A r \in sent[n] :
        Len(passed[n][x]) > 1 => passed[n][x][1] < r.ts - Skew + Handling

\* A blob answered 201 can be fetched until it expires: no sweep, no other post
\* and no restart removes it (store, fetch, sweep_expired).
AckedBlobServed == \A b \in acked : now < b.expires => b \in Live(b.tag, now)

\* What can be fetched of a tag is limited, the unswept rows beside it
\* notwithstanding (max_blobs_per_tag).
MailboxBounded == \A t \in Tag : Cardinality(Live(t, now)) <= MaxBlobs
=============================================================================
