# A TLA+ model of Yakr

Yakr is a store-and-forward messenger: peers pair with an invite, encrypt with a
double ratchet, and leave blobs for each other in mailboxes of relays that
their contacts run. There is no server that knows the order of anything. A
client is a set of short commands (`yakr send`, `yakr fetch`, `yakr profile
publish`, ...) over one SQLite database; a relay is a FastAPI process with its
own. Everything that can go wrong goes wrong between two commands, between a
command and a relay, or between what was stored and what was sent.

This directory models the Python packages under `src/packages/`. Paths below
are relative to them: `core` is `yakr-core/src/yakr_core`, `cli` is
`yakr-cli/src/yakr_cli`, `relay` is `yakr-relay/src/yakr_relay`, `mobile` is
`yakr-mobile/src/yakr_mobile`.

## Inventory

| Part | State | Operations | Interacts with |
|---|---|---|---|
| Client store, sending and fetching (`core/store.py`, `core/session.py`, `cli/main.py`, `cli/fetch_cmds.py`, `cli/receipt_cmds.py`) | contact row (counters, ratchet), `outbound_pending`, `inbound_messages`, `pending_receipts` | send, resend, presence push, fetch (flush receipts, collect, accept in order, acknowledge), expiry | relays by POST and fetch; its own other processes through the database |
| Double ratchet (`core/ratchet.py`, `core/session.py`) | root, chain keys, counters, skipped keys | pairing init, encrypt, decrypt, DH step | stored with the contact; kept or put back by the fetch and the receipts |
| Pairing (`core/pairing.py`, `relay/pairing_store.py`, `cli/invite_cmds.py`, `relay_pairing.py`, `rendezvous.py`, `offline_cmds.py`) | the relay's `pairing_sessions`, `pending_pairing.json`, rendezvous state | register, post and poll request and response, serve, offline QR steps, sweep | creates the contacts of both ends |
| Capabilities (`core/capability_client.py`, `capability_grant.py`, `relay/capability_store.py`) | `capability_grants` of the client, registry of the relay, generation and salt in the profile | issue, renew, rotate, provision, overlap | needed by every post and fetch at a relay that requires them |
| Relay mailbox (`relay/store.py`, `relay/app.py`) | `blobs`, seen nonces | store, fetch, sweep, check of signed requests | carries the blobs of Delivery |
| Profiles, acknowledgements, presence (`core/delivery_profile.py`, `profile_ack.py`, `presence.py`) | local profile, contacts' profiles and versions, presence rows, acknowledgements | publish, acknowledge, refresh, broadcast | sent as messages of Delivery; give the URLs to post to |
| URL choice and failover (`cli/network.py`, `core/routing.py`) | route state | order, fail over, refresh | profiles and presence |
| Mailbox tags and direct delivery (`core/mailbox.py`, `core/privacy.py`, `cli/direct_server.py`) | none (hourly epochs); the direct server's one blob per tag | derive, candidates, decoys; store and fetch directly | Delivery's posts and fetches |
| Mobile client (`mobile/client.py`, `encrypted_store.py`) | the client database and an encrypted copy of every contact in a second one | pair by QR, send, fetch, receipts | the CLI's receipt and delivery code, which sees only the client database |
| Tickets, TLS, onion, privacy, crypto, deployment, test kit, Rust port | see `PROJECT.json` | | |

What is hard in this code:

- **Whole-row saves.** Each command is a process that loads a contact, computes,
  and stores the whole of it. No lock is shared between processes: `fetch_lock`
  is a `threading.Lock` of the store object (`core/store.py:130`), and each
  command makes its own (`cli/main.py:58`); send, resend and pushes take none.
- **One counter for everything.** Texts, receipts and pushes share
  `next_send_seq`, and the receiver accepts exactly `last_recv_seq + 1`; a
  number that is used and never arrives blocks all that follow.
- **Two ratchets that must be kept in step by convention.** A receipt does not
  advance the chain, a push does, a text does on both sides.
- **Lost answers.** The relay may have stored what the client believes failed.
- **Crashes** between a commit and the POST it announces, or between two commits.
- **Two clocks** and limits that meet exactly (24 h lifetime and 24 h maximum;
  ±5 min and 10 min; 24 h grants and 48 h overlap).
- **A tag for every hour.** A message keeps the tag of its hour, is polled for
  under three tags, newest first, and is accepted only in sequence.
- **One contact in two databases** on the phone, committed one after the other,
  read from the copy by one half of the code and from the row by the other.

What makes each part correct: a text is stored once and its receipt is not lost,
whatever runs side by side; with one command of a peer at a time delivery is in
order, what is acknowledged was stored, and no sequence number is left empty; every message the peer keeps in order can be
decrypted; the two ends of a contact hold one master secret, and neither end is
paired alone; a rotation never takes away a grant in use; a signed request is
let in once as it was sent and an acknowledged blob is served until it expires; a text posted
in its hour is polled for before its tag is out of reach.

## Modules

| Module | Models | Checked by | Proofs |
|---|---|---|---|
| `TextChannel` | what delivery promises: texts of one sender arrive once, in order, and are acknowledged only after arriving | `ImplementsChannel` of `Delivery`, `InboxIsChannel` of `Mobile` | the two refinements |
| `Delivery` | two peers, their databases, the commands at their terminals, and the relay | `MCDelivery`, three runs; `MCTerminals`, one run | `DeliveryProofs` |
| `Ratchet` | the ratchets of two paired peers with symbolic keys | `MCRatchet`, two runs | `RatchetProofs` |
| `Pairing` | one invite, its joiners, the inviter's commands and the relay's pairing mailbox | `MCPairing`, one run | `PairingProofs` |
| `Capability` | one relay's registry and one client's grants, profile and processes | `MCCapability`, one run | `CapabilityProofs` |
| `Mailbox` | one relay's blobs and nonces, and a client's signed requests | `MCMailbox`, one run | `MailboxProofs` |
| `Directory` | the profiles and presence hints of all peers, and the relays they post to and poll | `MCDirectory`, one run | `DirectoryProofs` |
| `Mobile` | the mobile client's two databases, the threads of an app that embeds it, and the peer | `MCMobile`, one run | `MobileProofs` |
| `Transit` | texts under hourly tags, direct server, relays with failover, and the fetch that works through the tags | `MCTransit`, one run | `TransitProofs` |

The modules are joined by what one takes from another, not by one product
state space. `Delivery`'s relay is the store that `Mailbox` describes in detail
(an acknowledged blob is served until it expires); its acceptance rule takes
for granted that the ratchet can open the next message, which `Ratchet` shows;
its posts and fetches may fail for want of a capability, which is one outcome
of a POST; its contacts are those `Pairing` makes; which relays it may use is `Directory`'s,
whose letters are opened in the order that `Delivery` keeps. `Transit` opens what
`Delivery` abstracts as "a fetch sees what the relay holds": it says when that is
so. `Mobile` is a second implementation of the receiving half, over the same
receipt code, and implements the same `TextChannel`.

### Delivery

State: `contact[p]` is the stored row (`next_send_seq`, `last_recv_seq`),
`outbound_pending`, `pending_receipts` and `inbound` the tables, `relay` the
blobs posted, `expired` those past their 24 h. A peer has one or several
terminals (`Terminal`, `At`); a terminal runs one command after another (`Free`),
and commands of different terminals run side by side, two fetches, or a flush
beside a fetch, included. A process is a program counter with its own copy of the
contact. Each load and each commit is an action of its own; everything the code
does in one transaction is one action. `SendLoad`/`SendCommit` are `send`,
`Resend...` the resend loop with its refresh and its re-encryption of a row that
went, `Push...` the presence broadcast, `Fetch...`, `Collect`, `Accept...` the fetch,
`FlushCommand`, `FlushNext`, `Receipt...` the receipts and their flush. A POST has
three outcomes: stored and answered, refused, stored and not answered.
`KillFetch` and `KillCommand` end a process anywhere. `MaxTyped` may bound the
commands of a terminal, `MaxExpired` says how many
messages reach their 24 h. `dropped` records the numbers that the code gives up: those
of pushes that were refused and of processes killed before their POST.

Properties that hold for any terminals: `ReceiptNeverLost` (a stored text's receipt
is queued or at the relay) and `ReadOnce` (no text is stored twice, although
a save of an old copy sets `last_recv_seq` back and the text is accepted again).
With one terminal a peer: `AckedWasStored` (what a receipt acknowledges was written to
`inbound_messages`), `ImplementsChannel` (the refinement of `TextChannel`) and
`NoSequenceHole` (the number the peer waits for has a message that can arrive,
unless the message expired or its number is in `dropped`: the saves of old copies,
the numbers that receipts give back and the rows that resends clear leave none
empty). With receipts that get through besides: `SenderAhead` (the
sender's next number is beyond all the receiver consumed), `DistinctSeqs`,
`TextsArrive`, `ReceiptsArrive`.

### Ratchet

Keys are terms: a chain is the root it came from and a count of steps, a root is
the sequence of DH pairs mixed in. Two keys are equal exactly when the
derivations are. `OnlyLimitsRefuse` says that the next message a peer expects
can be opened unless the limits on skipped keys (128 in a row, 256 in all;
smaller here) forbid it; it is what the send-side rules (a receipt puts the
ratchet back, a push does not) and the receive-side rules (only a text keeps
it) must achieve together, through crossing DH steps.

### Pairing

A request is a joiner and an attempt; a master secret is the request and the
number of the inviter's key pair. `AgreeOnSingleAnswer`, `NoSilentHalfPairing`
and `AnswerFinal` speak about several waiting commands and repeated accepts.
The relay's sweep may happen 30 min after registration, when no waiting command
of 120 s can still be active (`Age`).

### Capability

Ids are pairs of generation and salt, since the id is derived from them.
The client's processes are those that post and fetch and one in which its owner
publishes or pairs; each goes through load, ask, the relay's two steps
(`IssueRevoke`, then `IssueRegister`; the endpoint runs in a thread pool), and
the save. `Stop` is every way a step fails.

### Mailbox

A request is named by its nonce and may arrive any number of times, whenever, and in
any `Spelling`: the signature covers the decoded nonce (`relay/app.py:168`) and the
relay remembers the header's text (`relay/capability_store.py:130`), and the decoding
is not strict, so that one nonce has many texts. `seen` and `passed` are therefore by
nonce and spelling, and `NoReplay` says that a request is not let in again *as it was
sent*. `Arrive` reads the clock for the signature, for the nonce and for the blob, at
most `Handling` apart; `NoReplay` leaves out a request let in within `Handling` of the
first moment its timestamp was good, which needs a client ahead by all of the 5
minutes. A grant that fails its checks is a 401 that
changes nothing and belongs to `Capability`.

### Directory

Peers and the relays they run; a relay is named by its operator, and its
address is a number that grows when it moves. `local`, `held`, `acked` and
`presence` are the stored profile, the contacts' profiles, what contacts have
acknowledged, and the `relay_presence` table. `DeliveryTiers` and `FetchUrls`
are `delivery_mailbox_urls` and `fetch_mailbox_urls`; a letter lies at the relay
of the first tier that is up, and is received when its recipient polls that
relay where it is now. `Publish` is `profile publish`, with the broadcast it
starts when an address changed; `FanOut` and `FanEnd` are that broadcast, contact
by contact; `Kill` ends it anywhere; `Lapse` is a hint's 30 minutes. There is no
push of a profile: `profile push` ends in a `NameError` before it saves or posts
anything (`cli/profile_cmds.py:196`, see the known limits), so that what contacts
hold of a profile, and count as acknowledged, is what they paired with.

Properties: `GatedWithinFetch` (the relays a sender posts to are polled, by name,
however far its own profile has moved on since the pairing), `OwnRelayPolled` (a
peer's own older hint does not divert it from its own relay), and `HintsArrive` (a
hint that is broadcast reaches its contact or lapses, though one relay has moved and
neither end knows).

### Mobile

`row` is the contact in the client database, `kv` its encrypted copy in
`MobileStore`'s own. A save of the client commits the row and then the copy
(`SaveRow`, or the commit of a text with its row, then `SaveCopy`); it reads the
copy (`Loaded`). `send_delivery_receipt`, shared with the CLI, is given the file
store and reads and writes the row only (`Receipt...`); `Merge` is the fetch
reading the contact back afterwards. The `fetch_lock` excludes
nobody, since `file_store` makes a new store with a new lock at each use
(`encrypted_store.py:43`); so the fetches of `Thread` run side by side, in an app that
starts more than one: the repository has `FetchWorker` for that, but nothing in it
runs one beside the window (`toga_app` starts no worker). A fetch loads the contact once
(`FetchBegin`) and then polls tag after tag (`Collect`, `NextTag`), while others post.
`Kill` ends the
app between any two commits. `pending_pairing` outlives a kill before
`FinishClear`, so that `Finish` may run again and put the counters back.

Properties: `ReceivedIsStored` (neither copy is past a text that is not stored),
`ReceiptQueuedOrPosted`, and `InboxIsChannel`, the refinement of `TextChannel` for
the peer's texts: with two fetches at once, copies that disagree and an app that
dies, texts are still stored once and in order.

### Transit

A text is its sequence number, and `epoch` the hour whose tag it was given for
good. `Encrypt` and `Resend` begin a command that tries the direct server
(`PostDirect`, one blob per tag) and then the relays in order (`PostRelay`,
stored and answered, stored and not answered, or failed). `FetchBegin` fixes
the tags, `FetchTag` polls the newest that is left everywhere, `Accept` and
`TagEnd` are the passes over its queue. `DirectRestart` loses the server's
memory. `PostsDirect` and `PollsDirect` are two constants, because the sender posts
to the hints of the recipient's profile and the recipient polls those of the
sender's.

Properties: `HourInOneFetch` (a fetch that reaches every relay delivers all that
waited of the hour of the first text that waited) and `PromptTextsArrive` (texts
posted in their hour, whichever relay took them after whatever failover, are
delivered while their tag is polled). Because an hour that follows an undelivered
one is dropped from the queue before the earlier tag is polled, a fetch makes
good one hour only; hence a recipient may miss fewer hours than the lookback.

## Runs

| Run | Bounds | Shows |
|---|---|---|
| `delivery_serial` | one terminal a peer, two texts of one peer and a presence push, 5 numbers, one tag per fetch, receipts that fail, POSTs of commands whose answer is lost, one kill, one expiry | at most once, in order, nothing acknowledged unread, no number left empty but by the kill or the expiry |
| `delivery_concurrent` | two terminals of Alice and one of Bob, two texts of hers and one of his, at most five commands (2, 1 and 2), 3 numbers, receipts answered, refused or unanswered | no receipt lost and no text stored twice, even when the counters go back |
| `delivery_live` | one terminal a peer, a text each way, 8 numbers, two tags per fetch, failing commands, receipts that get through | all counters consistent, no hole, everything arrives and is acknowledged |
| `delivery_stale_flush` | as above, receipts may fail | **violation**: the fetch's stale copy undoes the flush's counter |
| `ratchet` | two texts, one receipt, two pushes of each peer; limits 1 and 2 | messages are refused by the limits only |
| `ratchet_mobile` | two texts, one receipt | **violation**: keeping the ratchet after a receipt loses the next text |
| `pairing` | two joiners, two attempts each, two waiting commands, three waits, one kill | agreement, no half pairing, final answers |
| `capability` | one messenger and one publisher, three salts, three instants | rotation, permissions, generations |
| `mailbox` | two requests of two spellings, two tags, mailboxes of one, clocks -1, 0, +2 | no replay as sent, acknowledged blobs served, bounded mailbox |
| `directory` | three peers with a relay each, one of which moves; one presence push beside the publication's, one kill | gate, own relay, hints that arrive across a move |
| `mobile` | two threads, one text of the client, two messages of all kinds in all, 2 numbers, receipts that fail, one kill | the phone's inbox is the channel, no text skipped, no receipt forgotten |
| `transit` | two texts, four hours, two relays, the direct server, lookback 1, a fetch in every hour, one failed post or poll | one hour per fetch, no prompt text out of the lookback |

Why the bounds suffice. Two texts are the least for order and duplication, and
a third number is always there in the receipts; one kill reaches every single
point of failure. Kills, expiry and pushes are explored in
`delivery_serial`, commands side by side in
`delivery_concurrent`, since the product of both is too large to exhaust; what holds of
one with the faults of the other is left to the theorems (`NoReceiptLost` and
`NothingReadTwice` cover both at once). Two terminals of one peer give every
pair of commands side by side, and the five typed commands let a send, a resend or a
flush run beside a fetch, or two fetches beside each other, with one more command of
either end before and after; `MaxTyped` counts them, which bounds the states without
excluding an interleaving. In `ratchet`, two texts of each side give two DH steps of each
side, and the limits are passed by the bounded pushes. In `pairing`, two
attempts of two joiners and two commands give every overwrite of the session's
one request and one response. In `capability`, three generations are needed for
a renewal with the material of an older profile; the relay's clock runs through
one grant's lifetime and one overlap, and the client's is one behind it, so that it
keeps a grant the relay has let expire. In `mailbox`, the clock runs past the time
a nonce is remembered (4) and a blob's life (5), the client's is behind, right or
ahead by as much as a timestamp may be (2), and the second request finds its mailbox full or empty. In `directory`, the
peer whose relay moves has two contacts that do not
know each other, so that its next profile lists to one a relay of the other; hints
of before and after the move cross. In
`mobile`, one message of each end, or two of the peer, meet every point of a kill and
every interleaving of the two fetches. In `transit`, four hours let the
first tag leave the lookback of one with an hour to spare, and two texts in one hour or in
two are the least for order; that an hour may be missed when the lookback is longer is
left to the theorem `PromptTextsDelivered`. Every invariant and every action property of
these runs is a theorem as well, without the bounds. Bounds are the constants named
`Max...`; they appear as guards.

Deadlock is checked in `delivery_live` and `delivery_stale_flush`. In the others
the system may stop: all requests are spent, all pairings made, or the clock
has reached its bound.

Fairness (`FairSpec` of `Delivery`): a process that was started takes its next
step; users and pollers start `fetch` and `resend` again and again; a command's POST or a
poll that is repeated without end succeeds at some time. Nothing else is
assumed: no fairness on sending, on failing or on kills. `TextsArrive` and
`ReceiptsArrive` are checked without kills, with one terminal a peer, and with receipts whose POSTs succeed at once, because each of these
refutes them (see known limits). They also assume that a peer fetches before
its mailbox tags are out of reach, which is what `Transit` is about. `Transit`
itself has no fairness: its `Tick` lets an hour pass without a fetch at most
`MaxMissed` times, the poll worker's regularity stated as a bound.

Fairness (`FairSpec` of `Directory`): a broadcast runs on unless it is killed, clients
poll, and a peer whose relay moved publishes. Hints are not assumed to lapse, nothing
else is repeated, and no profile reaches anybody after pairing. `HintsArrive` is
checked where every peer runs a relay of its own, one of them moves, and relays
that are up take what is posted, because each of these is needed (see known limits).

## Proofs

Checked by TLAPS for every value of the constants: any number of terminals, texts,
kills, processes, requests and ticks.

- `DeliveryProofs`, for any number of terminals: `TypeCorrect`; `NoReceiptLost`
  (`ReceiptNeverLost`), which follows the receipt of every stored text from the row
  committed with it to the relay, past other processes that post and delete the same
  queued receipt; `NothingReadTwice` (`ReadOnce`), whose invariant says that a text
  has one number for good, and that the row with that number, once written, stays until
  the text expires, so that a second acceptance finds it, wherever `last_recv_seq` was
  set back to.
  What follows needs `Solo`, one terminal a peer. Its invariant `SerialInv` says that command
  and fetch exclude each other, and that whatever copy of the contact a process holds is
  not behind the stored `last_recv_seq`.
  `NothingAckedUnread` (`AckedWasStored`) and `ChannelImplemented`
  (`ImplementsChannel`), whatever is killed, lost,
  refused or expired, rest on `OrderInv`. Its sender's part (`SendSide`) says that the
  numbers of the texts a peer has made follow the order in which they were made, and
  that no copy of the contact that may be stored counts below one of them
  (`CountersAbove`); the receiver's (`ReadSide`), that no row of `inbound_messages` is beyond
  `last_recv_seq`, and that what was delivered is a text on a relay that is not either; the
  receipts' (`ReceiptSide`), that they name stored texts. So an accepted text is new, and
  later than all delivered before, which is `Deliver` of `TextChannel`; each other
  step maps to `Submit`, `Acknowledge` or a stutter. `SendSide` is about texts alone: a receipt that is
  refused gives a number back, but never one that a text has.
  `NoNumberIsLost` (`NoSequenceHole`), under all of kills, expiry, refused pushes and receipts
  and lost answers, by `HoleInv`: each number below the stored counter
  is accounted for, and no copy of the contact counts beyond it.
  `SenderStaysAhead` (`SenderAhead`) and `NumbersNeverReused` (`DistinctSeqs`) have two more hypotheses,
  each of which is what the code needs and does not ensure: `ReceiptsAnswered`, no receipt is
  stored whose answer is lost (`cli/receipt_cmds.py:81`), and `[]FlushedApart`, no fetch begins
  with receipts queued, but `receipts flush` goes before it
  (`cli/fetch_cmds.py:64`; the run `delivery_stale_flush` is the counterexample without it).
  Receipts may be refused, commands killed and messages expire. `NumberInv` says that every copy
  of a contact that a process may store counts like the stored one, that the messages a peer has
  numbered, on the relay, retained or being posted, have distinct numbers below the next,
  and that nothing else was consumed.
- `CapabilityProofs`: `TypeCorrect`; `RotationKeepsGrants`
  (`HeldGrantsRegistered`) by `RotationInv`: every grant held anywhere,
  those in answers on their way included, is covered, that is, its id is active
  and its overlap, if it has begun, ends no earlier than the grant; `SessionsPermit`.
  It rests on `OverlapCoversGrants`: the overlap is no shorter than a grant.
  `StoredNeverLater` (`StoredFollowsProfile`) and `PublishedNeverFalls`
  (`GenerationNeverFalls`) by `GenerationInv`: whatever is stored or under way is of no later generation than
  the profile (`HeldWithin`), but for a publication that is not saved yet; the profile, and such a
  publication, is at most one generation ahead of what is stored (`ProfileInReach`).
- `PairingProofs`: `TypeCorrect`; `FirstAnswerStands` (`AnswerFinal`);
  `OneAnswerAgrees` (`AgreeOnSingleAnswer`) by `AnswerInv`: what either end stored, or can
  come to store, is an answer that was given out, to a request of that joiner (`StoredAnswers`),
  and nobody keeps two (`SingleAnswers`); `NoEndLeftAlone` (`NoSilentHalfPairing`) by
  `AnswersKept`: an answer given out is stored by the inviter or in the hands of a command
  that will store it, unless a process was killed.
- `RatchetProofs`: `TypeCorrect`; `SkippedBounded` (`SkippedOfCurrentChain`) for any
  limits; `TextKeysNeverRepeat` (`TextKeysDistinct`) by `KeyInv`: every key anybody
  knows was generated by its owner (`KeysKnown`), so a new key makes a new root and a new
  chain, the chain a peer sends on is its own, and its texts in it are below its counter
  (`OwnChains`). `OnlyLimitsRefuseMessages` (`OnlyLimitsRefuse`) for two peers that fetch
  with `decrypt_inbound` (`Restoring = Peer`; with the mobile client's `decrypt_outer` it is false,
  run `ratchet_mobile`) by `Agreement`: the two ratchets are equal up to one DH
  step that one peer is ahead (`InStep`), all that is on its way fits the chain it
  will meet (`FlightFits`), and so does what either peer would send next (`UpcomingFits`).
  `NoKeyIsNoPair` is about the model's names: no peer is called like the absent key.
- `MailboxProofs`: `TypeCorrect`; `RequestsPassOnce` (`NoReplay`) by `ReplayInv`:
  a text of a nonce let in is too old to pass or remembered from a time not before it
  was signed, for every clock of the client; `AckedIsServed`; `MailboxIsBounded`. It
  rests on `NoncesOutliveTimestamps`: nonces are kept for the skew on both sides of a
  timestamp, as the relay's 10 min are for 5.
- `DirectoryProofs`: `TypeCorrect`; `GateKeepsWithinFetch` (`GatedWithinFetch`) by
  `OnlyAdded`: what a peer once listed it can list again, so every profile lists
  what earlier ones did; acknowledged names are among them. The property alone is not
  inductive since it says nothing of the profiles to come; `OwnRelayIsPolled`
  (`OwnRelayPolled`) by `OwnHintsCurrent`: unless a broadcast was killed, what a peer
  broadcasts, and keeps for itself, is the address in its profile.
- `MobileProofs`: `TypeCorrect`; `NothingIsSkipped` (`ReceivedIsStored`), where the
  invariant `StoredInv` extends the property to the copy of the contact every thread holds,
  since any of them may be stored next, by a thread that knows nothing of the
  others; `ReceiptsKept` (`ReceiptQueuedOrPosted`) by `ReceiptInv`: a receipt whose queued row
  is about to go is at a relay; `InboxImplemented` (`InboxIsChannel`) by `ChannelInv`:
  the peer's texts on the relay are numbered in the order of their making, the
  rows have no gap and are what was read, and a receipt under way or at a relay is for a text that was
  read. It bounds neither threads nor kills.
- `TransitProofs`: `TypeCorrect`; `HourDelivered` (`HourInOneFetch`) by `FetchInv`,
  whose part `Progress` says of every text that is due that it is delivered, or its
  tag is still to be polled, or it is in the queue with all that go before it;
  `PromptTextsDelivered` (`PromptTextsArrive`), for every lookback longer than
  the hours missed, by `ArrivalInv`: hours never decrease along the sequence
  (`Ordered`), every hour with a fetch shortens the backlog by its oldest hour
  (`FoundOlder`), so that the oldest undelivered text lags the clock by at most the
  missed hours and one (`Lag`, and `LagAsked` while a fetch runs). Neither bounds
  texts, relays, hours or failures.

Every invariant and every action property that a passing run checks is stated by one of these
theorems, and so are both refinements of `TextChannel`. Only model-checked are the liveness properties
`TextsArrive`, `ReceiptsArrive` (`delivery_live`) and `HintsArrive` (`directory`): liveness under
fairness is outside the prover's reach. The library's
induction over data cannot be instantiated with the installed provers, so
nothing is proved about recursively computed values; the modules with proofs
have none, and the order of a sequence that grows (`delivered`) is carried by invariants
that relate its last element to all the others.

The assumptions of the theorems are those the modules state by `ASSUME`, which TLC evaluates
in every run, and the hypotheses named above: `Solo` (`delivery_serial` and `delivery_live`
satisfy it), `ReceiptsAnswered` (`delivery_live` does), `[]FlushedApart`, and `Restoring = Peer`
(`ratchet` does).

## Known limits of the code

Besides the two violation runs, modelling met these disagreements with the
documents; the model has them as behaviours that the constants select.

- A receipt whose POST was stored but not answered gives its number back
  (`cli/receipt_cmds.py:81`); the next message takes it again, although
  `docs/spec/fetch-algorithm.md:69` wants a distinct number for each.
- A process killed between the save of the contact and the POST of a receipt
  (`cli/receipt_cmds.py:66`) has used a number that nothing carries, and the
  peer accepts no later one, although `delivery-state-machine.md:169` has a crash
  recover on the next flush.
- A text that expired unread blocks its conversation (`core/session.py:190`),
  although `docs/spec/delivery-state-machine.md:82` suggests to send it anew.
- A presence push that fails has used a number that nothing carries
  (`cli/presence_cmds.py:83`), which `delivery-state-machine.md:157` forbids.
- `yakr profile push` always ends in a `NameError` (`cli/profile_cmds.py:196` uses
  `Session`, which the file does not import), before anything is saved or posted. Contacts
  never receive a profile after pairing, although `docs/homelab-relay.md:20`, `:169` and
  `docs/spec/relay-failover.md:32` build on it.
- Processes of one client exclude each other nowhere (`core/store.py:130`, `cli/main.py:58`),
  although `docs/spec/fetch-algorithm.md:12` has `fetch_lock` keep concurrent polls from
  double-applying a number. Two fetches, or a `send` beside a fetch
  (`delivery-state-machine.md:141` allows it), store old copies of the contact: `last_recv_seq`
  goes back and texts are accepted again, which `ReadOnce` shows to store nothing twice.
  With a number that is used twice at one end, and accepted twice at the other, `INSERT OR IGNORE`
  (`core/store.py:506`) drops the second body, whose receipt is queued in the same
  transaction. `AckedWasStored` is therefore false with two terminals: two texts of one
  peer, one push of the other, three numbers and POSTs that all succeed are enough (a trace of 37
  states, in which the number is used again by a second send, or by a resend whose row a receipt
  has just deleted).
- A signed request passes again when its nonce is written differently: the signature is
  checked over the decoded bytes (`relay/app.py:168`), the replay check keeps the header's
  text (`relay/app.py:170`, `relay/capability_store.py:133`), although
  `docs/spec/relay-capability-v1.md:65` wants a nonce once in its window. `NoReplay` is about one text.
- A nonce is forgotten 10 min after it was consumed, just when its timestamp ceases to be good if
  the client's clock is ahead by all of 5 min; the clock is read twice in between
  (`core/capability_grant.py:241`, `relay/capability_store.py:53`), so the request can pass again in that
  moment (`Handling` in `NoReplay`).
- A resend deletes the pending row on 201 (`cli/network.py:649`), though
  `delivery-state-machine.md:15` keeps it until the receipt.
- A blob is stamped with the client's clock plus 24 h (`core/session.py:69`) and
  refused beyond the relay's clock plus 24 h (`relay/store.py:89`): the posts of a
  client whose clock is ahead are refused, although
  `docs/spec/relay-capability-v1.md:58` tolerates 5 minutes.
- The relay sweeps a consumed pairing session 30 min after its registration
  (`relay/pairing_store.py:49`), within the 24 h of its invite, which can then be
  answered once more; `docs/spec/phase-4-invites.md:44` says it cannot.
- Presence hints of anybody are posted to without regard to what the recipient
  polls (`cli/network.py:257`), against `relay-failover.md:25` as well.
- A recipient that polls no relay but the sender's is cut off when that relay moves,
  once the hint has lapsed unread. When the relays of both ends have moved, neither hint
  arrives: each is posted to the other's old address, and to relays the other knows by
  their old address only.
- A `profile publish` killed in its broadcast leaves one's own older hint in force, and
  one's own relay unpolled, for up to 30 minutes (`cli/presence_cmds.py:104`).
- A receipt would acknowledge no pushed profile either: `fetch_contact_inbound` goes on to the
  next message after applying it (`cli/fetch_cmds.py:135`), although
  `docs/spec/relay-failover.md:33` describes the receipt.
- A peer that listed no relay when it paired falls back on every relay of its newer
  profile (`cli/network.py:147`), and what it posts there its contact does not poll,
  although `relay-failover.md:25` says "This guarantees **send ⊆ fetch**":
  `GatedWithinFetch` is therefore about peers that listed one.
- Mailbox tags look two hours back (`core/mailbox.py:37`), messages live 24 h: a text
  that waited longer is never polled for. A fetch polls the newest tag first and
  drops what is out of sequence (`cli/fetch_cmds.py:83`), so texts of two hours take
  two fetches, although `fetch-algorithm.md:95` says "Burst send (N messages) → single
  fetch delivers all N in `seq` order.": as many hours as the lookback, unfetched, and
  the conversation is stuck.
- A resend posts under the tag the text was first given, and deletes the row on
  the 201 (`cli/network.py:649`): after the lookback it posts where nobody polls, and
  then forgets the text. `delivery-state-machine.md:24` keeps the row until the receipt.
- The direct server keeps one blob under a tag (`cli/direct_server.py:42`): the second
  text of an hour replaces the first, whose sender was told it is delivered. The
  sender posts to the hints of the recipient's profile (`cli/network.py:532`), the
  recipient polls those of the sender's (`cli/fetch_cmds.py:79`).
- `yakr send`'s dummy blob takes the first of its decoy tags with a lookback of 0
  (`cli/main.py:261`), which is the real tag of the hour: the recipient finds and
  discards it.
- On the phone the receipt's number is given to the next message again:
  `client.py:312` reads the contact back from the copy, which never saw the receipt,
  although `fetch-algorithm.md:69` wants the send-side state merged. Receipts that fail
  stay queued for ever (nothing flushes them), texts that fail are never
  sent again, and a contact that is gone once the lock is taken ends the fetch with
  a `NameError` (`client.py:203`: the exception is not imported).
- `complete_pairing_as_joiner` builds a second request, with new keys, after the first
  was sent (`client.py:147`); the transcript then differs from that of the response.
- `FetchWorker.poll_all` stops at the first contact whose fetch raises
  (`client.py:381`), and the next poll begins with it again.
- An expired profile is replaced by what its owner's address serves, without
  the comparison of versions of `apply_profile_push` (`cli/network.py:407`).
- A capability that cannot be issued raises a `RuntimeError` (`core/capability_client.py:330`) that
  ends a fetch with the relays that are left unpolled; the modules have it as a fetch that stops.
- The relay's registry of capabilities is written in place without a lock
  (`relay/capability_store.py:41`); `register` makes a revoked id active again
  (`relay/capability_store.py:80`), which only the tests' calls of the revoke endpoint
  could reach.

## Not modelled

See `PROJECT.json`: tickets (made afresh for each request and kept nowhere), onion
wrapping and the entry role (no client wraps a message, only tests do), TLS and
HTTP, padding and jitter, cryptographic primitives, QR images, deployment, the
test kit and the Rust port hold no state that the properties above depend on, or
are pure I/O. Of modelled parts: explicit routes and their recorded successes
(they only order attempts), disappearing messages, profiles that expire after 7
days, two publishing commands at once, the phone as the inviter of a
pairing, and the non-atomic write of the registry's JSON file.

## Plan

Order of the modules, the most important behaviour first: `TextChannel`,
`Delivery`, `Ratchet`, `Pairing`, `Capability`, `Mailbox`,
`Directory`, `Mobile`, `Transit` (done). What is left to model is
`Directory` with profiles that expire and are fetched again from their owner,
and a second publisher in `Capability`, whose generations then tie.

What is left to prove is how far `NoSequenceHole` and the refinement of `TextChannel` reach with
several terminals of one peer, of which `ReceiptNeverLost` and `ReadOnce` are what is known to hold.
