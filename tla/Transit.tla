------------------------------- MODULE Transit -------------------------------
(***************************************************************************)
(* The way of the texts of one end to the other, hour by hour: a text has  *)
(* the mailbox tag of the hour it was encrypted in (core/mailbox.py), for  *)
(* good; it is posted to the direct server that the recipient's profile    *)
(* names, or else to the relays in their order (cli/network.py); a fetch   *)
(* polls the tags of the last hours one after another, the newest first,   *)
(* and accepts under each what is next in sequence (cli/fetch_cmds.py).    *)
(*                                                                         *)
(* Abstractions: all messages are texts of one sender, known by their      *)
(* sequence numbers; one command of each end at a time (module Delivery    *)
(* has the others); decoy tags answer nothing; the hours of an instance    *)
(* are fewer than a message lives.                                         *)
(***************************************************************************)
EXTENDS Integers, Sequences

CONSTANTS
    Relay,          \* the relays
    Mailboxes,      \* a sequence of them: where the sender posts, in its order
    PostsDirect,    \* does the recipient's profile name the direct server?
    PollsDirect,    \* does the sender's?
    Lookback,       \* hours before the current one that are polled
    MaxTexts,       \* bound: texts
    MaxHour,        \* bound: hours
    MaxMissed,      \* bound: hours in which the recipient fetches nothing
    MaxFailed       \* bound: posts and polls that fail

ASSUME TransitAssumption ==
    /\ Mailboxes \in Seq(Relay) /\ Mailboxes # <<>>
    /\ PostsDirect \in BOOLEAN /\ PollsDirect \in BOOLEAN
    /\ Lookback \in Nat /\ MaxTexts \in Nat /\ MaxHour \in Nat
    /\ MaxMissed \in Nat /\ MaxFailed \in Nat

VARIABLES
    hour,       \* the current mailbox epoch
    epoch,      \* Seq(Hour): the hour whose tag a text has
    pending,    \* SUBSET Nat: outbound_pending
    relay,      \* [Relay -> SUBSET Nat]: the texts a relay has stored
    direct,     \* [Hour -> Nat]: under each tag the text the direct server has, or 0
    sending,    \* the sender's command
    last_recv,  \* the recipient's last_recv_seq
    fetch,      \* the recipient's fetch
    asked,      \* history: what there was when the fetch began
    prompt,     \* history, SUBSET Nat: texts a relay stored in the hour of their tag
    fetched,    \* history: did a fetch of this hour reach every relay?
    missed,     \* how many hours had no such fetch
    failed      \* how many posts and polls failed

recipient == <<last_recv, fetch, asked>>
counts == <<fetched, missed>>
vars == <<hour, epoch, pending, relay, direct, sending, recipient, prompt, counts, failed>>

Hour == 0 .. MaxHour
Text == 1 .. Len(epoch)

Command == [pc : {"idle", "direct", "relay"}, text : Nat, again : BOOLEAN, at : Nat]
Fetch == [pc : {"idle", "poll", "drain"}, tags : SUBSET Hour, queue : SUBSET Nat]
Asked == [hour : Hour, first : Nat, held : SUBSET Nat, clean : BOOLEAN]

NoCommand == [pc |-> "idle", text |-> 0, again |-> FALSE, at |-> 0]
NoFetch == [pc |-> "idle", tags |-> {}, queue |-> {}]
NotAsked == [hour |-> 0, first |-> 0, held |-> {}, clean |-> FALSE]

Init ==
    /\ hour = 0 /\ epoch = <<>> /\ pending = {}
    /\ relay = [r \in Relay |-> {}] /\ direct = [h \in Hour |-> 0]
    /\ sending = NoCommand /\ last_recv = 0 /\ fetch = NoFetch /\ asked = NotAsked
    /\ prompt = {} /\ fetched = FALSE /\ missed = 0 /\ failed = 0

-----------------------------------------------------------------------------
(* Slips: forms of later definitions that a plausible bug would give. *)

\* range(lookback) for range(lookback + 1).
Candidates_OneLess(now) == {h \in Hour : now - Lookback < h /\ h <= now}
\* The drain ends with the first text it accepts.
AfterAccept_Once == "poll"
\* The next relay is looked up before the last one was tried.
After_Skips(c) == [c EXCEPT !.at = @ + 2]

-----------------------------------------------------------------------------
(* The sender *)

\* candidate_epochs; the tags before the first hour answer nothing.
Candidates(now) == {h \in Hour : now - Lookback <= h /\ h <= now}

\* encrypt_text and atomic_commit_send.
Encrypt ==
    /\ sending.pc = "idle" /\ Len(epoch) < MaxTexts
    /\ epoch' = Append(epoch, hour)
    /\ pending' = pending \cup {Len(epoch) + 1}
    /\ sending' = [pc |-> "direct", text |-> Len(epoch) + 1, again |-> FALSE, at |-> 1]
    /\ UNCHANGED <<hour, relay, direct, recipient, prompt, counts, failed>>

\* resend_pending_for_contact, one row of it: the stored blob with its old tag.
Resend ==
    /\ sending.pc = "idle"
    /\ \E n \in pending :
         sending' = [pc |-> "direct", text |-> n, again |-> TRUE, at |-> 1]
    /\ UNCHANGED <<hour, epoch, pending, relay, direct, recipient, prompt, counts, failed>>

\* A success ends the command; that of a resend deletes the row.
Delivered ==
    /\ sending' = NoCommand
    /\ pending' = IF sending.again THEN pending \ {sending.text} ELSE pending

\* What follows on a failure: the next relay, or an error and the row stays.
After(c) == [c EXCEPT !.at = @ + 1]
Failed ==
    /\ failed < MaxFailed /\ failed' = failed + 1
    /\ sending' = IF sending.at < Len(Mailboxes) THEN After(sending) ELSE NoCommand
    /\ UNCHANGED pending

\* try_direct_delivery was in vain, or had nobody to try.
FallBack == sending' = [sending EXCEPT !.pc = "relay"] /\ UNCHANGED pending

\* The direct server keeps the last blob posted under a tag.
DirectTakes(n) == direct' = [direct EXCEPT ![epoch[n]] = n]

\* try_direct_delivery: the server may have the blob although its answer is lost.
PostDirect ==
    /\ sending.pc = "direct"
    /\ \/ /\ PostsDirect
          /\ DirectTakes(sending.text)
          /\ \/ Delivered /\ UNCHANGED failed
             \/ FallBack /\ failed < MaxFailed /\ failed' = failed + 1
       \/ FallBack /\ UNCHANGED <<direct, failed>>
    /\ UNCHANGED <<hour, epoch, relay, recipient, prompt, counts>>

\* The relay stores the blob.
Takes(r) ==
    /\ relay' = [relay EXCEPT ![r] = @ \cup {sending.text}]
    /\ prompt' = IF epoch[sending.text] = hour THEN prompt \cup {sending.text}
                 ELSE prompt

\* send_encrypted in the loop of deliver_encrypted: the relay stores the blob,
\* answered or not, or it does not.
PostRelay ==
    /\ sending.pc = "relay"
    /\ \/ Takes(Mailboxes[sending.at]) /\ Delivered /\ UNCHANGED failed
       \/ Takes(Mailboxes[sending.at]) /\ Failed
       \/ Failed /\ UNCHANGED <<relay, prompt>>
    /\ UNCHANGED <<hour, epoch, direct, recipient, counts>>

\* The receipt of a text the recipient has.
Receipted ==
    /\ \E n \in pending : n <= last_recv /\ pending' = pending \ {n}
    /\ UNCHANGED <<hour, epoch, relay, direct, sending, recipient, prompt, counts, failed>>

\* The direct server keeps its blobs in memory.
DirectRestart ==
    /\ PostsDirect
    /\ direct' = [h \in Hour |-> 0]
    /\ UNCHANGED <<hour, epoch, pending, relay, sending, recipient, prompt, counts, failed>>

-----------------------------------------------------------------------------
(* The recipient *)

FetchBegin ==
    /\ fetch.pc = "idle"
    /\ fetch' = [pc |-> "poll", tags |-> Candidates(hour), queue |-> {}]
    /\ asked' = [hour |-> hour, first |-> last_recv, clean |-> TRUE,
                 held |-> {n \in Text : \E r \in Relay : n \in relay[r]}]
    /\ UNCHANGED <<hour, epoch, pending, relay, direct, sending, last_recv, prompt, counts,
                   failed>>

\* fetch_relay_blobs: what is under the tag at the relays that answer.
AtRelays(h, reached) == {n \in Text : epoch[n] = h /\ \E r \in reached : n \in relay[r]}

\* fetch_direct_blobs: the one blob under the tag, if the server answers.
AtDirect(h, near) == {n \in Text : epoch[n] = h /\ near /\ PollsDirect /\ direct[h] = n}

\* The newest tag that is left is polled everywhere.
FetchTag ==
    /\ fetch.pc = "poll"
    /\ \E h \in fetch.tags, reached \in SUBSET Relay, near \in BOOLEAN :
         /\ \A x \in fetch.tags : x <= h
         /\ fetch' = [pc |-> "drain", tags |-> fetch.tags \ {h},
                      queue |-> AtRelays(h, reached) \cup AtDirect(h, near)]
         /\ IF reached = Relay
            THEN UNCHANGED <<asked, failed>>
            ELSE /\ failed < MaxFailed /\ failed' = failed + 1
                 /\ asked' = [asked EXCEPT !.clean = FALSE]
    /\ UNCHANGED <<hour, epoch, pending, relay, direct, sending, last_recv, prompt, counts>>

\* The passes over the queue end when one accepts nothing.
AfterAccept == "drain"
Accept ==
    /\ fetch.pc = "drain" /\ last_recv + 1 \in fetch.queue
    /\ last_recv' = last_recv + 1
    /\ fetch' = [fetch EXCEPT !.pc = AfterAccept]
    /\ UNCHANGED <<hour, epoch, pending, relay, direct, sending, asked, prompt, counts,
                   failed>>

TagEnd ==
    /\ fetch.pc = "drain" /\ last_recv + 1 \notin fetch.queue
    /\ fetch' = [fetch EXCEPT !.pc = "poll", !.queue = {}]
    /\ UNCHANGED <<hour, epoch, pending, relay, direct, sending, last_recv, asked, prompt,
                   counts, failed>>

Done == fetch.pc = "poll" /\ fetch.tags = {}

FetchEnd ==
    /\ Done
    /\ fetch' = NoFetch /\ asked' = NotAsked
    /\ fetched' = (fetched \/ (asked.clean /\ asked.hour = hour))
    /\ UNCHANGED <<hour, epoch, pending, relay, direct, sending, last_recv, prompt, missed,
                   failed>>

-----------------------------------------------------------------------------
\* The hour ends; the recipient's poll worker misses few.
Tick ==
    /\ hour < MaxHour /\ hour' = hour + 1
    /\ fetched' = FALSE
    /\ (fetched \/ missed < MaxMissed)
    /\ missed' = IF fetched THEN missed ELSE missed + 1
    /\ UNCHANGED <<epoch, pending, relay, direct, sending, recipient, prompt, failed>>

Next ==
    \/ Encrypt \/ Resend \/ PostDirect \/ PostRelay \/ Receipted \/ DirectRestart
    \/ FetchBegin \/ FetchTag \/ Accept \/ TagEnd \/ FetchEnd
    \/ Tick

Spec == Init /\ [][Next]_vars

-----------------------------------------------------------------------------
(* Properties *)

\* Every part of the state keeps its type; a command is about a text that has a
\* tag and a relay that is in the list.
TypeOK ==
    /\ hour \in Hour /\ epoch \in Seq(Hour) /\ pending \subseteq Text
    /\ relay \in [Relay -> SUBSET Text]
    /\ direct \in [Hour -> {0} \cup Text]
    /\ sending \in Command /\ last_recv \in Nat /\ fetch \in Fetch /\ asked \in Asked
    /\ sending.pc # "idle" => sending.text \in Text /\ sending.at \in DOMAIN Mailboxes
    /\ prompt \subseteq Text /\ fetched \in BOOLEAN
    /\ missed \in Nat /\ failed \in Nat

\* The texts behind last_recv, up to n, were at the relays when the fetch began,
\* under tags it polls.
Waiting(n) ==
    \A i \in asked.first + 1 .. n : i \in asked.held /\ epoch[i] \in Candidates(asked.hour)

OfOneHour(n) == \A i \in asked.first + 1 .. n : epoch[i] = epoch[n]

\* A fetch that reaches every relay delivers all that waits and was encrypted in
\* the same hour as the first of it (the retry loop of fetch_contact_inbound).
HourInOneFetch ==
    Done /\ asked.clean =>
        \A n \in asked.held : Waiting(n) /\ OfOneHour(n) => n <= last_recv

\* The relays had the text, and all before it, in the hour of its tag.
Prompt(n) == 1 .. n \subseteq prompt

\* A text that the relays had within its hour, as they had all before it, is
\* delivered while its tag is polled, whichever relay of the list took it, if the
\* recipient misses few enough hours (candidate_epochs against the order in which
\* fetch_contact_inbound takes the tags).
PromptTextsArrive ==
    \A n \in Text : Prompt(n) /\ last_recv < n => epoch[n] \in Candidates(hour)
=============================================================================
