---------------------------- MODULE TransitProofs ----------------------------
(***************************************************************************)
(* Theorems about Transit, for any number of relays, texts and hours.      *)
(***************************************************************************)
EXTENDS Transit, TLAPS

-----------------------------------------------------------------------------
(* Type correctness *)

LEMMA Constants ==
    /\ Mailboxes \in Seq(Relay) /\ Len(Mailboxes) \in Nat \ {0}
    /\ DOMAIN Mailboxes = 1 .. Len(Mailboxes) /\ Lookback \in Nat
    /\ MaxHour \in Nat /\ MaxMissed \in Nat /\ MaxFailed \in Nat
<1>1. Mailboxes \in Seq(Relay) /\ Mailboxes # <<>> /\ Lookback \in Nat
    BY TransitAssumption
<1>2. Len(Mailboxes) \in Nat \ {0} /\ DOMAIN Mailboxes = 1 .. Len(Mailboxes)
    BY <1>1
<1> QED BY <1>1, <1>2, TransitAssumption

LEMMA CandidateFacts ==
    ASSUME NEW h \in Nat
    PROVE  /\ Candidates(h) \subseteq Hour
           /\ \A x \in Hour : x \in Candidates(h) <=> h - Lookback <= x /\ x <= h
BY DEF Candidates

\* What the type says of the texts.
LEMMA TextFacts ==
    ASSUME TypeOK
    PROVE  /\ epoch \in Seq(Hour) /\ Len(epoch) \in Nat /\ Text \subseteq Nat
           /\ \A n \in Text : n \in Nat /\ n >= 1 /\ epoch[n] \in Hour /\ epoch[n] \in Nat
           /\ Text = 1 .. Len(epoch) /\ hour \in Nat /\ last_recv \in Nat
<1>1. epoch \in Seq(Hour) /\ Len(epoch) \in Nat /\ DOMAIN epoch = 1 .. Len(epoch)
    BY DEF TypeOK
<1>2. Hour \subseteq Nat
    BY Constants DEF Hour
<1>3. \A n \in Text : epoch[n] \in Hour
    BY <1>1 DEF Text
<1>4. \A n \in Text : n \in Nat /\ n >= 1
    BY <1>1 DEF Text
<1>5. hour \in Nat /\ last_recv \in Nat
    BY <1>2 DEF TypeOK
<1>6. \A n \in Text : n \in Nat /\ n >= 1 /\ epoch[n] \in Hour /\ epoch[n] \in Nat
    BY <1>2, <1>3, <1>4
<1>7. Text \subseteq Nat /\ Text = 1 .. Len(epoch)
    BY <1>1 DEF Text
<1> QED BY <1>1, <1>5, <1>6, <1>7

LEMMA EncryptTyped ==
    ASSUME TypeOK, Encrypt
    PROVE  /\ TypeOK' /\ Text \subseteq Text'
           /\ \A n \in Text : epoch'[n] = epoch[n]
           /\ \A n \in Text' : n \in Text \/ n = Len(epoch) + 1
           /\ epoch'[Len(epoch) + 1] = hour
           /\ Len(epoch) + 1 \notin Text
<1> USE DEF Encrypt, recipient, counts
<1>0. epoch \in Seq(Hour) /\ hour \in Hour /\ Len(epoch) \in Nat
    BY DEF TypeOK
<1>1. epoch' \in Seq(Hour) /\ Len(epoch') = Len(epoch) + 1
    BY <1>0
<1>2. Text \subseteq Text' /\ Len(epoch) + 1 \in Text'
    BY <1>0, <1>1 DEF Text
<1>3. (\A n \in Text : epoch'[n] = epoch[n]) /\ epoch'[Len(epoch) + 1] = hour
    BY <1>0 DEF Text
<1>4. /\ \A n \in Text' : n \in Text \/ n = Len(epoch) + 1
      /\ Len(epoch) + 1 \notin Text
    BY <1>0, <1>1 DEF Text
<1>5. sending' \in Command /\ sending'.text = Len(epoch) + 1 /\ sending'.at = 1
    BY <1>0 DEF Command
<1>6. relay' \in [Relay -> SUBSET Text'] /\ direct' \in [Hour -> {0} \cup Text']
    BY <1>2 DEF TypeOK
<1>7. pending' \subseteq Text' /\ prompt' \subseteq Text'
    BY <1>2 DEF TypeOK
<1>8. 1 \in DOMAIN Mailboxes
    BY Constants
<1>9. TypeOK'
    BY <1>0, <1>1, <1>2, <1>5, <1>6, <1>7, <1>8 DEF TypeOK, Hour
<1> QED BY <1>2, <1>3, <1>4, <1>9

LEMMA DeliveredTyped ==
    ASSUME TypeOK, Delivered
    PROVE  /\ sending' \in Command /\ pending' \subseteq Text
           /\ sending'.pc # "idle" => sending'.text \in Text /\ sending'.at \in DOMAIN Mailboxes
BY DEF TypeOK, Delivered, NoCommand, Command

LEMMA FailedTyped ==
    ASSUME TypeOK, Failed, sending.pc = "relay"
    PROVE  /\ sending' \in Command /\ pending' \subseteq Text /\ failed' \in Nat
           /\ sending'.pc # "idle" => sending'.text \in Text /\ sending'.at \in DOMAIN Mailboxes
<1>1. failed' \in Nat /\ pending' \subseteq Text
    BY DEF TypeOK, Failed
<1>2. /\ sending \in Command /\ sending.text \in Text
      /\ sending.at \in 1 .. Len(Mailboxes) /\ Len(Mailboxes) \in Nat
    BY Constants DEF TypeOK
<1>3. CASE sending.at < Len(Mailboxes)
    <2>1. sending' = [sending EXCEPT !.at = @ + 1]
        BY <1>3 DEF Failed, After
    <2>2. sending' \in Command /\ sending'.text = sending.text /\ sending'.at = sending.at + 1
        BY <1>2, <2>1 DEF Command
    <2> QED BY <1>1, <1>2, <1>3, <2>2, Constants
<1>4. CASE ~(sending.at < Len(Mailboxes))
    <2>1. sending' = NoCommand
        BY <1>4 DEF Failed
    <2> QED BY <1>1, <2>1 DEF NoCommand, Command
<1> QED BY <1>3, <1>4

LEMMA TakesTyped ==
    ASSUME TypeOK, NEW r \in Relay, Takes(r), sending.text \in Text
    PROVE  relay' \in [Relay -> SUBSET Text] /\ prompt' \subseteq Text
BY DEF TypeOK, Takes

\* What is left alone when the texts stay as they are.
LEMMA SenderTyped ==
    ASSUME TypeOK, Resend \/ PostDirect \/ PostRelay \/ Receipted \/ DirectRestart
    PROVE  TypeOK' /\ epoch' = epoch
<1> USE DEF recipient, counts
<1>1. CASE Resend
    <2>1. PICK n \in pending : sending' = [pc |-> "direct", text |-> n, again |-> TRUE, at |-> 1]
        BY <1>1 DEF Resend
    <2>2. n \in Text /\ n \in Nat
        BY TextFacts DEF TypeOK
    <2>3. 1 \in DOMAIN Mailboxes
        BY Constants
    <2>4. sending' \in Command
        BY <2>1, <2>2 DEF Command
    <2> QED BY <1>1, <2>1, <2>2, <2>3, <2>4 DEF Resend, TypeOK, Text
<1>2. CASE PostDirect
    <2>1. sending \in Command /\ sending.text \in Text /\ sending.at \in DOMAIN Mailboxes
        BY <1>2 DEF TypeOK, PostDirect, DirectTakes
    <2>2. direct' \in [Hour -> {0} \cup Text]
        BY <1>2, <2>1 DEF PostDirect, TypeOK, DirectTakes
    <2>3. /\ sending' \in Command /\ pending' \subseteq Text
          /\ sending'.pc # "idle" =>
                sending'.text \in Text /\ sending'.at \in DOMAIN Mailboxes
        <3>1. CASE Delivered
            BY <3>1, DeliveredTyped
        <3>2. CASE FallBack
            BY <2>1, <3>2 DEF FallBack, TypeOK, Command
        <3> QED BY <1>2, <3>1, <3>2 DEF PostDirect, DirectTakes
    <2> QED BY <1>2, <2>2, <2>3 DEF PostDirect, TypeOK, Text, DirectTakes
<1>3. CASE PostRelay
    <2>1. sending.text \in Text /\ Mailboxes[sending.at] \in Relay
        BY <1>3, Constants DEF TypeOK, PostRelay
    <2>2. relay' \in [Relay -> SUBSET Text] /\ prompt' \subseteq Text
        BY <1>3, <2>1, TakesTyped DEF PostRelay, TypeOK
    <2>3. /\ sending' \in Command /\ pending' \subseteq Text /\ failed' \in Nat
          /\ sending'.pc # "idle" =>
                sending'.text \in Text /\ sending'.at \in DOMAIN Mailboxes
        BY <1>3, DeliveredTyped, FailedTyped DEF PostRelay, TypeOK
    <2> QED BY <1>3, <2>2, <2>3 DEF PostRelay, TypeOK, Text
<1>4. CASE Receipted
    BY <1>4 DEF Receipted, TypeOK, Text
<1>5. CASE DirectRestart
    BY <1>5 DEF DirectRestart, TypeOK, Text
<1> QED BY <1>1, <1>2, <1>3, <1>4, <1>5

LEMMA RecipientTyped ==
    ASSUME TypeOK, FetchBegin \/ FetchTag \/ Accept \/ TagEnd \/ FetchEnd
    PROVE  TypeOK' /\ epoch' = epoch
<1> USE DEF recipient, counts
<1>0. /\ fetch \in Fetch /\ asked \in Asked /\ hour \in Nat /\ hour \in Hour
      /\ last_recv \in Nat /\ Text \subseteq Nat /\ fetch.tags \subseteq Hour
    BY TextFacts DEF TypeOK, Fetch
<1>1. CASE FetchBegin
    <2>1. Candidates(hour) \subseteq Hour
        BY <1>0, CandidateFacts
    <2>2. fetch' \in Fetch /\ asked' \in Asked
        BY <1>0, <1>1, <2>1 DEF FetchBegin, Fetch, Asked
    <2> QED BY <1>1, <2>2 DEF FetchBegin, TypeOK, Text
<1>2. CASE FetchTag
    <2>1. fetch' \in Fetch
        BY <1>0, <1>2 DEF FetchTag, Fetch, AtRelays, AtDirect
    <2>2. asked' \in Asked /\ failed' \in Nat
        <3>1. /\ asked' = asked \/ asked' = [asked EXCEPT !.clean = FALSE]
              /\ failed' = failed \/ failed' = failed + 1
            BY <1>2 DEF FetchTag
        <3>2. [asked EXCEPT !.clean = FALSE] \in Asked
            BY <1>0 DEF Asked
        <3>3. asked' \in Asked
            BY <1>0, <3>1, <3>2
        <3>4. failed \in Nat
            BY DEF TypeOK
        <3> QED BY <3>1, <3>3, <3>4
    <2> QED BY <1>2, <2>1, <2>2 DEF FetchTag, TypeOK, Text
<1>3. CASE Accept
    <2>1. fetch' \in Fetch /\ last_recv' \in Nat
        BY <1>0, <1>3 DEF Accept, AfterAccept, Fetch
    <2> QED BY <1>3, <2>1 DEF Accept, TypeOK, Text
<1>4. CASE TagEnd
    <2>1. fetch' \in Fetch
        BY <1>0, <1>4 DEF TagEnd, Fetch
    <2> QED BY <1>4, <2>1 DEF TagEnd, TypeOK, Text
<1>5. CASE FetchEnd
    <2>1. fetch' \in Fetch /\ asked' \in Asked
        BY <1>0, <1>5, Constants DEF FetchEnd, NoFetch, NotAsked, Fetch, Asked, Hour
    <2>2. fetched' \in BOOLEAN
        BY <1>0, <1>5 DEF FetchEnd, TypeOK, Asked
    <2> QED BY <1>5, <2>1, <2>2 DEF FetchEnd, TypeOK, Text
<1> QED BY <1>1, <1>2, <1>3, <1>4, <1>5

LEMMA TickTyped ==
    ASSUME TypeOK, Tick
    PROVE  TypeOK' /\ epoch' = epoch /\ hour' = hour + 1
<1>1. hour' \in Hour /\ missed' \in Nat
    BY Constants DEF Tick, TypeOK, Hour
<1> QED BY <1>1 DEF Tick, TypeOK, Text, recipient

LEMMA InitTyped == Init => TypeOK
<1> SUFFICES ASSUME Init PROVE TypeOK
    OBVIOUS
<1>1. 0 \in Hour /\ Text = {}
    BY Constants DEF Init, Text, Hour
<1>2. sending \in Command /\ fetch \in Fetch /\ asked \in Asked
    BY <1>1 DEF Init, NoCommand, NoFetch, NotAsked, Command, Fetch, Asked
<1>3. sending.pc = "idle"
    BY DEF Init, NoCommand
<1> QED BY <1>1, <1>2, <1>3 DEF Init, TypeOK

\* A step keeps the types; only Encrypt adds a text.
LEMMA NextTyped ==
    ASSUME TypeOK, Next
    PROVE  TypeOK'
BY EncryptTyped, SenderTyped, RecipientTyped, TickTyped DEF Next

\* Every part of the state keeps its type (core/mailbox.py, cli/network.py,
\* cli/fetch_cmds.py): in particular a command never looks up a relay that is
\* not in the sender's list.
THEOREM TypeCorrect == Spec => []TypeOK
<1>1. TypeOK /\ UNCHANGED vars => TypeOK'
    BY DEF vars, recipient, counts, TypeOK, Text
<1>2. TypeOK /\ [Next]_vars => TypeOK'
    BY <1>1, NextTyped
<1> QED BY InitTyped, <1>2, PTL DEF Spec

-----------------------------------------------------------------------------
(* What one fetch delivers *)

\* While a fetch runs: what it found at the relays is there still.
FetchFacts ==
    fetch.pc # "idle" =>
        /\ asked.held \subseteq Text /\ asked.first <= last_recv /\ asked.hour <= hour
        /\ \A i \in asked.held : \E r \in Relay : i \in relay[r]
        /\ fetch.tags \subseteq Candidates(asked.hour)

\* A text that the fetch owes is delivered, or under a tag still to be polled, or
\* with all before it in the queue that is being drained.
Progress ==
    fetch.pc # "idle" /\ asked.clean =>
        \A n \in asked.held : Waiting(n) /\ OfOneHour(n) =>
            \/ n <= last_recv
            \/ epoch[n] \in fetch.tags
            \/ fetch.pc = "drain" /\ asked.first + 1 .. n \subseteq fetch.queue

FetchInv == TypeOK /\ FetchFacts /\ Progress

\* Relays only gain texts.
LEMMA RelaysGrow ==
    ASSUME TypeOK, Next
    PROVE  \A r \in Relay : relay[r] \subseteq relay'[r]
<1>1. CASE PostRelay
    <2>1. Mailboxes[sending.at] \in Relay
        BY <1>1, Constants DEF TypeOK, PostRelay
    <2> QED BY <1>1, <2>1 DEF PostRelay, Takes, TypeOK
<1>2. CASE relay' = relay
    BY <1>2
<1> QED BY <1>1, <1>2 DEF Next, Encrypt, Resend, PostDirect, Receipted, DirectRestart,
        FetchBegin, FetchTag, Accept, TagEnd, FetchEnd, Tick, DirectTakes

\* What of the texts a fetch has asked for stays while the others act.
LEMMA OthersKeep ==
    ASSUME FetchInv, TypeOK', Text \subseteq Text', \A n \in Text : epoch'[n] = epoch[n],
           \A r \in Relay : relay[r] \subseteq relay'[r], hour <= hour',
           UNCHANGED recipient
    PROVE  FetchInv'
<1> USE DEF recipient
<1>1. CASE fetch.pc = "idle"
    BY <1>1 DEF FetchInv, FetchFacts, Progress
<1>2. CASE fetch.pc # "idle"
    <2>1. asked \in Asked /\ hour \in Nat /\ hour' \in Nat /\ asked.hour \in Nat
        BY Constants DEF FetchInv, TypeOK, Asked, Hour
    <2>2. FetchFacts'
        BY <1>2, <2>1 DEF FetchInv, FetchFacts
    <2>3. asked.held \subseteq Text
        BY <1>2 DEF FetchInv, FetchFacts
    <2>4. ASSUME NEW n \in asked.held, Waiting(n)', OfOneHour(n)'
          PROVE  Waiting(n) /\ OfOneHour(n)
        <3>1. \A i \in asked.first + 1 .. n : i \in asked.held /\ i \in Text
            BY <2>3, <2>4 DEF Waiting
        <3> QED BY <2>3, <2>4, <3>1 DEF Waiting, OfOneHour
    <2>5. Progress'
        BY <1>2, <2>3, <2>4 DEF FetchInv, Progress
    <2> QED BY <2>2, <2>5 DEF FetchInv
<1> QED BY <1>1, <1>2

LEMMA FetchBeginKeeps ==
    ASSUME FetchInv, FetchBegin, TypeOK'
    PROVE  FetchInv'
<1>0. /\ TypeOK /\ hour \in Nat /\ last_recv \in Nat /\ Text \subseteq Nat
    BY TextFacts DEF FetchInv
<1>1. /\ asked'.held = {n \in Text : \E r \in Relay : n \in relay[r]}
      /\ asked'.first = last_recv /\ asked'.hour = hour
      /\ fetch'.tags = Candidates(hour) /\ fetch'.pc = "poll"
      /\ UNCHANGED <<hour, epoch, relay, last_recv>>
    BY DEF FetchBegin
<1>2. FetchFacts'
    BY <1>0, <1>1 DEF FetchFacts, Text
<1>3. ASSUME NEW n \in asked'.held, Waiting(n)'
      PROVE  n <= last_recv \/ epoch[n] \in fetch'.tags
    <2>1. n \in Nat
        BY <1>0, <1>1
    <2>2. CASE last_recv < n
        BY <1>0, <1>1, <1>3, <2>1, <2>2 DEF Waiting
    <2> QED BY <1>0, <2>1, <2>2
<1> QED BY <1>1, <1>2, <1>3 DEF FetchInv, Progress

LEMMA FetchTagKeeps ==
    ASSUME FetchInv, FetchTag, TypeOK'
    PROVE  FetchInv'
<1>0. /\ fetch.pc = "poll" /\ TypeOK /\ Text \subseteq Nat
      /\ asked.held \subseteq Text /\ last_recv \in Nat
      /\ UNCHANGED <<hour, epoch, relay, last_recv>>
    BY TextFacts DEF FetchInv, FetchFacts, FetchTag
<1>1. PICK h \in fetch.tags, reached \in SUBSET Relay, near \in BOOLEAN :
        /\ fetch' = [pc |-> "drain", tags |-> fetch.tags \ {h},
                     queue |-> AtRelays(h, reached) \cup AtDirect(h, near)]
        /\ IF reached = Relay
           THEN UNCHANGED <<asked, failed>>
           ELSE /\ failed < MaxFailed /\ failed' = failed + 1
                /\ asked' = [asked EXCEPT !.clean = FALSE]
    BY DEF FetchTag
<1>2. /\ asked'.held = asked.held /\ asked'.first = asked.first
      /\ asked'.hour = asked.hour
      /\ asked'.clean => reached = Relay /\ asked.clean
    BY <1>1 DEF FetchInv, TypeOK, Asked
<1>3. FetchFacts'
    BY <1>0, <1>1, <1>2 DEF FetchInv, FetchFacts, Text
<1>4. ASSUME asked'.clean, NEW n \in asked.held, Waiting(n)', OfOneHour(n)',
             ~(n <= last_recv), epoch[n] \notin fetch'.tags
      PROVE  asked.first + 1 .. n \subseteq fetch'.queue
    <2>1. Waiting(n) /\ OfOneHour(n)
        BY <1>0, <1>2, <1>4 DEF Waiting, OfOneHour
    <2>2. epoch[n] \in fetch.tags
        BY <1>0, <1>2, <1>4, <2>1 DEF FetchInv, Progress
    <2>3. epoch[n] = h
        BY <1>1, <1>4, <2>2
    <2>4. ASSUME NEW i \in asked.first + 1 .. n
          PROVE  i \in fetch'.queue
        <3>1. i \in asked.held /\ epoch[i] = h
            BY <2>1, <2>3, <2>4 DEF Waiting, OfOneHour
        <3>2. \E r \in Relay : i \in relay[r]
            BY <1>0, <3>1 DEF FetchInv, FetchFacts
        <3> QED BY <1>0, <1>1, <1>2, <1>4, <3>1, <3>2 DEF AtRelays
    <2> QED BY <2>4
<1>5. Progress'
    BY <1>0, <1>1, <1>2, <1>4 DEF Progress
<1> QED BY <1>3, <1>5 DEF FetchInv

LEMMA AcceptKeeps ==
    ASSUME FetchInv, Accept, TypeOK'
    PROVE  FetchInv'
<1>0. /\ fetch.pc = "drain" /\ TypeOK /\ Text \subseteq Nat /\ last_recv \in Nat
      /\ asked.held \subseteq Text /\ asked.first \in Nat /\ asked.first <= last_recv
      /\ last_recv' = last_recv + 1 /\ fetch' = [fetch EXCEPT !.pc = "drain"]
      /\ UNCHANGED <<hour, epoch, relay, asked>>
    BY TextFacts DEF FetchInv, FetchFacts, Accept, AfterAccept, TypeOK, Asked
<1>1. fetch'.pc = "drain" /\ fetch'.tags = fetch.tags /\ fetch'.queue = fetch.queue
    BY <1>0 DEF TypeOK, Fetch
<1>2. FetchFacts'
    BY <1>0, <1>1 DEF FetchInv, FetchFacts, Text
<1>3. Progress'
    <2>1. ASSUME NEW n \in asked.held, Waiting(n)', OfOneHour(n)'
          PROVE  Waiting(n) /\ OfOneHour(n)
        BY <1>0, <2>1 DEF Waiting, OfOneHour
    <2>2. \A n \in asked.held : n <= last_recv => n <= last_recv'
        BY <1>0
    <2> QED BY <1>0, <1>1, <2>1, <2>2 DEF FetchInv, Progress
<1> QED BY <1>2, <1>3 DEF FetchInv

LEMMA TagEndKeeps ==
    ASSUME FetchInv, TagEnd, TypeOK'
    PROVE  FetchInv'
<1>0. /\ fetch.pc = "drain" /\ TypeOK /\ Text \subseteq Nat /\ last_recv \in Nat
      /\ asked.held \subseteq Text /\ asked.first \in Nat /\ asked.first <= last_recv
      /\ last_recv + 1 \notin fetch.queue
      /\ fetch' = [fetch EXCEPT !.pc = "poll", !.queue = {}]
      /\ UNCHANGED <<hour, epoch, relay, last_recv, asked>>
    BY TextFacts DEF FetchInv, FetchFacts, TagEnd, TypeOK, Asked
<1>1. fetch'.pc = "poll" /\ fetch'.tags = fetch.tags
    BY <1>0 DEF TypeOK, Fetch
<1>2. FetchFacts'
    BY <1>0, <1>1 DEF FetchInv, FetchFacts, Text
<1>3. ASSUME NEW n \in asked.held, asked.first + 1 .. n \subseteq fetch.queue
      PROVE  n <= last_recv
    BY <1>0, <1>3
<1>4. Progress'
    <2>1. ASSUME NEW n \in asked.held, Waiting(n)', OfOneHour(n)'
          PROVE  Waiting(n) /\ OfOneHour(n)
        BY <1>0, <2>1 DEF Waiting, OfOneHour
    <2> QED BY <1>0, <1>1, <1>3, <2>1 DEF FetchInv, Progress
<1> QED BY <1>2, <1>4 DEF FetchInv

LEMMA FetchNext ==
    ASSUME FetchInv, [Next]_vars
    PROVE  FetchInv'
<1> USE DEF recipient, counts
<1>0. TypeOK /\ hour \in Nat
    BY TextFacts DEF FetchInv
<1>1. CASE UNCHANGED vars
    BY <1>1 DEF vars, FetchInv, FetchFacts, Progress, Waiting, OfOneHour, TypeOK, Text
<1>2. CASE Next
    <2>1. TypeOK' /\ \A r \in Relay : relay[r] \subseteq relay'[r]
        BY <1>0, <1>2, NextTyped, RelaysGrow
    <2>2. CASE Encrypt
        <3>1. UNCHANGED recipient /\ hour' = hour
            BY <2>2 DEF Encrypt
        <3> QED BY <1>0, <2>1, <2>2, <3>1, EncryptTyped, OthersKeep
    <2>3. CASE Resend \/ PostDirect \/ PostRelay \/ Receipted \/ DirectRestart
        <3>1. UNCHANGED recipient /\ hour' = hour
            BY <2>3 DEF Resend, PostDirect, PostRelay, Receipted, DirectRestart,
                DirectTakes
        <3>2. epoch' = epoch /\ Text' = Text
            BY <1>0, <2>3, SenderTyped DEF Text
        <3> QED BY <1>0, <2>1, <3>1, <3>2, OthersKeep
    <2>4. CASE FetchBegin
        BY <2>1, <2>4, FetchBeginKeeps
    <2>5. CASE FetchTag
        BY <2>1, <2>5, FetchTagKeeps
    <2>6. CASE Accept
        BY <2>1, <2>6, AcceptKeeps
    <2>7. CASE TagEnd
        BY <2>1, <2>7, TagEndKeeps
    <2>8. CASE FetchEnd
        <3>1. fetch'.pc = "idle"
            BY <2>8 DEF FetchEnd, NoFetch
        <3> QED BY <2>1, <3>1 DEF FetchInv, FetchFacts, Progress
    <2>9. CASE Tick
        <3>1. UNCHANGED recipient /\ hour <= hour' /\ Text' = Text /\ epoch' = epoch
            BY <1>0, <2>9 DEF Tick, Text
        <3> QED BY <2>1, <3>1, OthersKeep
    <2> QED BY <1>2, <2>2, <2>3, <2>4, <2>5, <2>6, <2>7, <2>8, <2>9 DEF Next
<1> QED BY <1>1, <1>2

LEMMA InitFetch == Init => FetchInv
BY InitTyped DEF Init, NoFetch, FetchInv, FetchFacts, Progress

LEMMA FetchDelivers == FetchInv => HourInOneFetch
BY DEF FetchInv, Progress, HourInOneFetch, Done

\* The retry loop of fetch_contact_inbound (cli/fetch_cmds.py:108) leaves none of
\* an hour's texts behind, in whatever order the relays answer.
THEOREM HourDelivered == Spec => []HourInOneFetch
BY InitFetch, FetchNext, FetchDelivers, PTL DEF Spec

-----------------------------------------------------------------------------
(* Texts that the relays have within their hour *)

\* The hours of the texts do not decrease; what is prompt is at a relay.
Ordered ==
    /\ \A i, j \in Text : i <= j => epoch[i] <= epoch[j]
    /\ \A i \in Text : epoch[i] <= hour
    /\ \A i \in prompt : \E r \in Relay : i \in relay[r]

\* A fetch found the prompt texts of the hours before its own.
FoundOlder ==
    fetch.pc # "idle" => \A i \in prompt : epoch[i] < asked.hour => i \in asked.held

\* A prompt text that is not delivered is at most as old as the hours missed,
\* and one hour older until this hour's fetch.
Lag ==
    \A n \in Text : Prompt(n) /\ last_recv < n =>
        hour - missed - (IF fetched THEN 0 ELSE 1) <= epoch[n]

\* The same of what was not delivered when a fetch of this hour began.
LagAsked ==
    fetch.pc # "idle" /\ asked.hour = hour =>
        \A n \in Text : Prompt(n) /\ asked.first < n => hour - missed - 1 <= epoch[n]

ArrivalInv ==
    FetchInv /\ Ordered /\ FoundOlder /\ Lag /\ LagAsked /\ missed <= MaxMissed

LEMMA ArrivalFacts ==
    ASSUME ArrivalInv
    PROVE  /\ TypeOK /\ Text \subseteq Nat /\ hour \in Nat /\ last_recv \in Nat
           /\ missed \in Nat /\ fetched \in BOOLEAN /\ prompt \subseteq Text
           /\ \A n \in Text : epoch[n] \in Nat
           /\ asked.hour \in Nat /\ asked.first \in Nat
<1>1. TypeOK
    BY DEF ArrivalInv, FetchInv
<1>2. asked.hour \in Nat /\ asked.first \in Nat
    BY <1>1, Constants DEF TypeOK, Asked, Hour
<1> QED BY <1>1, <1>2, TextFacts DEF TypeOK

LEMMA EncryptArrives ==
    ASSUME ArrivalInv, Encrypt, FetchInv'
    PROVE  ArrivalInv'
<1>0. /\ TypeOK /\ Text \subseteq Nat /\ hour \in Nat /\ last_recv \in Nat
      /\ missed \in Nat /\ fetched \in BOOLEAN /\ prompt \subseteq Text
      /\ \A n \in Text : epoch[n] \in Nat
    BY ArrivalFacts
<1>1. /\ Text \subseteq Text' /\ \A n \in Text : epoch'[n] = epoch[n]
      /\ \A n \in Text' : n \in Text \/ n = Len(epoch) + 1
      /\ epoch'[Len(epoch) + 1] = hour /\ Len(epoch) + 1 \notin Text
      /\ Len(epoch) \in Nat /\ Text = 1 .. Len(epoch)
    BY <1>0, EncryptTyped, TextFacts
<1>2. UNCHANGED <<hour, relay, last_recv, fetch, asked, prompt, fetched, missed>>
    BY DEF Encrypt, recipient, counts
<1>3. Ordered'
    <2>1. ASSUME NEW i \in Text', NEW j \in Text', i <= j
          PROVE  epoch'[i] <= epoch'[j]
        <3>1. CASE j \in Text
            <4>1. i \in Text
                BY <1>0, <1>1, <2>1, <3>1
            <4> QED BY <1>1, <2>1, <3>1, <4>1 DEF ArrivalInv, Ordered
        <3>2. CASE j = Len(epoch) + 1
            BY <1>0, <1>1, <3>2 DEF ArrivalInv, Ordered
        <3> QED BY <1>1, <3>1, <3>2
    <2>2. \A i \in Text' : epoch'[i] <= hour'
        BY <1>0, <1>1, <1>2 DEF ArrivalInv, Ordered
    <2>3. \A i \in prompt' : \E r \in Relay : i \in relay'[r]
        BY <1>2 DEF ArrivalInv, Ordered
    <2> QED BY <2>1, <2>2, <2>3 DEF Ordered
<1>4. FoundOlder'
    BY <1>0, <1>1, <1>2 DEF ArrivalInv, FoundOlder
<1>5. ASSUME NEW n \in Text', Prompt(n)'
      PROVE  n \in Text /\ Prompt(n) /\ epoch'[n] = epoch[n]
    <2>1. n \in 1 .. n
        BY <1>0, <1>1
    <2> QED BY <1>0, <1>1, <1>2, <1>5, <2>1 DEF Prompt
<1>6. Lag' /\ LagAsked'
    BY <1>2, <1>5 DEF ArrivalInv, Lag, LagAsked
<1> QED BY <1>2, <1>3, <1>4, <1>6 DEF ArrivalInv

\* A text becomes prompt in its own hour.
LEMMA PostRelayArrives ==
    ASSUME ArrivalInv, PostRelay, FetchInv'
    PROVE  ArrivalInv'
<1>0. /\ TypeOK /\ Text \subseteq Nat /\ hour \in Nat /\ last_recv \in Nat
      /\ missed \in Nat /\ fetched \in BOOLEAN /\ prompt \subseteq Text
      /\ \A n \in Text : epoch[n] \in Nat
      /\ asked.hour \in Nat /\ asked.first \in Nat
    BY ArrivalFacts
<1>1. /\ sending.text \in Text /\ Mailboxes[sending.at] \in Relay
      /\ relay \in [Relay -> SUBSET Text] /\ Text = 1 .. Len(epoch) /\ Len(epoch) \in Nat
    BY <1>0, Constants, TextFacts DEF TypeOK, PostRelay
<1>2. UNCHANGED <<hour, epoch, last_recv, fetch, asked, fetched, missed>> /\ Text' = Text
    BY DEF PostRelay, recipient, counts, Text
<1>3. ASSUME NEW i \in prompt'
      PROVE  /\ i \in prompt \/ (i \in Text /\ epoch[i] = hour)
             /\ \E r \in Relay : i \in relay'[r]
    <2>1. CASE UNCHANGED <<relay, prompt>>
        BY <1>3, <2>1 DEF ArrivalInv, Ordered
    <2>2. CASE Takes(Mailboxes[sending.at])
        <3>1. i \in prompt \/ (i = sending.text /\ epoch[i] = hour)
            BY <1>3, <2>2 DEF Takes
        <3>2. \A r \in Relay : relay[r] \subseteq relay'[r]
            BY <1>1, <2>2 DEF Takes
        <3>3. sending.text \in relay'[Mailboxes[sending.at]]
            BY <1>1, <2>2 DEF Takes
        <3> QED BY <1>1, <3>1, <3>2, <3>3 DEF ArrivalInv, Ordered
    <2> QED BY <2>1, <2>2 DEF PostRelay
<1>4. Ordered'
    BY <1>2, <1>3 DEF ArrivalInv, Ordered
<1>5. FoundOlder'
    <2>1. fetch.pc # "idle" => asked.hour <= hour
        BY DEF ArrivalInv, FetchInv, FetchFacts
    <2>2. ASSUME fetch.pc # "idle", NEW i \in prompt', epoch[i] < asked.hour
          PROVE  i \in asked.held
        <3>1. epoch[i] # hour
            BY <1>0, <2>1, <2>2
        <3>2. i \in prompt
            BY <1>3, <2>2, <3>1
        <3> QED BY <2>2, <3>2 DEF ArrivalInv, FoundOlder
    <2> QED BY <1>2, <2>2 DEF FoundOlder
<1>6. ASSUME NEW n \in Text, Prompt(n)'
      PROVE  Prompt(n) \/ hour <= epoch[n]
    <2> SUFFICES ASSUME NEW i \in 1 .. n, i \notin prompt
                 PROVE  hour <= epoch[n]
        BY DEF Prompt
    <2>1. i \in Text /\ epoch[i] = hour
        BY <1>3, <1>6 DEF Prompt
    <2>2. i <= n
        BY <1>0
    <2>3. epoch[i] <= epoch[n]
        BY <2>1, <2>2 DEF ArrivalInv, Ordered
    <2> QED BY <2>1, <2>3
<1>7. Lag'
    BY <1>0, <1>2, <1>6 DEF ArrivalInv, Lag
<1>8. LagAsked'
    BY <1>0, <1>2, <1>6 DEF ArrivalInv, LagAsked
<1> QED BY <1>2, <1>4, <1>5, <1>7, <1>8 DEF ArrivalInv

\* A fetch of this hour that reached every relay took the oldest hour's texts.
LEMMA FetchEndArrives ==
    ASSUME ArrivalInv, FetchEnd, FetchInv', MaxMissed < Lookback
    PROVE  ArrivalInv'
<1>0. /\ TypeOK /\ Text \subseteq Nat /\ hour \in Nat /\ last_recv \in Nat
      /\ missed \in Nat /\ fetched \in BOOLEAN /\ prompt \subseteq Text
      /\ \A n \in Text : epoch[n] \in Nat
      /\ asked.hour \in Nat /\ asked.first \in Nat
    BY ArrivalFacts
<1>1. /\ UNCHANGED <<hour, epoch, relay, last_recv, prompt, missed>> /\ Text' = Text
      /\ fetch'.pc = "idle" /\ Done
      /\ fetched' = (fetched \/ (asked.clean /\ asked.hour = hour))
    BY DEF FetchEnd, NoFetch, Text
<1>2. fetch.pc = "poll" /\ asked.first <= last_recv
    BY <1>1 DEF Done, ArrivalInv, FetchInv, FetchFacts
<1>3. ASSUME asked.clean, asked.hour = hour, NEW n \in Text, Prompt(n), last_recv < n
      PROVE  hour - missed <= epoch[n]
    <2> SUFFICES ASSUME epoch[n] < hour - missed PROVE FALSE
        BY <1>0
    <2>1. ASSUME NEW i \in asked.first + 1 .. n
          PROVE  /\ i \in Text /\ i \in asked.held /\ epoch[i] = hour - missed - 1
                 /\ epoch[i] \in Candidates(hour)
        <3>1. i \in 1 .. n /\ i \in Nat /\ asked.first < i /\ i <= n
            BY <1>0
        <3>2. i \in prompt /\ i \in Text /\ Prompt(i)
            BY <1>0, <1>3, <3>1 DEF Prompt
        <3>3. epoch[i] <= epoch[n]
            BY <3>1, <3>2 DEF ArrivalInv, Ordered
        <3>4. hour - missed - 1 <= epoch[i]
            BY <1>2, <1>3, <3>1, <3>2 DEF ArrivalInv, LagAsked
        <3>5. epoch[i] = hour - missed - 1 /\ epoch[i] < hour
            BY <1>0, <3>2, <3>3, <3>4
        <3>6. i \in asked.held
            BY <1>2, <1>3, <3>2, <3>5 DEF ArrivalInv, FoundOlder
        <3>7. missed <= MaxMissed
            BY DEF ArrivalInv
        <3>8. hour - Lookback <= epoch[i] /\ epoch[i] <= hour
            BY <1>0, <3>2, <3>5, <3>7, Constants
        <3>9. epoch[i] \in Candidates(hour)
            BY <1>0, <3>2, <3>8, TextFacts DEF Candidates
        <3> QED BY <3>2, <3>5, <3>6, <3>9
    <2>2. n \in asked.first + 1 .. n
        BY <1>0, <1>2, <1>3
    <2>3. n \in asked.held /\ Waiting(n) /\ OfOneHour(n)
        BY <1>3, <2>1, <2>2 DEF Waiting, OfOneHour
    <2>4. n <= last_recv
        BY <1>1, <1>3, <2>3, FetchDelivers DEF ArrivalInv, HourInOneFetch
    <2> QED BY <1>0, <1>3, <2>4
<1>4. Lag'
    <2> SUFFICES ASSUME NEW n \in Text, Prompt(n), last_recv < n
                 PROVE  hour - missed - (IF fetched' THEN 0 ELSE 1) <= epoch[n]
        BY <1>1 DEF Lag, Prompt
    <2>1. hour - missed - (IF fetched THEN 0 ELSE 1) <= epoch[n]
        BY DEF ArrivalInv, Lag
    <2>2. CASE asked.clean /\ asked.hour = hour
        BY <1>0, <1>1, <1>3, <2>2
    <2>3. CASE ~(asked.clean /\ asked.hour = hour)
        <3>1. fetched' = fetched
            BY <1>0, <1>1, <2>3
        <3> QED BY <2>1, <3>1
    <2> QED BY <2>2, <2>3
<1>5. Ordered' /\ FoundOlder' /\ LagAsked'
    BY <1>1 DEF ArrivalInv, Ordered, FoundOlder, LagAsked
<1> QED BY <1>1, <1>4, <1>5 DEF ArrivalInv

LEMMA ArrivalNext ==
    ASSUME ArrivalInv, [Next]_vars, MaxMissed < Lookback
    PROVE  ArrivalInv'
<1> USE DEF recipient, counts
<1>0. /\ TypeOK /\ Text \subseteq Nat /\ hour \in Nat /\ last_recv \in Nat
      /\ missed \in Nat /\ fetched \in BOOLEAN /\ prompt \subseteq Text
      /\ \A n \in Text : epoch[n] \in Nat
      /\ asked.hour \in Nat /\ asked.first \in Nat
    BY ArrivalFacts
<1>a. FetchInv'
    BY FetchNext DEF ArrivalInv
<1>b. ASSUME UNCHANGED <<hour, epoch, relay, prompt, fetched, missed>>
      PROVE  Ordered' /\ Text' = Text /\ \A n : Prompt(n)' = Prompt(n)
    BY <1>b DEF ArrivalInv, Ordered, Text, Prompt
<1>c. ASSUME UNCHANGED <<hour, epoch, relay, prompt, fetched, missed, last_recv, asked>>,
             fetch'.pc # "idle" => fetch.pc # "idle"
      PROVE  ArrivalInv'
    <2>1. FoundOlder'
        BY <1>c DEF ArrivalInv, FoundOlder
    <2>2. Lag'
        BY <1>b, <1>c DEF ArrivalInv, Lag
    <2>3. LagAsked'
        BY <1>b, <1>c DEF ArrivalInv, LagAsked
    <2> QED BY <1>a, <1>b, <1>c, <2>1, <2>2, <2>3 DEF ArrivalInv
<1>1. CASE UNCHANGED vars
    BY <1>1, <1>c DEF vars
<1>2. CASE Encrypt
    BY <1>2, <1>a, EncryptArrives
<1>3. CASE PostRelay
    BY <1>3, <1>a, PostRelayArrives
<1>4. CASE Resend \/ PostDirect \/ Receipted \/ DirectRestart \/ TagEnd
    BY <1>4, <1>c DEF Resend, PostDirect, Receipted, DirectRestart, TagEnd, DirectTakes
<1>5. CASE FetchBegin
    <2>1. /\ UNCHANGED <<hour, epoch, relay, prompt, fetched, missed, last_recv>>
          /\ asked'.held = {n \in Text : \E r \in Relay : n \in relay[r]}
          /\ asked'.first = last_recv /\ asked'.hour = hour
        BY <1>5 DEF FetchBegin
    <2>2. FoundOlder'
        BY <1>0, <2>1 DEF ArrivalInv, Ordered, FoundOlder
    <2>3. Lag'
        BY <1>b, <2>1 DEF ArrivalInv, Lag
    <2>4. LagAsked'
        <3>1. ASSUME NEW n \in Text, Prompt(n), last_recv < n
              PROVE  hour - missed - 1 <= epoch[n]
            BY <1>0, <3>1 DEF ArrivalInv, Lag
        <3> QED BY <1>b, <2>1, <3>1 DEF LagAsked
    <2> QED BY <1>a, <1>b, <2>1, <2>2, <2>3, <2>4 DEF ArrivalInv
<1>6. CASE FetchTag
    <2>1. /\ UNCHANGED <<hour, epoch, relay, prompt, fetched, missed, last_recv>>
          /\ fetch.pc # "idle"
          /\ asked' = asked \/ asked' = [asked EXCEPT !.clean = FALSE]
        BY <1>6 DEF FetchTag
    <2>2. asked'.held = asked.held /\ asked'.first = asked.first /\ asked'.hour = asked.hour
        BY <1>0, <2>1 DEF TypeOK, Asked
    <2>3. FoundOlder'
        BY <2>1, <2>2 DEF ArrivalInv, FoundOlder
    <2>4. Lag'
        BY <1>b, <2>1 DEF ArrivalInv, Lag
    <2>5. LagAsked'
        BY <1>b, <2>1, <2>2 DEF ArrivalInv, LagAsked
    <2> QED BY <1>a, <1>b, <2>1, <2>3, <2>4, <2>5 DEF ArrivalInv
<1>7. CASE Accept
    <2>1. /\ UNCHANGED <<hour, epoch, relay, prompt, fetched, missed, asked>>
          /\ fetch.pc # "idle" /\ last_recv' = last_recv + 1
        BY <1>7 DEF Accept
    <2>2. FoundOlder'
        BY <2>1 DEF ArrivalInv, FoundOlder
    <2>3. Lag'
        <3>1. ASSUME NEW n \in Text, last_recv' < n
              PROVE  last_recv < n
            BY <1>0, <2>1, <3>1
        <3> QED BY <1>b, <2>1, <3>1 DEF ArrivalInv, Lag
    <2>4. LagAsked'
        BY <1>b, <2>1 DEF ArrivalInv, LagAsked
    <2> QED BY <1>a, <1>b, <2>1, <2>2, <2>3, <2>4 DEF ArrivalInv
<1>8. CASE FetchEnd
    BY <1>8, <1>a, FetchEndArrives
<1>9. CASE Tick
    <2>1. /\ UNCHANGED <<epoch, relay, prompt, last_recv, fetch, asked>>
          /\ hour' = hour + 1 /\ fetched' = FALSE
          /\ missed' = IF fetched THEN missed ELSE missed + 1
          /\ fetched \/ missed < MaxMissed
          /\ Text' = Text
        BY <1>9 DEF Tick, Text
    <2>2. Ordered'
        BY <1>0, <2>1 DEF ArrivalInv, Ordered
    <2>3. FoundOlder'
        BY <2>1 DEF ArrivalInv, FoundOlder
    <2>4. Lag'
        BY <1>0, <2>1 DEF ArrivalInv, Lag, Prompt
    <2>5. LagAsked'
        BY <1>0, <2>1 DEF ArrivalInv, FetchInv, FetchFacts, LagAsked
    <2>6. missed' <= MaxMissed
        BY <1>0, <2>1, Constants DEF ArrivalInv
    <2> QED BY <1>a, <2>2, <2>3, <2>4, <2>5, <2>6 DEF ArrivalInv
<1> QED BY <1>1, <1>2, <1>3, <1>4, <1>5, <1>6, <1>7, <1>8, <1>9 DEF Next

LEMMA InitArrival == Init => ArrivalInv
<1> SUFFICES ASSUME Init PROVE ArrivalInv
    OBVIOUS
<1>1. Text = {} /\ prompt = {} /\ fetch.pc = "idle" /\ missed = 0
    BY DEF Init, Text, NoFetch
<1>2. missed <= MaxMissed
    BY <1>1, Constants
<1> QED BY <1>1, <1>2, InitFetch
        DEF ArrivalInv, Ordered, FoundOlder, Lag, LagAsked

LEMMA ArrivalSuffices ==
    ASSUME ArrivalInv, MaxMissed < Lookback
    PROVE  PromptTextsArrive
<1>0. /\ TypeOK /\ hour \in Nat /\ missed \in Nat /\ missed <= MaxMissed
      /\ \A n \in Text : epoch[n] \in Nat
    BY ArrivalFacts DEF ArrivalInv
<1>1. ASSUME NEW n \in Text, Prompt(n), last_recv < n
      PROVE  epoch[n] \in Candidates(hour)
    <2>1. hour - missed - 1 <= epoch[n]
        BY <1>0, <1>1 DEF ArrivalInv, Lag
    <2>2. epoch[n] <= hour
        BY DEF ArrivalInv, Ordered
    <2> QED BY <1>0, <2>1, <2>2, Constants, TextFacts DEF Candidates
<1> QED BY <1>1 DEF PromptTextsArrive

\* A recipient that misses fewer hours than candidate_epochs looks back
\* (core/mailbox.py:37) is delivered every text that the relays had in time,
\* though one fetch may deliver the texts of one hour only.
THEOREM PromptTextsDelivered ==
    ASSUME MaxMissed < Lookback
    PROVE  Spec => []PromptTextsArrive
<1>1. ArrivalInv /\ [Next]_vars => ArrivalInv'
    BY ArrivalNext
<1>2. ArrivalInv => PromptTextsArrive
    BY ArrivalSuffices
<1> QED BY InitArrival, <1>1, <1>2, PTL DEF Spec
=============================================================================
