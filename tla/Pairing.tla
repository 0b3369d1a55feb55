------------------------------ MODULE Pairing ------------------------------
(***************************************************************************)
(* One invite of one inviter, accepted over a group relay's pairing        *)
(* mailbox ("relay"), over HTTP served by the inviter ("local") or with QR *)
(* codes ("offline").  The inviter may run several waiting commands at     *)
(* once (invite create --rendezvous, invite relay wait), several joiners   *)
(* may accept, and an accept may be repeated.                              *)
(*                                                                         *)
(* A request is its joiner and the number of the joiner's attempt: each    *)
(* has fresh ephemeral and ratchet keys.  The master secret of a handshake *)
(* is the request whose secrets were used and the number k of the          *)
(* inviter's ephemeral key pair, so that the two ends hold the same master *)
(* exactly when they used the same request and the same response.  The     *)
(* invite (24 h) does not expire within the behaviours considered.         *)
(***************************************************************************)
EXTENDS Naturals, FiniteSets

CONSTANTS
    Joiner,         \* the joiners that scanned the invite
    Waiter,         \* commands of the inviter that may run side by side
    MaxAttempts,    \* bound: requests built by one joiner
    MaxReplies,     \* bound: handshakes completed by the inviter
    MaxWaits,       \* bound: waiting commands started
    MaxFaults       \* bound: processes of the inviter killed, answers lost

ASSUME BoundsAreNat ==
    /\ MaxAttempts \in Nat /\ MaxReplies \in Nat
    /\ MaxWaits \in Nat /\ MaxFaults \in Nat

Mode == {"relay", "local", "offline"}
Request == [joiner : Joiner, n : Nat]
Master == [req : Request, k : Nat]

\* A row of pairing_sessions; {} stands for NULL.
Session ==
    [there : BOOLEAN, request : SUBSET Request, response : SUBSET Master,
     consumed : BOOLEAN, old : BOOLEAN]
NoSession ==
    [there |-> FALSE, request |-> {}, response |-> {}, consumed |-> FALSE, old |-> FALSE]
Opened(requests) == [NoSession EXCEPT !.there = TRUE, !.request = requests]

VARIABLES
    mode,       \* how the invite is to be accepted (rendezvous_hint)
    session,    \* the relay's row for invite_tag
    wait,       \* [Waiter -> [pc, got]]: the inviter's commands
    polling,    \* [Joiner -> SUBSET Request]: the request an accept waits with
    pending,    \* [Joiner -> SUBSET Request]: pending_pairing.json (offline)
    shown,      \* [req : SUBSET Request, resp : SUBSET Master]: QR codes shown
    contact,    \* [Joiner -> SUBSET Master]: the inviter's stored contacts
    peer,       \* [Joiner -> SUBSET Master]: the contact stored by a joiner
    answered,   \* SUBSET Master: handshakes whose response was given out or stored
    attempts,   \* [Joiner -> Nat]: requests built
    replies,    \* Nat: handshakes completed
    waits,      \* Nat: waiting commands started
    faults      \* Nat: processes of the inviter killed

vars == <<mode, session, wait, polling, pending, shown, contact, peer,
          answered, attempts, replies, waits, faults>>

Idle == [pc |-> "idle", got |-> {}]
WaitState ==
    [pc : {"idle", "polling", "replying", "saving", "serving"}, got : SUBSET Master]

Init ==
    /\ mode \in Mode
    /\ session = NoSession
    /\ wait = [w \in Waiter |-> Idle]
    /\ polling = [j \in Joiner |-> {}]
    /\ pending = [j \in Joiner |-> {}]
    /\ shown = [req |-> {}, resp |-> {}]
    /\ contact = [j \in Joiner |-> {}]
    /\ peer = [j \in Joiner |-> {}]
    /\ answered = {}
    /\ attempts = [j \in Joiner |-> 0]
    /\ replies = 0 /\ waits = 0 /\ faults = 0

-----------------------------------------------------------------------------
(* Keys *)

\* build_pairing_request: the joiner's next request.
NewRequest(j) == [joiner |-> j, n |-> attempts[j] + 1]
MayRequest(j) == attempts[j] < MaxAttempts
CountRequest(j) == attempts' = [attempts EXCEPT ![j] = @ + 1]

\* inviter_complete_pairing: the master and response for request q.
NewMaster(q) == [req |-> q, k |-> replies + 1]
MayReply == replies < MaxReplies
CountReply == replies' = replies + 1

\* (slip) The transcript hash of the response is not compared.
TranscriptMatches_Unchecked(q, m) == TRUE

\* joiner_complete_pairing: the transcript recomputed from the joiner's own
\* request must be that of the response.
TranscriptMatches(q, m) == m.req = q

\* The joiner's master: its own secrets and the inviter's ephemeral key.
JoinerMaster(q, m) == [req |-> q, k |-> m.k]

Stored(store, j, m) == [store EXCEPT ![j] = {m}]

\* joiner_complete_pairing's check; a response to another request stores nothing.
Completed(j, q, m) ==
    peer' = IF TranscriptMatches(q, m) THEN Stored(peer, j, JoinerMaster(q, m)) ELSE peer

-----------------------------------------------------------------------------
(* The relay's pairing mailbox *)

\* PairingStore.register: 409 once consumed, else the row starts over.
MayRegister == ~session.consumed

\* (slip) store_response looks for the row only.
MayAnswer_Again == session.there
\* PairingStore.store_response: unknown or consumed sessions are refused.
MayAnswer == session.there /\ ~session.consumed

\* PairingStore.store_request: inserted or updated, 409 once consumed.
RequestStored(q) ==
    IF session.there THEN [session EXCEPT !.request = {q}] ELSE Opened({q})

\* (slip) The UPDATE forgets consumed = 1.
ResponseStored_Open(m) == [session EXCEPT !.response = {m}]
ResponseStored(m) == [session EXCEPT !.response = {m}, !.consumed = TRUE]

\* get_pending_request and get_response.
PendingRequest == IF session.there /\ ~session.consumed THEN session.request ELSE {}
Response == IF session.consumed THEN session.response ELSE {}

Active(w) == wait[w].pc \in {"polling", "replying"}

\* 30 minutes after registered_at; every waiting command registers and ends
\* within its 120 s.
Age ==
    /\ session.there /\ ~session.old
    /\ \A w \in Waiter : ~Active(w)
    /\ session' = [session EXCEPT !.old = TRUE]
    /\ UNCHANGED <<mode, wait, polling, pending, shown, contact, peer,
                   answered, attempts, replies, waits, faults>>

\* PairingStore.sweep_expired.
Sweep ==
    /\ session.there /\ session.old
    /\ session' = NoSession
    /\ UNCHANGED <<mode, wait, polling, pending, shown, contact, peer,
                   answered, attempts, replies, waits, faults>>

-----------------------------------------------------------------------------
(* The inviter's waiting commands *)

Goes(w, pc, got) == wait' = [wait EXCEPT ![w] = [pc |-> pc, got |-> got]]

Starts(w) == wait[w] = Idle /\ waits < MaxWaits /\ waits' = waits + 1

\* inviter_wait_on_relay: register, then poll.
StartWait(w) ==
    /\ mode = "relay" /\ MayRegister
    /\ Starts(w)
    /\ session' = Opened({})
    /\ Goes(w, "polling", {})
    /\ UNCHANGED <<mode, polling, pending, shown, contact, peer, answered,
                   attempts, replies, faults>>

\* poll_relay_pair_request returns, and the handshake is completed.
PollRequest(w) ==
    /\ wait[w].pc = "polling" /\ MayReply
    /\ \E q \in PendingRequest : Goes(w, "replying", {NewMaster(q)})
    /\ CountReply
    /\ UNCHANGED <<mode, session, polling, pending, shown, contact, peer,
                   answered, attempts, waits, faults>>

PollTimeout(w) ==
    /\ wait[w].pc = "polling"
    /\ Goes(w, "idle", {})
    /\ UNCHANGED <<mode, session, polling, pending, shown, contact, peer,
                   answered, attempts, replies, waits, faults>>

\* post_relay_pair_response; refused, the command ends without storing the
\* contact (raise_for_status).  An answer lost on the way back is PostResponse
\* followed by Kill.
PostResponse(w) ==
    /\ wait[w].pc = "replying"
    /\ IF MayAnswer
       THEN \E m \in wait[w].got :
              /\ session' = ResponseStored(m)
              /\ answered' = answered \cup {m}
              /\ Goes(w, "saving", {m})
       ELSE /\ Goes(w, "idle", {})
            /\ UNCHANGED <<session, answered>>
    /\ UNCHANGED <<mode, polling, pending, shown, contact, peer, attempts,
                   replies, waits, faults>>

\* store.save_contact of the command that ran the handshake.
SaveContact(w) ==
    /\ wait[w].pc = "saving"
    /\ \E m \in wait[w].got : contact' = Stored(contact, m.req.joiner, m)
    /\ Goes(w, "idle", {})
    /\ UNCHANGED <<mode, session, polling, pending, shown, peer, answered,
                   attempts, replies, waits, faults>>

Kill(w) ==
    /\ wait[w].pc # "idle" /\ faults < MaxFaults
    /\ Goes(w, "idle", {})
    /\ faults' = faults + 1
    /\ UNCHANGED <<mode, session, polling, pending, shown, contact, peer,
                   answered, attempts, replies, waits>>

\* invite create without a relay: create_rendezvous_app, for one command.
StartServe(w) ==
    /\ mode = "local" /\ waits = 0
    /\ Starts(w)
    /\ Goes(w, "serving", {})
    /\ UNCHANGED <<mode, session, polling, pending, shown, contact, peer,
                   answered, attempts, replies, faults>>

\* (slip) The loop gives up at its deadline without a look at paired_contact.
AfterServe_Deadline(got) == Idle
\* A contact completed before the deadline is stored.
AfterServe(got) == IF got = {} THEN Idle ELSE [pc |-> "saving", got |-> got]

\* The loop sees consumed, or its deadline; then paired_contact is looked at,
\* once the server's thread has ended its handler (join, at most 2 s).
StopServe(w) ==
    /\ wait[w].pc = "serving"
    /\ wait' = [wait EXCEPT ![w] = AfterServe(@.got)]
    /\ UNCHANGED <<mode, session, polling, pending, shown, contact, peer,
                   answered, attempts, replies, waits, faults>>

-----------------------------------------------------------------------------
(* The joiners *)

\* POST /v1/pair: refused once the session is consumed.
PostRequest(q) == ~session.consumed /\ session' = RequestStored(q)

\* invite accept: the request is posted to the relay; a lost answer is Accept
\* followed by StopAccept.
Accept(j) ==
    /\ mode = "relay" /\ polling[j] = {} /\ MayRequest(j)
    /\ PostRequest(NewRequest(j))
    /\ polling' = [polling EXCEPT ![j] = {NewRequest(j)}]
    /\ CountRequest(j)
    /\ UNCHANGED <<mode, wait, pending, shown, contact, peer, answered,
                   replies, waits, faults>>

\* poll_relay_pair_response, joiner_complete_pairing and save_contact; a
\* response to another request ends the command.
PollResponse(j) ==
    /\ \E q \in polling[j], m \in Response : Completed(j, q, m)
    /\ polling' = [polling EXCEPT ![j] = {}]
    /\ UNCHANGED <<mode, session, wait, pending, shown, contact, answered,
                   attempts, replies, waits, faults>>

\* The deadline of the poll, or the process is killed.
StopAccept(j) ==
    /\ polling[j] # {}
    /\ polling' = [polling EXCEPT ![j] = {}]
    /\ UNCHANGED <<mode, session, wait, pending, shown, contact, peer, answered,
                   attempts, replies, waits, faults>>

\* invite accept with a local rendezvous: the handler runs under its lock and
\* answers once; the joiner may not get the answer.
LocalPair(j, w) ==
    /\ wait[w].pc = "serving" /\ wait[w].got = {}
    /\ MayRequest(j) /\ MayReply
    /\ LET m == NewMaster(NewRequest(j)) IN
         /\ Goes(w, "serving", {m})
         /\ answered' = answered \cup {m}
         /\ peer' \in {peer, Stored(peer, j, m)}
    /\ CountRequest(j) /\ CountReply
    /\ UNCHANGED <<mode, session, polling, pending, shown, contact, waits, faults>>

\* What a QR code has shown can be scanned from then on.
ShownRequest(q) == [shown EXCEPT !.req = @ \cup {q}]
ShownResponse(m) == [shown EXCEPT !.resp = @ \cup {m}]

\* invite offline joiner-start: pending_pairing.json holds the last request only.
JoinerStart(j) ==
    /\ mode = "offline" /\ MayRequest(j)
    /\ pending' = [pending EXCEPT ![j] = {NewRequest(j)}]
    /\ shown' = ShownRequest(NewRequest(j))
    /\ CountRequest(j)
    /\ UNCHANGED <<mode, session, wait, polling, contact, peer, answered,
                   replies, waits, faults>>

\* invite offline inviter-respond: the contact is stored, then the response is
\* shown, unless the process dies in between.
InviterRespond ==
    /\ mode = "offline" /\ MayReply
    /\ \E q \in shown.req :
         /\ contact' = Stored(contact, q.joiner, NewMaster(q))
         /\ shown' \in {shown, ShownResponse(NewMaster(q))}
         /\ answered' = answered \cup {NewMaster(q)}
    /\ CountReply
    /\ UNCHANGED <<mode, session, wait, polling, pending, peer, attempts, waits, faults>>

\* finish_offline_pairing: a response to another request ends the command.
Finished(j, q, m) == TranscriptMatches(q, m) /\ Completed(j, q, m)

\* invite offline joiner-finish; the process may die before the pending file
\* is removed.
JoinerFinish(j) ==
    /\ \E q \in pending[j], m \in shown.resp : Finished(j, q, m)
    /\ pending' \in {pending, [pending EXCEPT ![j] = {}]}
    /\ UNCHANGED <<mode, session, wait, polling, shown, contact, answered,
                   attempts, replies, waits, faults>>

Next ==
    \/ Age \/ Sweep \/ InviterRespond
    \/ \E w \in Waiter :
         \/ StartWait(w) \/ PollRequest(w) \/ PollTimeout(w) \/ PostResponse(w)
         \/ SaveContact(w) \/ Kill(w) \/ StartServe(w) \/ StopServe(w)
         \/ \E j \in Joiner : LocalPair(j, w)
    \/ \E j \in Joiner :
         \/ Accept(j) \/ PollResponse(j) \/ StopAccept(j)
         \/ JoinerStart(j) \/ JoinerFinish(j)

Spec == Init /\ [][Next]_vars

-----------------------------------------------------------------------------
(* Properties *)

\* Every part of the state keeps its type, and a session of the relay has a
\* response exactly when it is consumed.
TypeOK ==
    /\ mode \in Mode
    /\ session \in Session
    /\ wait \in [Waiter -> WaitState]
    /\ polling \in [Joiner -> SUBSET Request] /\ pending \in [Joiner -> SUBSET Request]
    /\ shown \in [req : SUBSET Request, resp : SUBSET Master]
    /\ contact \in [Joiner -> SUBSET Master] /\ peer \in [Joiner -> SUBSET Master]
    /\ answered \in SUBSET Master
    /\ attempts \in [Joiner -> Nat]
    /\ replies \in Nat /\ waits \in Nat /\ faults \in Nat
    /\ session.consumed <=> session.response # {}
    /\ session.consumed => session.there

\* While the relay keeps a consumed session it neither reopens nor changes it:
\* of the waiting commands that answer the same invite only the first is heard
\* (register, store_request, store_response).
AnswerFinal ==
    [][session.consumed => (session' = NoSession \/ session'.response = session.response)]_vars

Disagree(j) == contact[j] # {} /\ peer[j] # {} /\ contact[j] # peer[j]

\* The two ends of a contact hold different masters only if the inviter gave
\* two answers to that joiner: one answer, read late, by another attempt or
\* after a race of two waiting commands, never splits them
\* (joiner_complete_pairing, inviter_wait_on_relay).
AgreeOnSingleAnswer ==
    \A j \in Joiner : Disagree(j) =>
        Cardinality({m \in answered : m.req.joiner = j}) > 1

\* A joiner that stored the contact finds the inviter with a contact for it, or
\* about to store it, unless a process of the inviter was killed.
NoSilentHalfPairing ==
    \A j \in Joiner : peer[j] # {} /\ faults = 0 =>
        \/ contact[j] # {}
        \/ \E w \in Waiter : \E m \in wait[w].got :
             wait[w].pc \in {"saving", "serving"} /\ m.req.joiner = j
=============================================================================
