------------------------------- MODULE Mobile -------------------------------
(***************************************************************************)
(* The mobile client (yakr_mobile/client.py) over its store                *)
(* (encrypted_store.py), which keeps every contact twice: the row of the   *)
(* client database, written first, and an encrypted copy in a database of  *)
(* its own, written by a second commit.  The client reads the copy; the    *)
(* code it shares with the command line, send_delivery_receipt and         *)
(* deliver_encrypted, reads and writes the row alone.  The fetch lock      *)
(* belongs to a store object that is made anew for every use, so it keeps  *)
(* no thread of the app from fetching beside another.                      *)
(*                                                                         *)
(* Abstractions: one contact, paired offline; the peer's posts succeed and *)
(* it answers a text with a receipt at some time (module Delivery says how *)
(* it works); the ratchet opens what it is given (module Ratchet); no      *)
(* message and no profile expires.                                         *)
(***************************************************************************)
EXTENDS Naturals, Sequences

CONSTANTS
    Mobile, Peer,   \* the two ends of the conversation
    Thread,         \* the threads of the app: its window and its fetch worker
    Window,         \* the one that sends and pairs
    MaxSends,       \* bound: texts of the client
    Pushes,         \* what the peer may push: "profile", "presence"
    MaxMessages,    \* bound: these and all messages of the peer together
    MaxSeq,         \* bound: the client's next_send_seq
    MaxKills,       \* bound: how often the app dies
    Posts           \* outcomes of a POST: "ok", "fail", "lost"

End == {Mobile, Peer}

ASSUME MobileAssumption ==
    /\ Mobile # Peer /\ Window \in Thread
    /\ MaxSends \in Nat /\ MaxMessages \in Nat
    /\ MaxSeq \in Nat /\ MaxKills \in Nat
    /\ Pushes \subseteq {"profile", "presence"}
    /\ Posts \subseteq {"ok", "fail", "lost"}

Contact == [next_send_seq : Nat, last_recv_seq : Nat]
NoContact == [next_send_seq |-> 0, last_recv_seq |-> 0]
Paired == [next_send_seq |-> 1, last_recv_seq |-> 0]
BlobsOf(ends) ==
    [from : ends, kind : {"text", "receipt", "profile", "presence"}, seq : Nat, id : Nat]
Blob == BlobsOf(End)
Row == [seq : Nat, id : Nat]

VARIABLES
    row,                \* the contact in the client database
    kv,                 \* its encrypted copy
    pending_pairing,    \* is an offline pairing's request kept?
    outbound_pending,   \* SUBSET Blob
    inbound,            \* SUBSET Row: inbound_messages
    pending_receipts,   \* SUBSET Nat
    relay,              \* the blobs of both ends at the relays
    thread,             \* [Thread -> Process]
    peer_seq,           \* the peer's next_send_seq
    kills,              \* how often the app died
    texts,              \* history, [End -> Nat]: texts committed
    delivered           \* history, Seq(Nat): the peer's texts in the order stored

\* The two databases.
store == <<row, kv, pending_pairing, outbound_pending, inbound, pending_receipts>>
history == <<texts, delivered>>
vars == <<store, relay, thread, peer_seq, kills, history>>

NoBlob == [from |-> Mobile, kind |-> "text", seq |-> 0, id |-> 0]
Idle == [pc |-> "idle", back |-> "idle", mem |-> NoContact, msg |-> NoBlob,
         queue |-> {}, rid |-> 0, rmem |-> NoContact]
PC == {"idle", "commit", "post", "poll", "drain", "rload", "rsave", "rpost", "rdone",
       "rundo", "rqueue", "merge", "row", "kv", "clear"}
Back == {"idle", "post", "drain", "rload", "clear"}
Process == [pc : PC, back : Back, mem : Contact, msg : BlobsOf({Mobile}),
            queue : SUBSET Blob, rid : Nat, rmem : Contact]

\* start_offline_pairing was run and its request scanned by the peer.
Init ==
    /\ row = NoContact /\ kv = NoContact /\ pending_pairing = TRUE
    /\ outbound_pending = {} /\ inbound = {} /\ pending_receipts = {}
    /\ relay = {} /\ thread = [t \in Thread |-> Idle] /\ peer_seq = 1
    /\ kills = 0
    /\ texts = [e \in End |-> 0] /\ delivered = <<>>

-----------------------------------------------------------------------------
(* Slips: forms of later definitions that a plausible bug would give. *)

\* Every accepted text becomes a row.
IsNew_Always(m) == TRUE
\* Any later sequence number passes.
Acceptable_AnyLater(t) ==
    {m \in thread[t].queue : m.seq > thread[t].mem.last_recv_seq}
\* The answer of a receipt's POST is not looked at.
AfterReceiptPost_Always(o) == "rdone"
\* A receipt that fails gives two numbers back.
Untaken_Twice(c) == [c EXCEPT !.next_send_seq = @ - 2]

-----------------------------------------------------------------------------
\* MobileStore.get_contact.
Loaded == IF kv = NoContact THEN row ELSE kv

Taken(c) == [c EXCEPT !.next_send_seq = @ + 1]
Untaken(c) == [c EXCEPT !.next_send_seq = @ - 1]
Accepted(c, m) == [c EXCEPT !.last_recv_seq = m.seq]

MayWrite == texts[Mobile] + peer_seq - 1 < MaxMessages

\* Thread t goes from one place to the next with new values of some fields.
Goes(t, from, process) ==
    /\ thread[t].pc = from
    /\ thread' = [thread EXCEPT ![t] = process]

\* save_contact, first half: the row.
SaveRow(t) ==
    /\ Goes(t, "row", [thread[t] EXCEPT !.pc = "kv"])
    /\ row' = thread[t].mem
    /\ UNCHANGED <<kv, pending_pairing, outbound_pending, inbound, pending_receipts,
                   relay, peer_seq, kills, history>>

\* put_blob, the second half of every save of the client.
SaveCopy(t) ==
    /\ Goes(t, "kv", [thread[t] EXCEPT !.pc = thread[t].back, !.back = "idle"])
    /\ kv' = thread[t].mem
    /\ UNCHANGED <<row, pending_pairing, outbound_pending, inbound, pending_receipts,
                   relay, peer_seq, kills, history>>

-----------------------------------------------------------------------------
(* Offline pairing *)

\* finish_offline_pairing: the contact the response gives, with counters at
\* their start, is to be saved.
Finish(t) ==
    /\ t = Window /\ pending_pairing
    /\ Goes(t, "idle", [Idle EXCEPT !.pc = "row", !.back = "clear", !.mem = Paired])
    /\ UNCHANGED <<store, relay, peer_seq, kills, history>>

\* clear_pending_pairing.
FinishClear(t) ==
    /\ Goes(t, "clear", Idle)
    /\ pending_pairing' = FALSE
    /\ UNCHANGED <<row, kv, outbound_pending, inbound, pending_receipts, relay, peer_seq,
                   kills, history>>

-----------------------------------------------------------------------------
(* send_text *)

SendLoad(t) ==
    /\ t = Window /\ Loaded # NoContact
    /\ MayWrite /\ texts[Mobile] < MaxSends
    /\ Goes(t, "idle", [Idle EXCEPT !.pc = "commit", !.mem = Loaded])
    /\ UNCHANGED <<store, relay, peer_seq, kills, history>>

\* encrypt_text and the client database's half of atomic_commit_send.
SendCommit(t) ==
    LET m == [from |-> Mobile, kind |-> "text", seq |-> thread[t].mem.next_send_seq,
              id |-> texts[Mobile] + 1]
        mem == Taken(thread[t].mem)
    IN  /\ thread[t].mem.next_send_seq < MaxSeq
        /\ Goes(t, "commit", [thread[t] EXCEPT !.pc = "kv", !.back = "post",
                                               !.mem = mem, !.msg = m])
        /\ row' = mem
        /\ outbound_pending' = outbound_pending \cup {m}
        /\ texts' = [texts EXCEPT ![Mobile] = @ + 1]
        /\ UNCHANGED <<kv, pending_pairing, inbound, pending_receipts, relay, peer_seq,
                       kills, delivered>>

\* deliver_encrypted; an error ends send_text, and nothing sends the text again.
SendPost(t) ==
    /\ Goes(t, "post", Idle)
    /\ \E o \in Posts :
         relay' = IF o = "fail" THEN relay ELSE relay \cup {thread[t].msg}
    /\ UNCHANGED <<store, peer_seq, kills, history>>

-----------------------------------------------------------------------------
(* fetch_contact *)

\* Under a lock nobody else can hold, the contact is loaded, once for all tags.
FetchBegin(t) ==
    /\ Loaded # NoContact
    /\ Goes(t, "idle", [Idle EXCEPT !.pc = "poll", !.mem = Loaded])
    /\ UNCHANGED <<store, relay, peer_seq, kills, history>>

\* The polls of one tag return any part of what the relays hold by then; of it
\* only what comes after last_recv_seq can be opened.
Collect(t) ==
    /\ \E q \in SUBSET {m \in relay : m.from = Peer /\ m.seq > thread[t].mem.last_recv_seq} :
         Goes(t, "poll", [thread[t] EXCEPT !.pc = "drain", !.queue = q])
    /\ UNCHANGED <<store, relay, peer_seq, kills, history>>

\* decrypt_outer accepts only the next sequence number.
Acceptable(t) ==
    {m \in thread[t].queue : m.seq = thread[t].mem.last_recv_seq + 1}

\* The primary key of inbound_messages is (contact_name, seq).
IsNew(m) == \A r \in inbound : r.seq # m.seq

\* A text: the client database's half of atomic_commit_receive_text, the
\* contact, the message row and the queued receipt in one transaction.
AcceptText(t) ==
    \E m \in Acceptable(t) :
        LET mem == Accepted(thread[t].mem, m) IN
        /\ m.kind = "text"
        /\ Goes(t, "drain", [thread[t] EXCEPT !.pc = "kv", !.back = "rload", !.mem = mem,
                                              !.rid = m.id, !.queue = @ \ {m}])
        /\ row' = mem
        /\ pending_receipts' = pending_receipts \cup {m.id}
        /\ IF IsNew(m)
           THEN /\ inbound' = inbound \cup {[seq |-> m.seq, id |-> m.id]}
                /\ delivered' = Append(delivered, m.id)
           ELSE UNCHANGED <<inbound, delivered>>
        /\ UNCHANGED <<kv, pending_pairing, outbound_pending, relay, peer_seq, kills,
                       texts>>

\* A receipt, whose row is deleted, and a profile: the contact is to be saved.
AcceptSaved(t) ==
    \E m \in Acceptable(t) :
        /\ m.kind \in {"receipt", "profile"}
        /\ Goes(t, "drain", [thread[t] EXCEPT !.pc = "row", !.back = "drain",
                               !.mem = Accepted(@, m), !.queue = @ \ {m}])
        /\ IF m.kind = "receipt"
           THEN outbound_pending' = {x \in outbound_pending : x.id # m.id}
           ELSE UNCHANGED outbound_pending
        /\ UNCHANGED <<row, kv, pending_pairing, inbound, pending_receipts, relay, peer_seq,
                       kills, history>>

\* A presence message is passed over, last_recv_seq advanced in memory only.
AcceptPresence(t) ==
    /\ \E m \in Acceptable(t) :
         /\ m.kind = "presence"
         /\ Goes(t, "drain", [thread[t] EXCEPT !.mem = Accepted(@, m), !.queue = @ \ {m}])
    /\ UNCHANGED <<store, relay, peer_seq, kills, history>>

\* After a receipt the sending half is taken from the copy of the contact.
Merge(t) ==
    /\ Goes(t, "merge", [thread[t] EXCEPT !.pc = "row", !.back = "drain", !.rid = 0,
                           !.rmem = NoContact, !.mem.next_send_seq = Loaded.next_send_seq])
    /\ UNCHANGED <<store, relay, peer_seq, kills, history>>

\* A pass without progress ends the tag, and what is left of it is forgotten.
NextTag(t) ==
    /\ Acceptable(t) = {}
    /\ Goes(t, "drain", [thread[t] EXCEPT !.pc = "poll", !.queue = {}])
    /\ UNCHANGED <<store, relay, peer_seq, kills, history>>

\* After the last tag.
FetchEnd(t) ==
    /\ Acceptable(t) = {}
    /\ Goes(t, "drain", Idle)
    /\ UNCHANGED <<store, relay, peer_seq, kills, history>>

-----------------------------------------------------------------------------
(* send_delivery_receipt, over the client database only *)

ReceiptLoad(t) ==
    /\ Goes(t, "rload", [thread[t] EXCEPT !.pc = "rsave", !.rmem = row])
    /\ UNCHANGED <<store, relay, peer_seq, kills, history>>

\* atomic_persist_contact, before the POST or after one that failed.
ReceiptPersist(t, from, to, c) ==
    /\ Goes(t, from, [thread[t] EXCEPT !.pc = to, !.rmem = c])
    /\ row' = c
    /\ UNCHANGED <<kv, pending_pairing, outbound_pending, inbound, pending_receipts,
                   relay, peer_seq, kills, history>>

\* encrypt_receipt takes a number.
ReceiptSave(t) ==
    /\ thread[t].rmem.next_send_seq < MaxSeq
    /\ ReceiptPersist(t, "rsave", "rpost", Taken(thread[t].rmem))

\* next_send_seq is set back.
ReceiptUndo(t) == ReceiptPersist(t, "rundo", "rqueue", Untaken(thread[t].rmem))

AfterReceiptPost(o) == IF o = "ok" THEN "rdone" ELSE "rundo"

ReceiptPost(t) ==
    LET r == [from |-> Mobile, kind |-> "receipt", id |-> thread[t].rid,
              seq |-> thread[t].rmem.next_send_seq - 1]
    IN  /\ \E o \in Posts :
             /\ Goes(t, "rpost", [thread[t] EXCEPT !.pc = AfterReceiptPost(o)])
             /\ relay' = IF o = "fail" THEN relay ELSE relay \cup {r}
        /\ UNCHANGED <<store, peer_seq, kills, history>>

\* delete_pending_receipt or save_pending_receipt.
ReceiptEnd(t) ==
    /\ \/ /\ Goes(t, "rdone", [thread[t] EXCEPT !.pc = "merge"])
          /\ pending_receipts' = pending_receipts \ {thread[t].rid}
       \/ /\ Goes(t, "rqueue", [thread[t] EXCEPT !.pc = "merge"])
          /\ pending_receipts' = pending_receipts \cup {thread[t].rid}
    /\ UNCHANGED <<row, kv, pending_pairing, outbound_pending, inbound, relay, peer_seq,
                   kills, history>>

-----------------------------------------------------------------------------
(* The peer, and the end of the app *)

PeerSends(kind, id) ==
    /\ relay' = relay \cup {[from |-> Peer, kind |-> kind, seq |-> peer_seq, id |-> id]}
    /\ peer_seq' = peer_seq + 1
    /\ UNCHANGED <<store, thread, kills, delivered>>

PeerText ==
    /\ MayWrite
    /\ PeerSends("text", texts[Peer] + 1)
    /\ texts' = [texts EXCEPT ![Peer] = @ + 1]

PeerPush ==
    /\ MayWrite
    /\ \E kind \in Pushes : PeerSends(kind, 0)
    /\ UNCHANGED texts

\* The peer has stored a text and posts its receipt.
PeerReceipt ==
    /\ MayWrite
    /\ \E m \in relay :
         /\ m.from = Mobile /\ m.kind = "text"
         /\ \A r \in relay : r.from = Peer /\ r.kind = "receipt" => r.id # m.id
         /\ PeerSends("receipt", m.id)
    /\ UNCHANGED texts

\* The app is killed: all its threads are gone, what they committed stays.
Kill ==
    /\ kills < MaxKills /\ kills' = kills + 1
    /\ thread' = [t \in Thread |-> Idle]
    /\ UNCHANGED <<store, relay, peer_seq, history>>

-----------------------------------------------------------------------------
Client(t) ==
    \/ SaveRow(t) \/ SaveCopy(t) \/ Finish(t) \/ FinishClear(t)
    \/ SendLoad(t) \/ SendCommit(t) \/ SendPost(t)
    \/ FetchBegin(t) \/ Collect(t) \/ AcceptText(t) \/ AcceptSaved(t) \/ AcceptPresence(t)
    \/ Merge(t) \/ NextTag(t) \/ FetchEnd(t)
    \/ ReceiptLoad(t) \/ ReceiptSave(t) \/ ReceiptUndo(t)
    \/ ReceiptPost(t) \/ ReceiptEnd(t)

Next == (\E t \in Thread : Client(t)) \/ PeerText \/ PeerPush \/ PeerReceipt \/ Kill

Spec == Init /\ [][Next]_vars

-----------------------------------------------------------------------------
(* Properties *)

\* Every part of the state keeps its type.
TypeOK ==
    /\ row \in Contact /\ kv \in Contact /\ peer_seq \in Nat
    /\ pending_pairing \in BOOLEAN
    /\ outbound_pending \subseteq Blob /\ relay \subseteq Blob
    /\ inbound \subseteq Row /\ pending_receipts \subseteq Nat
    /\ thread \in [Thread -> Process]
    /\ kills \in Nat
    /\ texts \in [End -> Nat] /\ delivered \in Seq(Nat)

\* The peer's texts numbered up to n are in the client's inbound_messages.
StoredUpTo(n) ==
    \A m \in relay : m.from = Peer /\ m.kind = "text" /\ m.seq <= n =>
        \E r \in inbound : r.seq = m.seq /\ r.id = m.id

\* Neither copy of the contact is past a text that is not stored: no kill
\* between the two commits of a save, no fetch beside another and no repeated
\* pairing makes the client skip a text (atomic_commit_receive_text commits the
\* message with the row, and the copy follows).
ReceivedIsStored == StoredUpTo(row.last_recv_seq) /\ StoredUpTo(kv.last_recv_seq)

\* Every stored text has its receipt queued or at a relay, though two stores
\* and two threads are involved (atomic_commit_receive_text queues it,
\* send_delivery_receipt unqueues it after its POST).
ReceiptQueuedOrPosted ==
    \A r \in inbound :
        \/ r.id \in pending_receipts
        \/ \E m \in relay : m.from = Mobile /\ m.kind = "receipt" /\ m.id = r.id

\* What the peer sends to the client is the channel of TextChannel, of which
\* the other direction stays unused.
Inbox == INSTANCE TextChannel WITH
    Alice <- Mobile,
    Bob <- Peer,
    texts <- [texts EXCEPT ![Mobile] = 0],
    delivered <- [e \in End |-> IF e = Mobile THEN delivered ELSE <<>>],
    acked <- [e \in End |-> {m.id : m \in {r \in relay :
                 e = Peer /\ r.from = Mobile /\ r.kind = "receipt"}}]

\* The client, with two threads that fetch and an app that may die, stores the
\* peer's texts in order and once, and acknowledges only what it stored
\* (fetch_contact, atomic_commit_receive_text, send_delivery_receipt).
InboxIsChannel == Inbox!Spec
=============================================================================
