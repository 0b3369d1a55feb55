------------------------------ MODULE Delivery ------------------------------
(***************************************************************************)
(* The delivery core of the reference client: two paired peers, each with  *)
(* its SQLite store (yakr_core/store.py), exchanging opaque blobs through  *)
(* store-and-forward relays.                                               *)
(*                                                                         *)
(* A peer works at one or several terminals.  A terminal runs one command  *)
(* after another, each a process with its own store object: `yakr fetch`   *)
(* or `yakr receipts flush` (the variable fetch), `yakr send`, `resend` or *)
(* `presence push` (the variable cmd).  fetch_lock belongs to the store    *)
(* object, so it makes no process wait for another: whatever two terminals *)
(* run, they run side by side.  Every action below is one storage          *)
(* transaction or one HTTP exchange; a process may be killed between any   *)
(* two of them.  A contact row is always loaded and stored whole, so a     *)
(* process that stores an old copy undoes what others stored meanwhile.    *)
(*                                                                         *)
(* Abstractions: a blob is identified by its sender, kind, sequence number *)
(* and the text it carries or acknowledges; the ratchet always yields the  *)
(* plaintext; all relays and direct servers are one set                    *)
(* of blobs, of which a poll returns any part; a message expires at its    *)
(* sender, at the relay and at its receiver at once.                       *)
(***************************************************************************)
EXTENDS Naturals, Sequences, FiniteSets

CONSTANTS
    Alice, Bob,     \* the two peers of the conversation
    Terminal, At,   \* the terminals, and [Terminal -> Peer]: whose they are
    MaxTexts,       \* [Peer -> Nat]: how many texts a peer sends
    MaxAux,         \* [Peer -> Nat]: how many presence pushes
    MaxSeq,         \* bound on next_send_seq
    FurtherTags,    \* how many mailbox tags a fetch polls after the first
    MaxTyped,       \* [SUBSET Terminal -> Nat]: bound on the commands of these terminals
    MaxCrashes,     \* bound on the number of killed processes
    ReceiptPosts,   \* outcomes of a receipt's POST: "ok", "fail", "lost"
    CommandPosts,   \* outcomes of any other POST
    MaxExpired      \* bound on the messages past the end of their TTL

Peer == {Alice, Bob}
Other(p) == IF p = Alice THEN Bob ELSE Alice
Outcome == {"ok", "fail", "lost"}

ASSUME PeersDiffer == Alice # Bob
ASSUME BoundsAreNat ==
    /\ MaxTexts \in [Peer -> Nat] /\ MaxAux \in [Peer -> Nat]
    /\ MaxSeq \in Nat /\ MaxCrashes \in Nat /\ FurtherTags \in Nat
    /\ MaxExpired \in Nat
ASSUME OutcomesKnown == ReceiptPosts \subseteq Outcome /\ CommandPosts \subseteq Outcome
ASSUME TerminalsOfPeers == At \in [Terminal -> Peer]
ASSUME MaxTypedIsNat == MaxTyped \in [DOMAIN MaxTyped -> Nat]

(***************************************************************************)
(* A stored contact (its send and receive counters) and a blob.  The id of *)
(* a text is its rank among the texts its sender committed; a receipt      *)
(* carries the id of the text it acknowledges; a presence push ("aux")     *)
(* carries 0.                                                              *)
(***************************************************************************)
Contact == [next_send_seq : Nat \ {0}, last_recv_seq : Nat]
Blob == [from : Peer, kind : {"text", "receipt", "aux"}, seq : Nat, id : Nat]
Row == [seq : Nat, id : Nat]

FreshContact == [next_send_seq |-> 1, last_recv_seq |-> 0]
Text(p, s, n) == [from |-> p, kind |-> "text", seq |-> s, id |-> n]
Receipt(p, s, n) == [from |-> p, kind |-> "receipt", seq |-> s, id |-> n]
Aux(p, s) == [from |-> p, kind |-> "aux", seq |-> s, id |-> 0]

VARIABLES
    contact,            \* [Peer -> Contact]: the contacts table
    outbound_pending,   \* [Peer -> SUBSET Blob]: texts not yet acknowledged
    pending_receipts,   \* [Peer -> SUBSET Nat]: text ids still to be receipted
    inbound,            \* [Peer -> SUBSET Row]: the inbound_messages table
    relay,              \* every blob some relay ever stored
    expired,            \* the blobs past their valid_until
    fetch,              \* [Terminal -> FetchProcess]
    cmd,                \* [Terminal -> CommandProcess]
    typed,              \* [DOMAIN MaxTyped -> Nat]: commands typed so far
    crashes,            \* processes killed so far
    auxes,              \* [Peer -> Nat]: presence pushes so far
    texts,              \* history, [Peer -> Nat]: texts committed so far
    delivered,          \* history, [Peer -> Seq(Nat)]: ids in row order
    acked,              \* history, [Peer -> SUBSET Nat]: ids named by accepted receipts
    dropped             \* history, [Peer -> SUBSET Nat]: numbers of pushes and receipts
                        \* that a refused push or a kill left without a message

store == <<contact, outbound_pending, pending_receipts, inbound>>
network == <<relay, expired>>
counts == <<typed, crashes, auxes>>
history == <<texts, delivered, acked, dropped>>
vars == <<store, network, fetch, cmd, counts, history>>

NoBlob == Text(Alice, 0, 0)
IdleFetch == [pc |-> "idle", mem |-> FreshContact, queue |-> {}, todo |-> {},
              rid |-> 0, rmem |-> FreshContact, back |-> "idle", tags |-> 0]
IdleCmd == [pc |-> "idle", mem |-> FreshContact, msg |-> NoBlob, todo |-> {},
            again |-> FALSE]

FetchPC == {"idle", "flush", "collect", "drain", "merge", "save",
            "rload", "rsave", "rpost", "rdone", "rundo", "rqueue"}
CmdPC == {"idle", "send", "push", "post", "resend", "mark"}

FetchProcess == [pc : FetchPC, mem : Contact, queue : SUBSET Blob,
                 todo : SUBSET Nat, rid : Nat, rmem : Contact,
                 back : {"idle", "collect", "merge"}, tags : Nat]
CommandProcess == [pc : CmdPC, mem : Contact, msg : Blob,
                   todo : SUBSET Blob, again : BOOLEAN]

Init ==
    /\ contact = [p \in Peer |-> FreshContact]
    /\ outbound_pending = [p \in Peer |-> {}]
    /\ pending_receipts = [p \in Peer |-> {}]
    /\ inbound = [p \in Peer |-> {}]
    /\ relay = {} /\ expired = {}
    /\ fetch = [x \in Terminal |-> IdleFetch]
    /\ cmd = [x \in Terminal |-> IdleCmd]
    /\ typed = [x \in DOMAIN MaxTyped |-> 0]
    /\ crashes = 0 /\ auxes = [p \in Peer |-> 0]
    /\ texts = [p \in Peer |-> 0]
    /\ delivered = [p \in Peer |-> <<>>]
    /\ acked = [p \in Peer |-> {}]
    /\ dropped = [p \in Peer |-> {}]

-----------------------------------------------------------------------------
(***************************************************************************)
(* Slips: forms of later definitions that a plausible bug would give.  No  *)
(* behaviour uses them; they show which property would catch the bug.      *)
(***************************************************************************)

\* A failed receipt takes two sequence numbers back.
Untaken_Twice(c) == [c EXCEPT !.next_send_seq = @ - 2]
\* A failed receipt keeps its sequence number.
Untaken_Never(c) == c
\* The answer of a resend's POST is not looked at.
AfterResend_Always(o) == "mark"
\* The answer of a receipt's POST is not looked at.
AfterReceiptPost_Always(o) == "rdone"
\* One message row per contact.
IsNew_OnePerContact(p, m) == inbound[p] = {}
\* INSERT OR REPLACE: an accepted text is stored whatever row has its number.
IsNew_Always(p, m) == TRUE
\* The send-side counters are not read back after a receipt.
Merge_Skipped(x) ==
    /\ fetch[x].pc = "merge"
    /\ fetch' = [fetch EXCEPT ![x].pc = "save"]
    /\ UNCHANGED <<store, network, cmd, counts, history>>

-----------------------------------------------------------------------------
\* A terminal starts a command when its last one has ended.
Free(x) == fetch[x].pc = "idle" /\ cmd[x].pc = "idle"

\* One more command at a terminal where they are counted.
Typing(x) ==
    /\ x \in DOMAIN MaxTyped => typed[x] < MaxTyped[x]
    /\ typed' = [t \in DOMAIN MaxTyped |-> IF t = x THEN typed[t] + 1 ELSE typed[t]]

Taken(c) == [c EXCEPT !.next_send_seq = @ + 1]     \* encrypt_* took a sequence number
Untaken(c) == [c EXCEPT !.next_send_seq = @ - 1]   \* send_seq_before is put back
Accepted(c) == [c EXCEPT !.last_recv_seq = @ + 1]  \* decrypt_outer accepted the next one

-----------------------------------------------------------------------------
(* yakr send and presence push *)

\* send_cmd: load the contact.
SendLoad(x) ==
    /\ Free(x) /\ Typing(x)
    /\ texts[At[x]] < MaxTexts[At[x]]
    /\ cmd' = [cmd EXCEPT ![x].pc = "send", ![x].mem = contact[At[x]]]
    /\ UNCHANGED <<store, network, fetch, crashes, auxes, history>>

\* send_cmd: encrypt_text and atomic_commit_send, one transaction.
SendCommit(x) ==
    LET m == Text(At[x], cmd[x].mem.next_send_seq, texts[At[x]] + 1) IN
    /\ cmd[x].pc = "send"
    /\ cmd[x].mem.next_send_seq < MaxSeq
    /\ contact' = [contact EXCEPT ![At[x]] = Taken(cmd[x].mem)]
    /\ outbound_pending' = [outbound_pending EXCEPT ![At[x]] = @ \cup {m}]
    /\ texts' = [texts EXCEPT ![At[x]] = @ + 1]
    /\ cmd' = [cmd EXCEPT ![x].pc = "post", ![x].msg = m, ![x].mem = Taken(@)]
    /\ UNCHANGED <<pending_receipts, inbound, network, fetch, counts, delivered, acked, dropped>>

\* broadcast_presence: load the contact.
PushLoad(x) ==
    /\ Free(x) /\ Typing(x)
    /\ auxes[At[x]] < MaxAux[At[x]]
    /\ cmd' = [cmd EXCEPT ![x].pc = "push", ![x].mem = contact[At[x]]]
    /\ UNCHANGED <<store, network, fetch, crashes, auxes, history>>

\* broadcast_presence: encrypt_presence and save_contact; no pending row.
PushCommit(x) ==
    /\ cmd[x].pc = "push"
    /\ cmd[x].mem.next_send_seq < MaxSeq
    /\ contact' = [contact EXCEPT ![At[x]] = Taken(cmd[x].mem)]
    /\ auxes' = [auxes EXCEPT ![At[x]] = @ + 1]
    /\ cmd' = [cmd EXCEPT ![x].pc = "post", ![x].mem = Taken(@),
                          ![x].msg = Aux(At[x], cmd[x].mem.next_send_seq)]
    /\ UNCHANGED <<outbound_pending, pending_receipts, inbound, network, fetch,
                   typed, crashes, history>>

\* deliver_encrypted refreshes a stale profile and stores the contact it holds.
CommandRefresh(x) ==
    /\ cmd[x].pc = "post"
    /\ contact' = [contact EXCEPT ![At[x]] = cmd[x].mem]
    /\ UNCHANGED <<outbound_pending, pending_receipts, inbound, network, fetch, cmd,
                   counts, history>>

\* resend_pending_for_contact: a row is marked after a POST that succeeded.
AfterResend(o) == IF o = "ok" THEN "mark" ELSE "resend"

\* The number of a push or receipt that no relay has goes with its process.
LostWith(m) == IF m.kind # "text" /\ m \notin relay THEN {m.seq} ELSE {}

\* Back in the command: resend_pending_for_contact goes on with the next row,
\* broadcast_presence may with its next payload, the others end.
AfterPost(x, o) ==
    IF cmd[x].again THEN {[cmd[x] EXCEPT !.pc = AfterResend(o)]}
    ELSE {IdleCmd} \cup (IF cmd[x].msg.kind = "aux" /\ auxes[At[x]] < MaxAux[At[x]]
                         THEN {[cmd[x] EXCEPT !.pc = "push", !.msg = NoBlob]} ELSE {})

\* deliver_encrypted: a direct POST or one to the relay URLs; the last one's answer.
CommandPost(x) ==
    /\ cmd[x].pc = "post"
    /\ \E o \in CommandPosts : \E c \in AfterPost(x, o) :
         /\ relay' = IF o = "fail" THEN relay ELSE relay \cup {cmd[x].msg}
         /\ dropped' = [dropped EXCEPT ![At[x]] =
                          IF o = "fail" THEN @ \cup LostWith(cmd[x].msg) ELSE @]
         /\ cmd' = [cmd EXCEPT ![x] = c]
    /\ UNCHANGED <<store, expired, fetch, counts, texts, delivered, acked>>

\* deliver_encrypted: a relay stored the blob, its answer was lost, and the next
\* URL is tried.
CommandFailover(x) ==
    /\ cmd[x].pc = "post"
    /\ "lost" \in CommandPosts
    /\ relay' = relay \cup {cmd[x].msg}
    /\ UNCHANGED <<store, expired, fetch, cmd, counts, history>>

-----------------------------------------------------------------------------
(* yakr resend *)

\* The rows whose valid_until is still to come: what sweep_expired_outbound leaves
\* and list_outbound_pending lists.
Pending(x) == outbound_pending[At[x]] \ expired

\* resend_pending_for_contact: load the contact, list the pending rows.
ResendLoad(x) ==
    /\ Free(x) /\ Typing(x)
    /\ Pending(x) # {}
    /\ cmd' = [cmd EXCEPT ![x] = [IdleCmd EXCEPT
                 !.pc = "resend", !.mem = contact[At[x]], !.again = TRUE,
                 !.todo = Pending(x)]]
    /\ UNCHANGED <<store, network, fetch, crashes, auxes, history>>

NextInOrder(x, m) == m \in cmd[x].todo /\ \A n \in cmd[x].todo : m.seq <= n.seq

\* load_outbound_outer finds the stored ciphertext of a row as long as the row is there.
HasOuter(x, m) == m \in outbound_pending[At[x]]

\* The next listed row, by seq: its stored ciphertext is posted again.
ResendNext(x) ==
    /\ cmd[x].pc = "resend"
    /\ \E m \in cmd[x].todo :
         /\ NextInOrder(x, m) /\ HasOuter(x, m)
         /\ cmd' = [cmd EXCEPT ![x].pc = "post", ![x].msg = m, ![x].todo = @ \ {m}]
    /\ UNCHANGED <<store, network, fetch, counts, history>>

\* The row was deleted since it was listed: the body is encrypted anew, with
\* next_send_seq set back to the row's seq.
ResendAnew(x) ==
    /\ cmd[x].pc = "resend"
    /\ texts[At[x]] < MaxTexts[At[x]]
    /\ \E m \in cmd[x].todo :
         LET mem == Taken([cmd[x].mem EXCEPT !.next_send_seq = m.seq])
             new == Text(At[x], m.seq, texts[At[x]] + 1)
         IN  /\ NextInOrder(x, m) /\ ~HasOuter(x, m)
             /\ contact' = [contact EXCEPT ![At[x]] = mem]
             /\ outbound_pending' = [outbound_pending EXCEPT ![At[x]] = @ \cup {new}]
             /\ cmd' = [cmd EXCEPT ![x].pc = "post", ![x].msg = new, ![x].mem = mem,
                                   ![x].todo = @ \ {m}]
    /\ texts' = [texts EXCEPT ![At[x]] = @ + 1]
    /\ UNCHANGED <<pending_receipts, inbound, network, fetch, counts, delivered, acked, dropped>>

\* mark_outbound_delivered after a POST that answered 201.
ResendMark(x) ==
    /\ cmd[x].pc = "mark"
    /\ outbound_pending' = [outbound_pending EXCEPT ![At[x]] = @ \ {cmd[x].msg}]
    /\ cmd' = [cmd EXCEPT ![x].pc = "resend", ![x].msg = NoBlob]
    /\ UNCHANGED <<contact, pending_receipts, inbound, network, fetch, counts, history>>

ResendEnd(x) ==
    /\ cmd[x].pc = "resend"
    /\ cmd[x].todo = {}
    /\ cmd' = [cmd EXCEPT ![x] = IdleCmd]
    /\ UNCHANGED <<store, network, fetch, counts, history>>

-----------------------------------------------------------------------------
(* yakr fetch and yakr receipts flush *)

Unexpired(x) == {r \in inbound[At[x]] : Text(Other(At[x]), r.seq, r.id) \notin expired}

\* list_pending_receipts.
Queued(x) == pending_receipts[At[x]]

\* fetch_cmd: sweep_expired_messages and sweep_expired_outbound, take the lock of
\* its own store object, load the contact, then list the queued receipts.
FetchBegin(x) ==
    /\ Free(x) /\ Typing(x)
    /\ fetch' = [fetch EXCEPT ![x] = [IdleFetch EXCEPT
                   !.pc = "flush", !.mem = contact[At[x]], !.todo = Queued(x),
                   !.back = "collect", !.tags = FurtherTags]]
    /\ inbound' = [inbound EXCEPT ![At[x]] = Unexpired(x)]
    /\ outbound_pending' = [outbound_pending EXCEPT ![At[x]] = Pending(x)]
    /\ UNCHANGED <<contact, pending_receipts, network, cmd, crashes, auxes, history>>

\* receipts_flush: list the queued receipts; no contact is held.
FlushCommand(x) ==
    /\ Free(x) /\ Typing(x)
    /\ Queued(x) # {}
    /\ fetch' = [fetch EXCEPT ![x] = [IdleFetch EXCEPT
                   !.pc = "flush", !.todo = Queued(x), !.back = "idle"]]
    /\ UNCHANGED <<store, network, cmd, crashes, auxes, history>>

\* flush_pending_receipts: send_delivery_receipt for the next listed one.
FlushNext(x) ==
    /\ fetch[x].pc = "flush"
    /\ \E d \in fetch[x].todo :
         fetch' = [fetch EXCEPT ![x].pc = "rload", ![x].rid = d, ![x].todo = @ \ {d}]
    /\ UNCHANGED <<store, network, cmd, counts, history>>

FlushEnd(x) ==
    /\ fetch[x].pc = "flush"
    /\ fetch[x].todo = {}
    /\ fetch' = [fetch EXCEPT ![x] = IF @.back = "idle" THEN IdleFetch
                                     ELSE [@ EXCEPT !.pc = "collect"]]
    /\ UNCHANGED <<store, network, cmd, counts, history>>

\* send_delivery_receipt: its own copy of the contact.
ReceiptLoad(x) ==
    /\ fetch[x].pc = "rload"
    /\ fetch' = [fetch EXCEPT ![x].pc = "rsave", ![x].rmem = contact[At[x]]]
    /\ UNCHANGED <<store, network, cmd, counts, history>>

\* encrypt_receipt, the ratchet restored, atomic_persist_contact.
ReceiptSave(x) ==
    /\ fetch[x].pc = "rsave"
    /\ fetch[x].rmem.next_send_seq < MaxSeq
    /\ contact' = [contact EXCEPT ![At[x]] = Taken(fetch[x].rmem)]
    /\ fetch' = [fetch EXCEPT ![x].pc = "rpost", ![x].rmem = Taken(@)]
    /\ UNCHANGED <<outbound_pending, pending_receipts, inbound, network, cmd,
                   counts, history>>

\* deliver_encrypted refreshes a stale profile and stores the contact it holds.
ReceiptRefresh(x) ==
    /\ fetch[x].pc = "rpost"
    /\ contact' = [contact EXCEPT ![At[x]] = fetch[x].rmem]
    /\ UNCHANGED <<outbound_pending, pending_receipts, inbound, network, fetch, cmd,
                   counts, history>>

\* Only a POST that answered 201 counts as delivered.
AfterReceiptPost(o) == IF o = "ok" THEN "rdone" ELSE "rundo"

ReceiptOf(x) == Receipt(At[x], fetch[x].rmem.next_send_seq - 1, fetch[x].rid)

\* The receipt's POST.  A retry is a new blob with a new TTL.
ReceiptPost(x) ==
    LET r == ReceiptOf(x) IN
    /\ fetch[x].pc = "rpost"
    /\ \E o \in ReceiptPosts :
         /\ relay' = IF o = "fail" THEN relay ELSE relay \cup {r}
         /\ expired' = IF o = "fail" THEN expired ELSE expired \ {r}
         /\ fetch' = [fetch EXCEPT ![x].pc = AfterReceiptPost(o)]
    /\ UNCHANGED <<store, cmd, counts, history>>

\* A relay stored the receipt, its answer was lost, and the next URL is tried.
ReceiptFailover(x) ==
    /\ fetch[x].pc = "rpost"
    /\ "lost" \in ReceiptPosts
    /\ relay' = relay \cup {ReceiptOf(x)}
    /\ expired' = expired \ {ReceiptOf(x)}
    /\ UNCHANGED <<store, fetch, cmd, counts, history>>

\* Back from send_delivery_receipt, to the flush or to the drain loop.
Returned(f) == [f EXCEPT !.pc = IF f.back = "merge" THEN "merge" ELSE "flush",
                         !.rid = 0, !.rmem = FreshContact]

\* Success: delete_pending_receipt.
ReceiptDone(x) ==
    /\ fetch[x].pc = "rdone"
    /\ pending_receipts' = [pending_receipts EXCEPT ![At[x]] = @ \ {fetch[x].rid}]
    /\ fetch' = [fetch EXCEPT ![x] = Returned(@)]
    /\ UNCHANGED <<contact, outbound_pending, inbound, network, cmd, counts, history>>

\* Failure: next_send_seq is set back and the contact stored.
ReceiptUndo(x) ==
    /\ fetch[x].pc = "rundo"
    /\ contact' = [contact EXCEPT ![At[x]] = Untaken(fetch[x].rmem)]
    /\ fetch' = [fetch EXCEPT ![x].pc = "rqueue"]
    /\ UNCHANGED <<outbound_pending, pending_receipts, inbound, network, cmd,
                   counts, history>>

\* Failure: save_pending_receipt.
ReceiptQueue(x) ==
    /\ fetch[x].pc = "rqueue"
    /\ pending_receipts' = [pending_receipts EXCEPT ![At[x]] = @ \cup {fetch[x].rid}]
    /\ fetch' = [fetch EXCEPT ![x] = Returned(@)]
    /\ UNCHANGED <<contact, outbound_pending, inbound, network, cmd, counts, history>>

\* The polls of one mailbox tag: any part of what the relays hold.  Blobs at or
\* below last_recv_seq are left out, decrypt_outer refuses them all pass long.
Collect(x) ==
    LET held == {m \in relay \ expired :
                   m.from = Other(At[x]) /\ m.seq > fetch[x].mem.last_recv_seq}
    IN  /\ fetch[x].pc = "collect"
        /\ \E q \in SUBSET held :
             fetch' = [fetch EXCEPT ![x].pc = "drain", ![x].queue = q]
        /\ UNCHANGED <<store, network, cmd, counts, history>>

\* decrypt_outer: only the next sequence number of an unexpired message passes.
Acceptable(x) ==
    {m \in fetch[x].queue \ expired : m.seq = fetch[x].mem.last_recv_seq + 1}

\* The primary key of inbound_messages is (contact_name, seq).
IsNew(p, m) == \A r \in inbound[p] : r.seq # m.seq

\* atomic_commit_receive_text: contact, message row unless one has this seq
\* already, and queued receipt in one transaction.
AcceptText(x) ==
    /\ fetch[x].pc = "drain"
    /\ \E m \in Acceptable(x) :
         LET mem == Accepted(fetch[x].mem) IN
             /\ m.kind = "text"
             /\ contact' = [contact EXCEPT ![At[x]] = mem]
             /\ inbound' = IF IsNew(At[x], m)
                  THEN [inbound EXCEPT ![At[x]] = @ \cup {[seq |-> m.seq, id |-> m.id]}]
                  ELSE inbound
             /\ delivered' = IF IsNew(At[x], m)
                  THEN [delivered EXCEPT ![At[x]] = Append(@, m.id)]
                  ELSE delivered
             /\ pending_receipts' = [pending_receipts EXCEPT ![At[x]] = @ \cup {m.id}]
             /\ fetch' = [fetch EXCEPT ![x].pc = "rload", ![x].rid = m.id,
                            ![x].back = "merge", ![x].mem = mem, ![x].queue = @ \ {m}]
    /\ UNCHANGED <<outbound_pending, network, cmd, counts, texts, acked, dropped>>

\* apply_inbound_delivery_receipt deletes the row it names, if there is one.
AcceptReceipt(x) ==
    /\ fetch[x].pc = "drain"
    /\ \E m \in Acceptable(x) :
             /\ m.kind = "receipt"
             /\ outbound_pending' = [outbound_pending EXCEPT
                                       ![At[x]] = {t \in @ : t.id # m.id}]
             /\ acked' = [acked EXCEPT ![At[x]] = @ \cup {m.id}]
             /\ fetch' = [fetch EXCEPT ![x].pc = "save", ![x].mem = Accepted(@),
                                       ![x].queue = @ \ {m}]
    /\ UNCHANGED <<contact, pending_receipts, inbound, network, cmd, counts, texts,
                   delivered, dropped>>

\* The contact is saved after an accepted presence; if it is refused the loop goes
\* on with last_recv_seq advanced in memory only.
AcceptAux(x) ==
    /\ fetch[x].pc = "drain"
    /\ \E m \in Acceptable(x), pc \in {"save", "drain"} :
         /\ m.kind = "aux"
         /\ fetch' = [fetch EXCEPT ![x].pc = pc, ![x].mem = Accepted(@),
                                   ![x].queue = @ \ {m}]
    /\ UNCHANGED <<store, network, cmd, counts, history>>

\* _refresh_contact_send_state after the receipt of an accepted text.
Merge(x) ==
    /\ fetch[x].pc = "merge"
    /\ fetch' = [fetch EXCEPT ![x].pc = "save",
                   ![x].mem.next_send_seq = contact[At[x]].next_send_seq]
    /\ UNCHANGED <<store, network, cmd, counts, history>>

\* save_contact: the fetch loop's copy replaces the stored contact.
Save(x) ==
    /\ fetch[x].pc = "save"
    /\ contact' = [contact EXCEPT ![At[x]] = fetch[x].mem]
    /\ fetch' = [fetch EXCEPT ![x].pc = "drain"]
    /\ UNCHANGED <<outbound_pending, pending_receipts, inbound, network, cmd,
                   counts, history>>

\* A pass without progress ends the drain: on to the next mailbox tag.
NextTag(x) ==
    /\ fetch[x].pc = "drain"
    /\ Acceptable(x) = {}
    /\ fetch[x].tags > 0
    /\ fetch' = [fetch EXCEPT ![x].pc = "collect", ![x].tags = @ - 1, ![x].queue = {}]
    /\ UNCHANGED <<store, network, cmd, counts, history>>

\* After the last tag the command ends.
FetchEnd(x) ==
    /\ fetch[x].pc = "drain"
    /\ Acceptable(x) = {}
    /\ fetch[x].tags = 0
    /\ fetch' = [fetch EXCEPT ![x] = IdleFetch]
    /\ UNCHANGED <<store, network, cmd, counts, history>>

-----------------------------------------------------------------------------
(* Faults and time *)

\* A process is killed; what it committed to SQLite stays.
KillFetch(x) ==
    /\ fetch[x].pc # "idle"
    /\ crashes < MaxCrashes
    /\ crashes' = crashes + 1
    /\ fetch' = [fetch EXCEPT ![x] = IdleFetch]
    /\ dropped' = [dropped EXCEPT ![At[x]] = IF fetch[x].pc \in {"rpost", "rundo"}
                                             THEN @ \cup LostWith(ReceiptOf(x)) ELSE @]
    /\ UNCHANGED <<store, network, cmd, typed, auxes, texts, delivered, acked>>

KillCommand(x) ==
    /\ cmd[x].pc # "idle"
    /\ crashes < MaxCrashes
    /\ crashes' = crashes + 1
    /\ cmd' = [cmd EXCEPT ![x] = IdleCmd]
    /\ dropped' = [dropped EXCEPT ![At[x]] = IF cmd[x].pc = "post"
                                             THEN @ \cup LostWith(cmd[x].msg) ELSE @]
    /\ UNCHANGED <<store, network, fetch, typed, auxes, texts, delivered, acked>>

\* A message reaches its valid_until; texts of one sender do so in send order.
Expire ==
    /\ Cardinality(expired) < MaxExpired
    /\ \E m \in (relay \cup UNION {outbound_pending[p] : p \in Peer}) \ expired :
         /\ m.kind = "text" =>
              \A t \in outbound_pending[m.from] \cup relay :
                 (t.kind = "text" /\ t.from = m.from /\ t.id < m.id) => t \in expired
         /\ expired' = expired \cup {m}
    /\ UNCHANGED <<store, relay, fetch, cmd, counts, history>>

-----------------------------------------------------------------------------
Command(x) ==
    \/ SendLoad(x) \/ SendCommit(x) \/ PushLoad(x) \/ PushCommit(x)
    \/ CommandRefresh(x) \/ CommandPost(x) \/ CommandFailover(x)
    \/ ResendLoad(x) \/ ResendNext(x) \/ ResendAnew(x) \/ ResendMark(x) \/ ResendEnd(x)

SendReceipt(x) ==
    \/ ReceiptLoad(x) \/ ReceiptSave(x) \/ ReceiptRefresh(x) \/ ReceiptPost(x)
    \/ ReceiptFailover(x) \/ ReceiptDone(x) \/ ReceiptUndo(x) \/ ReceiptQueue(x)

Fetch(x) ==
    \/ FetchBegin(x) \/ FlushCommand(x) \/ FlushNext(x) \/ FlushEnd(x)
    \/ SendReceipt(x)
    \/ Collect(x) \/ AcceptText(x) \/ AcceptReceipt(x) \/ AcceptAux(x)
    \/ Merge(x) \/ Save(x) \/ NextTag(x) \/ FetchEnd(x)

Next ==
    \/ \E x \in Terminal : Command(x) \/ Fetch(x) \/ KillFetch(x) \/ KillCommand(x)
    \/ Expire

Spec == Init /\ [][Next]_vars

(***************************************************************************)
(* Fairness of every terminal.  A started process runs on unless it is     *)
(* killed; users, or the polling loop of a client, fetch and resend again  *)
(* and again; a POST or a poll that is tried again and again succeeds at   *)
(* some time.                                                              *)
(***************************************************************************)
CollectAll(x) ==
    /\ Collect(x)
    /\ \A m \in relay \ expired :
         m.from = Other(At[x]) /\ m.seq > fetch[x].mem.last_recv_seq => m \in fetch'[x].queue

Proceed(x) ==
    \/ SendCommit(x) \/ PushCommit(x) \/ CommandPost(x)
    \/ ResendNext(x) \/ ResendAnew(x) \/ ResendMark(x) \/ ResendEnd(x)

ProceedFetch(x) ==
    \/ FlushNext(x) \/ FlushEnd(x)
    \/ ReceiptLoad(x) \/ ReceiptSave(x) \/ ReceiptPost(x) \/ ReceiptDone(x)
    \/ ReceiptUndo(x) \/ ReceiptQueue(x)
    \/ Collect(x) \/ AcceptText(x) \/ AcceptReceipt(x) \/ AcceptAux(x)
    \/ Merge(x) \/ Save(x) \/ NextTag(x) \/ FetchEnd(x)

Fairness ==
    \A x \in Terminal :
        /\ WF_vars(Proceed(x)) /\ WF_vars(ProceedFetch(x))
        /\ SF_vars(FetchBegin(x)) /\ SF_vars(ResendLoad(x))
        /\ SF_vars(CollectAll(x))
        /\ SF_vars(CommandPost(x) /\ relay' # relay)

FairSpec == Spec /\ Fairness

-----------------------------------------------------------------------------
(* Properties *)

\* Every variable keeps its type; counters and process states of both peers.
TypeOK ==
    /\ contact \in [Peer -> Contact]
    /\ outbound_pending \in [Peer -> SUBSET Blob]
    /\ pending_receipts \in [Peer -> SUBSET Nat]
    /\ inbound \in [Peer -> SUBSET Row]
    /\ relay \subseteq Blob /\ expired \subseteq Blob
    /\ fetch \in [Terminal -> FetchProcess]
    /\ cmd \in [Terminal -> CommandProcess]
    /\ typed \in [DOMAIN MaxTyped -> Nat]
    /\ crashes \in Nat /\ auxes \in [Peer -> Nat]
    /\ texts \in [Peer -> Nat]
    /\ delivered \in [Peer -> Seq(Nat)]
    /\ acked \in [Peer -> SUBSET Nat]
    /\ dropped \in [Peer -> SUBSET Nat]

\* A receipt for text n of the other peer has been stored by some relay.
Receipted(p, n) == \E m \in relay : m.kind = "receipt" /\ m.from = p /\ m.id = n

\* No stored text is left without its receipt: whatever is killed, fails or runs
\* concurrently, the receipt of every row of inbound_messages is either queued
\* in pending_receipts or has reached a relay (atomic_commit_receive_text
\* queues it with the row, send_delivery_receipt unqueues it after the POST).
ReceiptNeverLost ==
    \A p \in Peer : \A r \in inbound[p] :
        r.id \in pending_receipts[p] \/ Receipted(p, r.id)

\* No text is stored twice, though two fetches work through the same blobs and a
\* stale save sets last_recv_seq back so that they are accepted again: the row
\* of inbound_messages has the text's number until the text itself has expired.
ReadOnce ==
    \A p \in Peer : \A i, j \in 1 .. Len(delivered[p]) :
        delivered[p][i] = delivered[p][j] => i = j

\* Row n was written to p's inbound_messages at some time.
Stored(p, n) == \E i \in 1 .. Len(delivered[p]) : delivered[p][i] = n

\* A text a receipt acknowledges was written to the peer's inbound_messages: no
\* pending row is cleared for a body atomic_commit_receive_text did not store.
\* It takes one process at a time: a number that is used twice, and a receiver
\* whose last_recv_seq a concurrent save set back, drop a body and queue its
\* receipt (INSERT OR IGNORE in atomic_commit_receive_text).
AckedWasStored == \A p \in Peer : \A n \in acked[p] : Stored(Other(p), n)

\* The delivery core of two clients that run one process at a time is a channel
\* that neither reorders nor duplicates a text, and acknowledges no text that
\* was not delivered.
Channel == INSTANCE TextChannel
             WITH Alice <- Alice, Bob <- Bob,
                  texts <- texts, delivered <- delivered, acked <- acked
ImplementsChannel == Channel!Spec

\* The sender is ahead of the receiver: next_send_seq is beyond every sequence
\* number the peer has consumed, so the next message is not taken for a
\* duplicate by decrypt_outer.
SenderAhead ==
    \A p \in Peer : contact[p].next_send_seq > contact[Other(p)].last_recv_seq

\* Two different blobs that reached a relay never share a sequence number.
DistinctSeqs ==
    \A m, x \in relay : m.from = x.from /\ m.seq = x.seq => m = x

\* Carried for p: on a relay, retained for resend, or in the hands of a process.
Reachable(p) ==
    LET Own == {x \in Terminal : At[x] = p}
    IN  {m \in relay : m.from = p} \cup outbound_pending[p]
          \cup {cmd[x].msg : x \in {y \in Own : cmd[y].pc = "post"}}
          \cup {ReceiptOf(x) : x \in {y \in Own : fetch[y].pc \in {"rpost", "rundo"}}}

\* A number that some message of p has, or had when it was given up or expired.
Accounted(p, s) ==
    \/ s \in dropped[p]
    \/ \E m \in Reachable(p) \cup expired : m.from = p /\ m.seq = s

\* No hole: when a peer has used the sequence number its contact waits for, and
\* accepts no other before, some message with that number can still reach the
\* contact, unless it expired, was a push that was refused, or belonged to a
\* process that was killed.  No save of an old copy, receipt that gives its
\* number back or row that a resend clears takes a number and leaves it empty.
NoSequenceHole ==
    \A p \in Peer :
        LET wanted == contact[Other(p)].last_recv_seq + 1
        IN  contact[p].next_send_seq > wanted => Accounted(p, wanted)

\* Every committed text ends up in the peer's inbound_messages, or expires:
\* resending and polling make up for every lost POST.
TextsArrive ==
    \A p \in Peer : \A n \in 1 .. MaxTexts[p] :
        texts[p] >= n ~> \/ Stored(Other(p), n)
                         \/ \E m \in expired : m.kind = "text" /\ m.from = p /\ m.id = n

\* Every stored text is acknowledged: its receipt is accepted by its sender.
ReceiptsArrive ==
    \A p \in Peer : \A n \in 1 .. MaxTexts[p] :
        Stored(Other(p), n) ~> n \in acked[p]
=============================================================================
