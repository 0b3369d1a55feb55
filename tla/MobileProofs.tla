---------------------------- MODULE MobileProofs ----------------------------
(***************************************************************************)
(* Theorems about Mobile, for any number of threads, messages and kills.   *)
(***************************************************************************)
EXTENDS Mobile, TLAPS

-----------------------------------------------------------------------------
(* Type correctness *)

\* A receipt that is being posted has taken a number.
ReceiptTookSeq ==
    \A t \in Thread : thread[t].pc \in {"rpost", "rundo"} => thread[t].rmem.next_send_seq # 0

TypeInv == TypeOK /\ ReceiptTookSeq

LEMMA ContactFacts ==
    ASSUME NEW c \in Contact
    PROVE  /\ c.next_send_seq \in Nat /\ c.last_recv_seq \in Nat
           /\ Taken(c) \in Contact /\ Taken(c).next_send_seq # 0
           /\ Taken(c).last_recv_seq = c.last_recv_seq
           /\ c.next_send_seq # 0 => Untaken(c) \in Contact
           /\ Untaken(c).last_recv_seq = c.last_recv_seq
BY DEF Contact, Taken, Untaken

LEMMA AcceptedFacts ==
    ASSUME NEW c \in Contact, NEW m \in Blob
    PROVE  Accepted(c, m) \in Contact /\ Accepted(c, m).last_recv_seq = m.seq
BY DEF Contact, Accepted, Blob, BlobsOf

LEMMA Constants ==
    /\ NoContact \in Contact /\ Paired \in Contact /\ NoBlob \in BlobsOf({Mobile})
    /\ Idle \in Process
<1>1. NoContact \in Contact /\ Paired \in Contact
    BY DEF NoContact, Paired, Contact
<1>2. NoBlob \in BlobsOf({Mobile})
    BY DEF NoBlob, BlobsOf
<1> QED BY <1>1, <1>2 DEF Idle, Process, PC, Back

LEMMA ProcessFacts ==
    ASSUME TypeOK, NEW t \in Thread
    PROVE  /\ thread[t] \in Process
           /\ thread[t].mem \in Contact /\ thread[t].rmem \in Contact
           /\ thread[t].msg \in BlobsOf({Mobile}) /\ thread[t].queue \subseteq Blob
           /\ thread[t].rid \in Nat
           /\ thread[t].back \in Back /\ thread[t].pc \in PC
BY DEF TypeOK, Process

LEMMA LoadedType == TypeOK => Loaded \in Contact
BY DEF TypeOK, Loaded

\* What a thread's step to a new place keeps.
LEMMA GoesTyped ==
    ASSUME TypeInv, NEW t \in Thread, NEW from, NEW p \in Process, Goes(t, from, p),
           p.pc \in {"rpost", "rundo"} => p.rmem.next_send_seq # 0
    PROVE  thread' \in [Thread -> Process] /\ ReceiptTookSeq'
<1>1. thread' = [thread EXCEPT ![t] = p]
    BY DEF Goes
<1>2. thread \in [Thread -> Process]
    BY DEF TypeInv, TypeOK
<1>3. \A u \in Thread : thread'[u] = IF u = t THEN p ELSE thread[u]
    BY <1>1, <1>2
<1> QED BY <1>1, <1>2, <1>3 DEF TypeInv, ReceiptTookSeq

LEMMA ClientTyped ==
    ASSUME TypeInv, NEW t \in Thread, Client(t)
    PROVE  TypeInv'
<1> USE DEF store, history
<1>0. TypeOK /\ ReceiptTookSeq
    BY DEF TypeInv
<1>a. /\ thread[t] \in Process
      /\ thread[t].mem \in Contact /\ thread[t].rmem \in Contact
      /\ thread[t].msg \in BlobsOf({Mobile}) /\ thread[t].queue \subseteq Blob
      /\ thread[t].rid \in Nat /\ thread[t].back \in Back
    BY <1>0, ProcessFacts
<1>b. Loaded \in Contact
    BY <1>0, LoadedType
<1>T. ASSUME NEW from, NEW q \in Process, Goes(t, from, q),
             q.pc \in {"rpost", "rundo"} => q.rmem.next_send_seq # 0
      PROVE  thread' \in [Thread -> Process] /\ ReceiptTookSeq'
    BY <1>T, GoesTyped
<1>1. CASE SaveRow(t)
    <2> DEFINE q == [thread[t] EXCEPT !.pc = "kv"]
    <2>1. q \in Process /\ q.pc = "kv"
        BY <1>a DEF Process, PC
    <2>2. thread' \in [Thread -> Process] /\ ReceiptTookSeq'
        BY <1>1, <2>1, <1>T DEF SaveRow
    <2> QED BY <1>0, <1>1, <1>a, <2>2 DEF SaveRow, TypeInv, TypeOK
<1>2. CASE SaveCopy(t)
    <2> DEFINE q == [thread[t] EXCEPT !.pc = thread[t].back, !.back = "idle"]
    <2>1. q \in Process /\ q.pc \in Back
        BY <1>a DEF Process, PC, Back
    <2>2. thread' \in [Thread -> Process] /\ ReceiptTookSeq'
        BY <1>2, <2>1, <1>T DEF SaveCopy, Back
    <2> QED BY <1>0, <1>2, <1>a, <2>2 DEF SaveCopy, TypeInv, TypeOK
<1>3. CASE Finish(t)
    <2> DEFINE q == [Idle EXCEPT !.pc = "row", !.back = "clear", !.mem = Paired]
    <2>1. q \in Process /\ q.pc = "row"
        BY Constants DEF Idle, Process, PC, Back
    <2>2. thread' \in [Thread -> Process] /\ ReceiptTookSeq'
        BY <1>3, <2>1, <1>T DEF Finish
    <2> QED BY <1>0, <1>3, <2>2 DEF Finish, TypeInv, TypeOK
<1>4. CASE FinishClear(t)
    <2>1. Idle \in Process /\ Idle.pc = "idle"
        BY Constants DEF Idle
    <2>2. thread' \in [Thread -> Process] /\ ReceiptTookSeq'
        BY <1>4, <2>1, <1>T DEF FinishClear
    <2> QED BY <1>0, <1>4, <2>2 DEF FinishClear, TypeInv, TypeOK
<1>5. CASE SendLoad(t)
    <2> DEFINE q == [Idle EXCEPT !.pc = "commit", !.mem = Loaded]
    <2>1. q \in Process /\ q.pc = "commit"
        BY Constants, <1>b DEF Idle, Process, PC
    <2>2. thread' \in [Thread -> Process] /\ ReceiptTookSeq'
        BY <1>5, <2>1, <1>T DEF SendLoad
    <2> QED BY <1>0, <1>5, <2>2 DEF SendLoad, TypeInv, TypeOK
<1>6. CASE SendCommit(t)
    <2> DEFINE m == [from |-> Mobile, kind |-> "text", seq |-> thread[t].mem.next_send_seq,
                     id |-> texts[Mobile] + 1]
               q == [thread[t] EXCEPT !.pc = "kv", !.back = "post",
                                      !.mem = Taken(thread[t].mem), !.msg = m]
    <2>1. /\ m \in BlobsOf({Mobile}) /\ m \in Blob
          /\ Taken(thread[t].mem) \in Contact
        BY <1>0, <1>a, ContactFacts DEF Blob, BlobsOf, End, TypeOK
    <2>2. q \in Process /\ q.pc = "kv"
        BY <1>a, <2>1 DEF Process, PC, Back
    <2>3. thread' \in [Thread -> Process] /\ ReceiptTookSeq'
        BY <1>6, <2>2, <1>T DEF SendCommit
    <2>4. texts' \in [End -> Nat]
        BY <1>0, <1>6 DEF SendCommit, TypeOK, End
    <2> QED BY <1>0, <1>6, <2>1, <2>3, <2>4 DEF SendCommit, TypeInv, TypeOK
<1>7. CASE SendPost(t)
    <2>1. Idle \in Process /\ Idle.pc = "idle"
        BY Constants DEF Idle
    <2>2. thread' \in [Thread -> Process] /\ ReceiptTookSeq'
        BY <1>7, <2>1, <1>T DEF SendPost
    <2>3. thread[t].msg \in Blob
        BY <1>a DEF Blob, BlobsOf, End
    <2>4. relay' \subseteq Blob
        BY <1>0, <1>7, <2>3 DEF SendPost, TypeOK
    <2> QED BY <1>0, <1>7, <2>2, <2>4 DEF SendPost, TypeInv, TypeOK
<1>8. CASE FetchBegin(t)
    <2> DEFINE q == [Idle EXCEPT !.pc = "poll", !.mem = Loaded]
    <2>1. q \in Process /\ q.pc = "poll"
        BY Constants, <1>b DEF Idle, Process, PC
    <2>2. thread' \in [Thread -> Process] /\ ReceiptTookSeq'
        BY <1>8, <2>1, <1>T DEF FetchBegin
    <2> QED BY <1>0, <1>8, <2>2 DEF FetchBegin, TypeInv, TypeOK
<1>21. CASE Collect(t)
    <2>1. PICK w \in SUBSET {m \in relay : m.from = Peer /\ m.seq > thread[t].mem.last_recv_seq} :
             Goes(t, "poll", [thread[t] EXCEPT !.pc = "drain", !.queue = w])
        BY <1>21 DEF Collect
    <2> DEFINE q == [thread[t] EXCEPT !.pc = "drain", !.queue = w]
    <2>2. w \subseteq Blob
        BY <1>0 DEF TypeOK
    <2>3. q \in Process /\ q.pc = "drain"
        BY <1>a, <2>2 DEF Process, PC
    <2>4. thread' \in [Thread -> Process] /\ ReceiptTookSeq'
        BY <2>1, <2>3, <1>T
    <2> QED BY <1>0, <1>21, <2>4 DEF Collect, TypeInv, TypeOK
<1>22. CASE NextTag(t)
    <2> DEFINE q == [thread[t] EXCEPT !.pc = "poll", !.queue = {}]
    <2>1. q \in Process /\ q.pc = "poll"
        BY <1>a DEF Process, PC
    <2>2. thread' \in [Thread -> Process] /\ ReceiptTookSeq'
        BY <1>22, <2>1, <1>T DEF NextTag
    <2> QED BY <1>0, <1>22, <2>2 DEF NextTag, TypeInv, TypeOK
<1>9. CASE AcceptText(t)
    <2>1. PICK m \in Acceptable(t) :
            LET mem == Accepted(thread[t].mem, m) IN
            /\ m.kind = "text"
            /\ Goes(t, "drain", [thread[t] EXCEPT !.pc = "kv", !.back = "rload", !.mem = mem,
                                                  !.rid = m.id, !.queue = @ \ {m}])
            /\ row' = mem
            /\ pending_receipts' = pending_receipts \cup {m.id}
            /\ IF IsNew(m)
               THEN /\ inbound' = inbound \cup {[seq |-> m.seq, id |-> m.id]}
                    /\ delivered' = Append(delivered, m.id)
               ELSE UNCHANGED <<inbound, delivered>>
            /\ UNCHANGED <<kv, pending_pairing, outbound_pending, relay, peer_seq, kills,
                           texts>>
        BY <1>9 DEF AcceptText
    <2> DEFINE q == [thread[t] EXCEPT !.pc = "kv", !.back = "rload",
                       !.mem = Accepted(thread[t].mem, m), !.rid = m.id, !.queue = @ \ {m}]
    <2>2. m \in Blob /\ m.id \in Nat /\ m.seq \in Nat
        BY <1>a DEF Acceptable, Blob, BlobsOf
    <2>3. Accepted(thread[t].mem, m) \in Contact
        BY <1>a, <2>2, AcceptedFacts
    <2>4. q \in Process /\ q.pc = "kv"
        BY <1>a, <2>2, <2>3 DEF Process, PC, Back
    <2>5. thread' \in [Thread -> Process] /\ ReceiptTookSeq'
        BY <2>1, <2>4, <1>T
    <2>6. inbound' \subseteq Row /\ delivered' \in Seq(Nat)
        <3>1. [seq |-> m.seq, id |-> m.id] \in Row
            BY <2>2 DEF Row
        <3>2. Append(delivered, m.id) \in Seq(Nat)
            BY <1>0, <2>2 DEF TypeOK
        <3>3. inbound \subseteq Row /\ delivered \in Seq(Nat)
            BY <1>0 DEF TypeOK
        <3>4. CASE IsNew(m)
            BY <2>1, <3>1, <3>2, <3>3, <3>4
        <3>5. CASE ~IsNew(m)
            BY <2>1, <3>3, <3>5
        <3> QED BY <3>4, <3>5
    <2> QED BY <1>0, <2>1, <2>2, <2>3, <2>5, <2>6 DEF TypeInv, TypeOK
<1>10. CASE AcceptSaved(t)
    <2>1. PICK m \in Acceptable(t) :
            /\ Goes(t, "drain", [thread[t] EXCEPT !.pc = "row", !.back = "drain",
                                   !.mem = Accepted(@, m), !.queue = @ \ {m}])
            /\ outbound_pending' \subseteq outbound_pending
            /\ UNCHANGED <<row, kv, pending_pairing, inbound, pending_receipts, relay,
                           peer_seq, kills, history>>
        BY <1>10 DEF AcceptSaved
    <2> DEFINE q == [thread[t] EXCEPT !.pc = "row", !.back = "drain",
                       !.mem = Accepted(@, m), !.queue = @ \ {m}]
    <2>2. m \in Blob
        BY <1>a DEF Acceptable
    <2>3. Accepted(thread[t].mem, m) \in Contact
        BY <1>a, <2>2, AcceptedFacts
    <2>4. q \in Process /\ q.pc = "row"
        BY <1>a, <2>3 DEF Process, PC, Back
    <2>5. thread' \in [Thread -> Process] /\ ReceiptTookSeq'
        BY <2>1, <2>4, <1>T
    <2> QED BY <1>0, <2>1, <2>5 DEF TypeInv, TypeOK
<1>11. CASE AcceptPresence(t)
    <2>1. PICK m \in Acceptable(t) :
            Goes(t, "drain", [thread[t] EXCEPT !.mem = Accepted(@, m), !.queue = @ \ {m}])
        BY <1>11 DEF AcceptPresence
    <2> DEFINE q == [thread[t] EXCEPT !.mem = Accepted(@, m), !.queue = @ \ {m}]
    <2>2. m \in Blob
        BY <1>a DEF Acceptable
    <2>3. Accepted(thread[t].mem, m) \in Contact
        BY <1>a, <2>2, AcceptedFacts
    <2>4. q \in Process /\ q.pc = "drain"
        BY <1>a, <2>1, <2>3 DEF Process, PC, Goes
    <2>5. thread' \in [Thread -> Process] /\ ReceiptTookSeq'
        BY <2>1, <2>4, <1>T
    <2> QED BY <1>0, <1>11, <2>5 DEF AcceptPresence, TypeInv, TypeOK
<1>12. CASE Merge(t)
    <2> DEFINE q == [thread[t] EXCEPT !.pc = "row", !.back = "drain", !.rid = 0,
                       !.rmem = NoContact, !.mem.next_send_seq = Loaded.next_send_seq]
    <2>1. q \in Process /\ q.pc = "row"
        BY Constants, <1>a, <1>b DEF Process, PC, Back, Contact
    <2>2. thread' \in [Thread -> Process] /\ ReceiptTookSeq'
        BY <1>12, <2>1, <1>T DEF Merge
    <2> QED BY <1>0, <1>12, <2>2 DEF Merge, TypeInv, TypeOK
<1>13. CASE FetchEnd(t)
    <2>1. Idle \in Process /\ Idle.pc = "idle"
        BY Constants DEF Idle
    <2>2. thread' \in [Thread -> Process] /\ ReceiptTookSeq'
        BY <1>13, <2>1, <1>T DEF FetchEnd
    <2> QED BY <1>0, <1>13, <2>2 DEF FetchEnd, TypeInv, TypeOK
<1>14. CASE ReceiptLoad(t)
    <2> DEFINE q == [thread[t] EXCEPT !.pc = "rsave", !.rmem = row]
    <2>1. q \in Process /\ q.pc = "rsave"
        BY <1>0, <1>a DEF Process, PC, TypeOK
    <2>2. thread' \in [Thread -> Process] /\ ReceiptTookSeq'
        BY <1>14, <2>1, <1>T DEF ReceiptLoad
    <2> QED BY <1>0, <1>14, <2>2 DEF ReceiptLoad, TypeInv, TypeOK
<1>15. CASE ReceiptSave(t)
    <2> DEFINE c == Taken(thread[t].rmem)
               q == [thread[t] EXCEPT !.pc = "rpost", !.rmem = c]
    <2>1. c \in Contact /\ c.next_send_seq # 0
        BY <1>a, ContactFacts
    <2>2. q \in Process /\ q.rmem = c
        BY <1>a, <2>1 DEF Process, PC
    <2>3. thread' \in [Thread -> Process] /\ ReceiptTookSeq'
        BY <1>15, <2>1, <2>2, <1>T DEF ReceiptSave, ReceiptPersist
    <2> QED BY <1>0, <1>15, <2>1, <2>3 DEF ReceiptSave, ReceiptPersist, TypeInv, TypeOK
<1>16. CASE ReceiptUndo(t)
    <2> DEFINE c == Untaken(thread[t].rmem)
               q == [thread[t] EXCEPT !.pc = "rqueue", !.rmem = c]
    <2>1. thread[t].rmem.next_send_seq # 0
        BY <1>0, <1>16 DEF ReceiptUndo, ReceiptPersist, Goes, ReceiptTookSeq
    <2>2. c \in Contact
        BY <1>a, <2>1, ContactFacts
    <2>3. q \in Process /\ q.pc = "rqueue"
        BY <1>a, <2>2 DEF Process, PC
    <2>4. thread' \in [Thread -> Process] /\ ReceiptTookSeq'
        BY <1>16, <2>3, <1>T DEF ReceiptUndo, ReceiptPersist
    <2> QED BY <1>0, <1>16, <2>2, <2>4 DEF ReceiptUndo, ReceiptPersist, TypeInv, TypeOK
<1>17. CASE ReceiptPost(t)
    <2> DEFINE r == [from |-> Mobile, kind |-> "receipt", id |-> thread[t].rid,
                     seq |-> thread[t].rmem.next_send_seq - 1]
    <2>1. PICK o \in Posts :
            /\ Goes(t, "rpost", [thread[t] EXCEPT !.pc = AfterReceiptPost(o)])
            /\ relay' = IF o = "fail" THEN relay ELSE relay \cup {r}
        BY <1>17 DEF ReceiptPost
    <2> DEFINE q == [thread[t] EXCEPT !.pc = AfterReceiptPost(o)]
    <2>2. thread[t].rmem.next_send_seq # 0
        BY <1>0, <2>1 DEF Goes, ReceiptTookSeq
    <2>3. r \in Blob
        BY <1>a, <2>2 DEF Blob, BlobsOf, End, Contact
    <2>4. q \in Process /\ q.rmem = thread[t].rmem
        BY <1>a DEF Process, PC, AfterReceiptPost
    <2>5. thread' \in [Thread -> Process] /\ ReceiptTookSeq'
        BY <2>1, <2>2, <2>4, <1>T
    <2>6. relay' \subseteq Blob
        BY <1>0, <2>1, <2>3 DEF TypeOK
    <2> QED BY <1>0, <1>17, <2>5, <2>6 DEF ReceiptPost, TypeInv, TypeOK
<1>18. CASE ReceiptEnd(t)
    <2>1. PICK from \in {"rdone", "rqueue"} :
             Goes(t, from, [thread[t] EXCEPT !.pc = "merge"])
        BY <1>18 DEF ReceiptEnd
    <2> DEFINE q == [thread[t] EXCEPT !.pc = "merge"]
    <2>2. q \in Process /\ q.pc = "merge"
        BY <1>a DEF Process, PC
    <2>3. thread' \in [Thread -> Process] /\ ReceiptTookSeq'
        BY <2>1, <2>2, <1>T
    <2> QED BY <1>0, <1>18, <1>a, <2>3 DEF ReceiptEnd, TypeInv, TypeOK
<1> QED BY <1>1, <1>2, <1>3, <1>4, <1>5, <1>6, <1>7, <1>8, <1>9, <1>10, <1>11, <1>12, <1>13,
           <1>14, <1>15, <1>16, <1>17, <1>18, <1>21, <1>22 DEF Client

LEMMA NextTyped == TypeInv /\ [Next]_vars => TypeInv'
<1> SUFFICES ASSUME TypeInv, [Next]_vars PROVE TypeInv'
    OBVIOUS
<1> USE DEF store, history
<1>0. TypeOK /\ ReceiptTookSeq
    BY DEF TypeInv
<1>1. ASSUME NEW t \in Thread, Client(t) PROVE TypeInv'
    BY <1>1, ClientTyped
<1>2. ASSUME NEW kind \in {"text", "receipt", "profile", "presence"}, NEW id \in Nat,
             PeerSends(kind, id)
      PROVE  relay' \subseteq Blob /\ peer_seq' \in Nat
    BY <1>0, <1>2 DEF PeerSends, TypeOK, Blob, BlobsOf, End
<1>3. CASE PeerText
    <2>1. PeerSends("text", texts[Peer] + 1) /\ texts[Peer] + 1 \in Nat
        BY <1>0, <1>3 DEF PeerText, TypeOK, End
    <2>2. texts' \in [End -> Nat]
        BY <1>0, <1>3 DEF PeerText, TypeOK, End
    <2> QED BY <1>0, <1>2, <2>1, <2>2 DEF PeerSends, TypeInv, TypeOK, ReceiptTookSeq
<1>4. CASE PeerPush
    <2>1. PICK kind \in Pushes : PeerSends(kind, 0)
        BY <1>4 DEF PeerPush
    <2>2. kind \in {"text", "receipt", "profile", "presence"}
        BY MobileAssumption
    <2> QED BY <1>0, <1>2, <1>4, <2>1, <2>2
            DEF PeerPush, PeerSends, TypeInv, TypeOK, ReceiptTookSeq
<1>5. CASE PeerReceipt
    <2>1. PICK m \in relay : PeerSends("receipt", m.id)
        BY <1>5 DEF PeerReceipt
    <2>2. m.id \in Nat
        BY <1>0 DEF TypeOK, Blob, BlobsOf
    <2> QED BY <1>0, <1>2, <1>5, <2>1, <2>2
            DEF PeerReceipt, PeerSends, TypeInv, TypeOK, ReceiptTookSeq
<1>6. CASE Kill
    <2>1. Idle \in Process /\ Idle.pc = "idle"
        BY Constants DEF Idle
    <2> QED BY <1>0, <1>6, <2>1 DEF Kill, TypeInv, TypeOK, ReceiptTookSeq
<1>7. CASE UNCHANGED vars
    BY <1>0, <1>7 DEF vars, TypeInv, TypeOK, ReceiptTookSeq
<1> QED BY <1>1, <1>3, <1>4, <1>5, <1>6, <1>7 DEF Next

LEMMA InitTyped == Init => TypeInv
BY Constants DEF Init, TypeInv, TypeOK, ReceiptTookSeq, Idle

\* Every part of the client's state keeps its type; next_send_seq does not fall
\* below its start when receipts are undone (send_delivery_receipt).
THEOREM TypeCorrect == Spec => []TypeOK
<1>1. TypeInv => TypeOK
    BY DEF TypeInv
<1> QED BY InitTyped, NextTyped, <1>1, PTL DEF Spec
-----------------------------------------------------------------------------
(* Neither copy of the contact is past a text that is not stored *)

\* The peer numbers its messages one after another.
PeerNumbers ==
    /\ 0 < peer_seq
    /\ \A m \in relay : m.from = Peer => 0 < m.seq /\ m.seq < peer_seq
    /\ \A m, x \in relay : m.from = Peer /\ x.from = Peer /\ m.seq = x.seq => m = x

\* Every row is a text of the peer.
RowsAreTexts ==
    \A r \in inbound : \E m \in relay :
        m.from = Peer /\ m.kind = "text" /\ m.seq = r.seq /\ m.id = r.id

QueuesArePolled ==
    \A t \in Thread : thread[t].queue \subseteq {m \in relay : m.from = Peer}

\* A number up to which the peer's texts are stored, and behind its own.
Safe(n) == n < peer_seq /\ StoredUpTo(n)

\* No copy of the contact, in a database or in a thread, is past a missing text.
CopiesSafe ==
    /\ Safe(row.last_recv_seq) /\ Safe(kv.last_recv_seq)
    /\ \A t \in Thread : /\ Safe(thread[t].mem.last_recv_seq)
                         /\ Safe(thread[t].rmem.last_recv_seq)

StoredInv == PeerNumbers /\ RowsAreTexts /\ QueuesArePolled /\ CopiesSafe

\* n is safe after the step.
SafeNext(n) ==
    /\ n < peer_seq'
    /\ \A m \in relay' : m.from = Peer /\ m.kind = "text" /\ m.seq <= n =>
         \E r \in inbound' : r.seq = m.seq /\ r.id = m.id

\* What a thread's step to a new place keeps, if the peer sends nothing.
LEMMA SafeKept ==
    ASSUME TypeInv, StoredInv, NEW t \in Thread, NEW from, NEW p, Goes(t, from, p),
           UNCHANGED peer_seq, relay \subseteq relay', inbound \subseteq inbound',
           \A m \in relay' : m.from = Peer => m \in relay,
           RowsAreTexts',
           p.queue \subseteq {m \in relay : m.from = Peer},
           SafeNext(p.mem.last_recv_seq), SafeNext(p.rmem.last_recv_seq),
           SafeNext(row'.last_recv_seq), SafeNext(kv'.last_recv_seq)
    PROVE  StoredInv'
<1>1. \A u \in Thread : thread'[u] = IF u = t THEN p ELSE thread[u]
    BY DEF Goes, TypeInv, TypeOK
<1>2. \A n : Safe(n) \/ SafeNext(n) => Safe(n)'
    BY DEF Safe, SafeNext, StoredUpTo
<1>3. PeerNumbers'
    BY DEF StoredInv, PeerNumbers
<1>4. QueuesArePolled'
    BY <1>1 DEF StoredInv, QueuesArePolled
<1>5. CopiesSafe'
    BY <1>1, <1>2 DEF StoredInv, CopiesSafe
<1> QED BY <1>3, <1>4, <1>5 DEF StoredInv

\* The same, if nothing is written but the counters.
LEMMA SafeStep ==
    ASSUME TypeInv, StoredInv, NEW t \in Thread, NEW from, NEW p, Goes(t, from, p),
           UNCHANGED <<peer_seq, inbound>>, relay \subseteq relay',
           \A m \in relay' : m.from = Peer => m \in relay,
           p.queue \subseteq {m \in relay : m.from = Peer},
           Safe(p.mem.last_recv_seq), Safe(p.rmem.last_recv_seq),
           \/ row' = row \/ Safe(row'.last_recv_seq),
           \/ kv' = kv \/ Safe(kv'.last_recv_seq)
    PROVE  StoredInv'
<1>1. Safe(row'.last_recv_seq) /\ Safe(kv'.last_recv_seq)
    BY DEF StoredInv, CopiesSafe
<1>2. \A n : Safe(n) => SafeNext(n)
    BY DEF Safe, SafeNext, StoredUpTo
<1>3. RowsAreTexts'
    BY DEF StoredInv, RowsAreTexts
<1> QED BY <1>1, <1>2, <1>3, SafeKept

\* A message the thread accepts is the peer's next one, and what it is accepted
\* after is safe.
LEMMA AcceptableFacts ==
    ASSUME TypeInv, StoredInv, NEW t \in Thread, NEW m \in Acceptable(t)
    PROVE  /\ m \in relay /\ m.from = Peer /\ m \in Blob
           /\ Accepted(thread[t].mem, m).last_recv_seq = m.seq
           /\ m.seq < peer_seq
           /\ \A x \in relay : x.from = Peer /\ x.seq <= m.seq /\ x # m =>
                x.seq <= thread[t].mem.last_recv_seq
<1>1. m \in relay /\ m.from = Peer /\ m.seq = thread[t].mem.last_recv_seq + 1
    BY DEF StoredInv, QueuesArePolled, Acceptable
<1>2. m \in Blob /\ thread[t].mem \in Contact /\ relay \subseteq Blob
    BY <1>1, ProcessFacts DEF TypeInv, TypeOK
<1>3. ASSUME NEW x \in relay, x.from = Peer, x.seq <= m.seq, x # m
      PROVE  x.seq <= thread[t].mem.last_recv_seq
    <2>1. x.seq # m.seq
        BY <1>1, <1>3 DEF StoredInv, PeerNumbers
    <2>2. x.seq \in Nat /\ m.seq \in Nat /\ thread[t].mem.last_recv_seq \in Nat
        BY <1>2 DEF Blob, BlobsOf, Contact
    <2> QED BY <1>1, <1>3, <2>1, <2>2
<1> QED BY <1>1, <1>2, <1>3, AcceptedFacts DEF StoredInv, PeerNumbers

\* A message that is no text is safe to accept.
LEMMA PassedIsSafe ==
    ASSUME TypeInv, StoredInv, NEW t \in Thread, NEW m \in Acceptable(t), m.kind # "text"
    PROVE  Safe(Accepted(thread[t].mem, m).last_recv_seq)
<1>1. StoredUpTo(thread[t].mem.last_recv_seq)
    BY DEF StoredInv, CopiesSafe, Safe
<1> QED BY <1>1, AcceptableFacts DEF Safe, StoredUpTo

\* So is what no message has.
LEMMA StartIsSafe ==
    ASSUME TypeInv, StoredInv
    PROVE  Safe(NoContact.last_recv_seq) /\ Safe(Paired.last_recv_seq)
<1>1. \A m \in relay : m.seq \in Nat
    BY DEF TypeInv, TypeOK, Blob, BlobsOf
<1>2. Safe(0)
    BY <1>1 DEF StoredInv, PeerNumbers, Safe, StoredUpTo
<1> QED BY <1>2 DEF NoContact, Paired

LEMMA AcceptTextStored ==
    ASSUME TypeInv, StoredInv, NEW t \in Thread, AcceptText(t)
    PROVE  StoredInv'
<1>1. PICK m \in Acceptable(t) :
        LET mem == Accepted(thread[t].mem, m) IN
        /\ m.kind = "text"
        /\ Goes(t, "drain", [thread[t] EXCEPT !.pc = "kv", !.back = "rload", !.mem = mem,
                                              !.rid = m.id, !.queue = @ \ {m}])
        /\ row' = mem
        /\ pending_receipts' = pending_receipts \cup {m.id}
        /\ IF IsNew(m)
           THEN /\ inbound' = inbound \cup {[seq |-> m.seq, id |-> m.id]}
                /\ delivered' = Append(delivered, m.id)
           ELSE UNCHANGED <<inbound, delivered>>
        /\ UNCHANGED <<kv, pending_pairing, outbound_pending, relay, peer_seq, kills, texts>>
    BY DEF AcceptText
<1> DEFINE mem == Accepted(thread[t].mem, m)
           q == [thread[t] EXCEPT !.pc = "kv", !.back = "rload", !.mem = mem,
                                  !.rid = m.id, !.queue = @ \ {m}]
<1>2. /\ m \in relay /\ m.from = Peer /\ m \in Blob
      /\ mem.last_recv_seq = m.seq /\ m.seq < peer_seq
      /\ \A x \in relay : x.from = Peer /\ x.seq <= m.seq /\ x # m =>
           x.seq <= thread[t].mem.last_recv_seq
    BY AcceptableFacts
<1>3. inbound \subseteq inbound'
    BY <1>1
<1>4. \E r \in inbound' : r.seq = m.seq /\ r.id = m.id
    <2>1. CASE IsNew(m)
        <3>1. [seq |-> m.seq, id |-> m.id] \in inbound'
            BY <1>1, <2>1
        <3> QED BY <3>1
    <2>2. CASE ~IsNew(m)
        <3>1. PICK r \in inbound : r.seq = m.seq
            BY <2>2 DEF IsNew
        <3>2. PICK x \in relay : x.from = Peer /\ x.seq = r.seq /\ x.id = r.id
            BY DEF StoredInv, RowsAreTexts
        <3>3. x = m
            BY <1>2, <3>1, <3>2 DEF StoredInv, PeerNumbers
        <3> QED BY <1>3, <3>1, <3>2, <3>3
    <2> QED BY <2>1, <2>2
<1>5. RowsAreTexts'
    <2>1. \A r \in inbound' : r \in inbound \/ (r.seq = m.seq /\ r.id = m.id)
        BY <1>1
    <2> QED BY <1>1, <1>2, <2>1 DEF StoredInv, RowsAreTexts
<1>6. \A n : Safe(n) => SafeNext(n)
    BY <1>1, <1>3 DEF Safe, SafeNext, StoredUpTo
<1>7. SafeNext(m.seq)
    <2>1. SafeNext(thread[t].mem.last_recv_seq)
        BY <1>6 DEF StoredInv, CopiesSafe
    <2>2. relay' = relay /\ peer_seq' = peer_seq
        BY <1>1
    <2>3. ASSUME NEW x \in relay, x.from = Peer, x.kind = "text", x.seq <= m.seq
          PROVE  \E r \in inbound' : r.seq = x.seq /\ r.id = x.id
        <3>1. CASE x = m
            BY <1>4, <3>1
        <3>2. CASE x # m
            BY <1>2, <2>1, <2>2, <2>3, <3>2 DEF SafeNext
        <3> QED BY <3>1, <3>2
    <2> QED BY <1>2, <2>2, <2>3 DEF SafeNext
<1>8. thread[t] \in Process
    BY ProcessFacts DEF TypeInv
<1>9. q.queue = thread[t].queue \ {m} /\ q.mem = mem /\ q.rmem = thread[t].rmem
    BY <1>8 DEF Process
<1>10. q.queue \subseteq {x \in relay : x.from = Peer}
    BY <1>9 DEF StoredInv, QueuesArePolled
<1>11. SafeNext(mem.last_recv_seq)
    BY <1>2, <1>7
<1>12. SafeNext(row'.last_recv_seq) /\ SafeNext(kv'.last_recv_seq)
    BY <1>1, <1>6, <1>11 DEF StoredInv, CopiesSafe
<1>13. SafeNext(q.rmem.last_recv_seq) /\ SafeNext(q.mem.last_recv_seq)
    BY <1>6, <1>9, <1>11 DEF StoredInv, CopiesSafe
<1>14. Goes(t, "drain", q) /\ relay' = relay /\ peer_seq' = peer_seq
    BY <1>1
<1> HIDE DEF q
<1> QED BY <1>3, <1>5, <1>10, <1>12, <1>13, <1>14, SafeKept

LEMMA ClientStored ==
    ASSUME TypeInv, StoredInv, NEW t \in Thread, Client(t)
    PROVE  StoredInv'
<1> USE DEF store, history
<1> DEFINE polled == {m \in relay : m.from = Peer}
<1>a. /\ thread[t] \in Process /\ thread[t].queue \subseteq polled
      /\ Safe(thread[t].mem.last_recv_seq) /\ Safe(thread[t].rmem.last_recv_seq)
      /\ Safe(row.last_recv_seq) /\ Safe(kv.last_recv_seq)
    BY ProcessFacts DEF TypeInv, StoredInv, QueuesArePolled, CopiesSafe
<1>b. /\ thread[t].mem \in Contact /\ thread[t].rmem \in Contact
      /\ Loaded \in Contact /\ Safe(Loaded.last_recv_seq)
    BY <1>a, ProcessFacts, LoadedType DEF TypeInv, Loaded
<1>c. Safe(NoContact.last_recv_seq) /\ Safe(Paired.last_recv_seq)
    BY StartIsSafe
<1>I. /\ Idle.queue = {} /\ Idle.mem = NoContact /\ Idle.rmem = NoContact
      /\ Idle \in Process
    BY Constants DEF Idle
<1>1. CASE SaveRow(t)
    <2> DEFINE q == [thread[t] EXCEPT !.pc = "kv"]
    <2>1. q.queue = thread[t].queue /\ q.mem = thread[t].mem /\ q.rmem = thread[t].rmem
        BY <1>a DEF Process
    <2>2. Goes(t, "row", q) /\ row' = thread[t].mem /\ UNCHANGED <<kv, relay, inbound, peer_seq>>
        BY <1>1 DEF SaveRow
    <2> HIDE DEF q
    <2> QED BY <1>a, <2>1, <2>2, SafeStep
<1>2. CASE SaveCopy(t)
    <2> DEFINE q == [thread[t] EXCEPT !.pc = thread[t].back, !.back = "idle"]
    <2>1. q.queue = thread[t].queue /\ q.mem = thread[t].mem /\ q.rmem = thread[t].rmem
        BY <1>a DEF Process
    <2>2. Goes(t, "kv", q) /\ kv' = thread[t].mem /\ UNCHANGED <<row, relay, inbound, peer_seq>>
        BY <1>2 DEF SaveCopy
    <2> HIDE DEF q
    <2> QED BY <1>a, <2>1, <2>2, SafeStep
<1>3. CASE Finish(t)
    <2> DEFINE q == [Idle EXCEPT !.pc = "row", !.back = "clear", !.mem = Paired]
    <2>1. q.queue = {} /\ q.mem = Paired /\ q.rmem = NoContact
        BY <1>I DEF Process
    <2>2. Goes(t, "idle", q) /\ UNCHANGED <<row, kv, relay, inbound, peer_seq>>
        BY <1>3 DEF Finish
    <2> HIDE DEF q
    <2> QED BY <1>a, <1>c, <2>1, <2>2, SafeStep
<1>4. CASE FinishClear(t) \/ SendPost(t) \/ FetchEnd(t)
    <2>1. PICK from : Goes(t, from, Idle)
        BY <1>4 DEF FinishClear, SendPost, FetchEnd
    <2>2. /\ UNCHANGED <<row, kv, inbound, peer_seq>>
          /\ relay \subseteq relay' /\ relay' \subseteq relay \cup {thread[t].msg}
        BY <1>4 DEF FinishClear, SendPost, FetchEnd
    <2>3. thread[t].msg.from # Peer
        BY ProcessFacts, MobileAssumption DEF BlobsOf, TypeInv
    <2>4. \A m \in relay' : m.from = Peer => m \in relay
        BY <2>2, <2>3
    <2> QED BY <1>a, <1>c, <1>I, <2>1, <2>2, <2>4, SafeStep
<1>5. CASE SendLoad(t)
    <2> DEFINE q == [Idle EXCEPT !.pc = "commit", !.mem = Loaded]
    <2>1. q.queue = {} /\ q.mem = Loaded /\ q.rmem = NoContact
        BY <1>I DEF Process
    <2>2. Goes(t, "idle", q) /\ UNCHANGED <<row, kv, relay, inbound, peer_seq>>
        BY <1>5 DEF SendLoad
    <2> HIDE DEF q
    <2> QED BY <1>a, <1>b, <1>c, <2>1, <2>2, SafeStep
<1>6. CASE SendCommit(t)
    <2>1. PICK b : Goes(t, "commit", [thread[t] EXCEPT !.pc = "kv", !.back = "post",
                                        !.mem = Taken(thread[t].mem), !.msg = b])
        BY <1>6 DEF SendCommit
    <2> DEFINE q == [thread[t] EXCEPT !.pc = "kv", !.back = "post",
                                      !.mem = Taken(thread[t].mem), !.msg = b]
    <2>2. q.queue = thread[t].queue /\ q.mem = Taken(thread[t].mem) /\ q.rmem = thread[t].rmem
        BY <1>a DEF Process
    <2>3. Goes(t, "commit", q)
        BY <2>1
    <2>4. row' = Taken(thread[t].mem) /\ UNCHANGED <<kv, relay, inbound, peer_seq>>
        BY <1>6 DEF SendCommit
    <2>5. Safe(Taken(thread[t].mem).last_recv_seq)
        BY <1>a, <1>b, ContactFacts
    <2> HIDE DEF q
    <2> QED BY <1>a, <2>2, <2>3, <2>4, <2>5, SafeStep
<1>7. CASE FetchBegin(t)
    <2> DEFINE q == [Idle EXCEPT !.pc = "poll", !.mem = Loaded]
    <2>1. q.queue = {} /\ q.mem = Loaded /\ q.rmem = NoContact
        BY <1>I DEF Process
    <2>2. Goes(t, "idle", q) /\ UNCHANGED <<row, kv, relay, inbound, peer_seq>>
        BY <1>7 DEF FetchBegin
    <2> HIDE DEF q
    <2> QED BY <1>a, <1>b, <1>c, <2>1, <2>2, SafeStep
<1>21. CASE Collect(t)
    <2>1. PICK w \in SUBSET {m \in relay : m.from = Peer /\ m.seq > thread[t].mem.last_recv_seq} :
             Goes(t, "poll", [thread[t] EXCEPT !.pc = "drain", !.queue = w])
        BY <1>21 DEF Collect
    <2> DEFINE q == [thread[t] EXCEPT !.pc = "drain", !.queue = w]
    <2>2. q.queue = w /\ q.mem = thread[t].mem /\ q.rmem = thread[t].rmem
        BY <1>a DEF Process
    <2>3. Goes(t, "poll", q) /\ w \subseteq polled
        BY <2>1
    <2>4. UNCHANGED <<row, kv, relay, inbound, peer_seq>>
        BY <1>21 DEF Collect
    <2> HIDE DEF q
    <2> QED BY <1>a, <2>2, <2>3, <2>4, SafeStep
<1>22. CASE NextTag(t)
    <2> DEFINE q == [thread[t] EXCEPT !.pc = "poll", !.queue = {}]
    <2>1. q.queue = {} /\ q.mem = thread[t].mem /\ q.rmem = thread[t].rmem
        BY <1>a DEF Process
    <2>2. Goes(t, "drain", q) /\ UNCHANGED <<row, kv, relay, inbound, peer_seq>>
        BY <1>22 DEF NextTag
    <2> HIDE DEF q
    <2> QED BY <1>a, <2>1, <2>2, SafeStep
<1>8. CASE AcceptText(t)
    BY <1>8, AcceptTextStored
<1>9. CASE AcceptSaved(t)
    <2>1. PICK m \in Acceptable(t) :
            /\ m.kind \in {"receipt", "profile"}
            /\ Goes(t, "drain", [thread[t] EXCEPT !.pc = "row", !.back = "drain",
                                   !.mem = Accepted(@, m), !.queue = @ \ {m}])
            /\ UNCHANGED <<row, kv, inbound, relay, peer_seq>>
        BY <1>9 DEF AcceptSaved
    <2> DEFINE q == [thread[t] EXCEPT !.pc = "row", !.back = "drain",
                       !.mem = Accepted(@, m), !.queue = @ \ {m}]
    <2>2. /\ q.queue = thread[t].queue \ {m} /\ q.mem = Accepted(thread[t].mem, m)
          /\ q.rmem = thread[t].rmem
        BY <1>a DEF Process
    <2>3. Goes(t, "drain", q) /\ Safe(Accepted(thread[t].mem, m).last_recv_seq)
        BY <2>1, PassedIsSafe
    <2> HIDE DEF q
    <2> QED BY <1>a, <2>1, <2>2, <2>3, SafeStep
<1>10. CASE AcceptPresence(t)
    <2>1. PICK m \in Acceptable(t) :
            /\ m.kind = "presence"
            /\ Goes(t, "drain", [thread[t] EXCEPT !.mem = Accepted(@, m), !.queue = @ \ {m}])
        BY <1>10 DEF AcceptPresence
    <2> DEFINE q == [thread[t] EXCEPT !.mem = Accepted(@, m), !.queue = @ \ {m}]
    <2>2. /\ q.queue = thread[t].queue \ {m} /\ q.mem = Accepted(thread[t].mem, m)
          /\ q.rmem = thread[t].rmem
        BY <1>a DEF Process
    <2>3. Goes(t, "drain", q) /\ Safe(Accepted(thread[t].mem, m).last_recv_seq)
        BY <2>1, PassedIsSafe
    <2>4. UNCHANGED <<row, kv, inbound, relay, peer_seq>>
        BY <1>10 DEF AcceptPresence
    <2> HIDE DEF q
    <2> QED BY <1>a, <2>2, <2>3, <2>4, SafeStep
<1>11. CASE Merge(t)
    <2> DEFINE q == [thread[t] EXCEPT !.pc = "row", !.back = "drain", !.rid = 0,
                       !.rmem = NoContact, !.mem.next_send_seq = Loaded.next_send_seq]
    <2>1. /\ q.queue = thread[t].queue /\ q.rmem = NoContact
          /\ q.mem.last_recv_seq = thread[t].mem.last_recv_seq
        BY <1>a, <1>b DEF Process, Contact
    <2>2. Goes(t, "merge", q) /\ UNCHANGED <<row, kv, relay, inbound, peer_seq>>
        BY <1>11 DEF Merge
    <2> HIDE DEF q
    <2> QED BY <1>a, <1>c, <2>1, <2>2, SafeStep
<1>12. CASE ReceiptLoad(t)
    <2> DEFINE q == [thread[t] EXCEPT !.pc = "rsave", !.rmem = row]
    <2>1. q.queue = thread[t].queue /\ q.mem = thread[t].mem /\ q.rmem = row
        BY <1>a DEF Process
    <2>2. Goes(t, "rload", q) /\ UNCHANGED <<row, kv, relay, inbound, peer_seq>>
        BY <1>12 DEF ReceiptLoad
    <2> HIDE DEF q
    <2> QED BY <1>a, <2>1, <2>2, SafeStep
<1>P. ASSUME NEW from, NEW to, NEW c, ReceiptPersist(t, from, to, c), Safe(c.last_recv_seq)
      PROVE  StoredInv'
    <2> DEFINE q == [thread[t] EXCEPT !.pc = to, !.rmem = c]
    <2>1. q.queue = thread[t].queue /\ q.mem = thread[t].mem /\ q.rmem = c
        BY <1>a DEF Process
    <2>2. Goes(t, from, q) /\ row' = c /\ UNCHANGED <<kv, relay, inbound, peer_seq>>
        BY <1>P DEF ReceiptPersist
    <2> HIDE DEF q
    <2> QED BY <1>a, <1>P, <2>1, <2>2, SafeStep
<1>13. CASE ReceiptSave(t) \/ ReceiptUndo(t)
    <2>1. /\ Safe(Taken(thread[t].rmem).last_recv_seq)
          /\ Safe(Untaken(thread[t].rmem).last_recv_seq)
        BY <1>a, <1>b, ContactFacts
    <2> QED BY <1>13, <1>P, <2>1 DEF ReceiptSave, ReceiptUndo
<1>14. CASE ReceiptPost(t)
    <2> DEFINE r == [from |-> Mobile, kind |-> "receipt", id |-> thread[t].rid,
                     seq |-> thread[t].rmem.next_send_seq - 1]
    <2>1. PICK o \in Posts :
            /\ Goes(t, "rpost", [thread[t] EXCEPT !.pc = AfterReceiptPost(o)])
            /\ relay' = IF o = "fail" THEN relay ELSE relay \cup {r}
        BY <1>14 DEF ReceiptPost
    <2> DEFINE q == [thread[t] EXCEPT !.pc = AfterReceiptPost(o)]
    <2>2. q.queue = thread[t].queue /\ q.mem = thread[t].mem /\ q.rmem = thread[t].rmem
        BY <1>a DEF Process
    <2>3. Goes(t, "rpost", q) /\ UNCHANGED <<row, kv, inbound, peer_seq>>
        BY <1>14, <2>1 DEF ReceiptPost
    <2>3a. r.from = Mobile
        OBVIOUS
    <2> HIDE DEF r
    <2>4. relay \subseteq relay' /\ \A m \in relay' : m.from = Peer => m \in relay
        BY <2>1, <2>3a, MobileAssumption
    <2> HIDE DEF q
    <2> QED BY <1>a, <2>2, <2>3, <2>4, SafeStep
<1>15. CASE ReceiptEnd(t)
    <2>1. PICK from : Goes(t, from, [thread[t] EXCEPT !.pc = "merge"])
        BY <1>15 DEF ReceiptEnd
    <2> DEFINE q == [thread[t] EXCEPT !.pc = "merge"]
    <2>2. q.queue = thread[t].queue /\ q.mem = thread[t].mem /\ q.rmem = thread[t].rmem
        BY <1>a DEF Process
    <2>3. Goes(t, from, q) /\ UNCHANGED <<row, kv, relay, inbound, peer_seq>>
        BY <1>15, <2>1 DEF ReceiptEnd
    <2> HIDE DEF q
    <2> QED BY <1>a, <2>2, <2>3, SafeStep
<1> QED BY <1>1, <1>2, <1>3, <1>4, <1>5, <1>6, <1>7, <1>8, <1>9, <1>10, <1>11, <1>12, <1>13,
           <1>14, <1>15, <1>21, <1>22 DEF Client

\* A new message of the peer has a number no copy is past.
LEMMA PeerSendsStored ==
    ASSUME TypeInv, StoredInv, NEW kind \in {"text", "receipt", "profile", "presence"},
           NEW id \in Nat, PeerSends(kind, id)
    PROVE  StoredInv'
<1> DEFINE b == [from |-> Peer, kind |-> kind, seq |-> peer_seq, id |-> id]
<1>1. /\ relay' = relay \cup {b} /\ peer_seq' = peer_seq + 1
      /\ UNCHANGED <<row, kv, inbound, thread>>
    BY DEF PeerSends, store
<1>2. peer_seq \in Nat /\ \A m \in relay : m.seq \in Nat
    BY DEF TypeInv, TypeOK, Blob, BlobsOf
<1>3. b.from = Peer /\ b.seq = peer_seq
    OBVIOUS
<1> HIDE DEF b
<1>4. PeerNumbers'
    BY <1>1, <1>2, <1>3 DEF StoredInv, PeerNumbers
<1>5. RowsAreTexts' /\ QueuesArePolled'
    BY <1>1 DEF StoredInv, RowsAreTexts, QueuesArePolled
<1>6. ASSUME NEW n \in Nat, Safe(n) PROVE SafeNext(n)
    BY <1>1, <1>2, <1>3, <1>6 DEF Safe, SafeNext, StoredUpTo
<1>7. /\ row.last_recv_seq \in Nat /\ kv.last_recv_seq \in Nat
      /\ \A t \in Thread : thread[t].mem.last_recv_seq \in Nat
                           /\ thread[t].rmem.last_recv_seq \in Nat
    BY ProcessFacts DEF TypeInv, TypeOK, Contact
<1>8. \A n : SafeNext(n) => Safe(n)'
    BY DEF Safe, SafeNext, StoredUpTo
<1>9. CopiesSafe'
    BY <1>1, <1>6, <1>7, <1>8 DEF StoredInv, CopiesSafe
<1> QED BY <1>4, <1>5, <1>9 DEF StoredInv

LEMMA NextStored == TypeInv /\ StoredInv /\ [Next]_vars => StoredInv'
<1> SUFFICES ASSUME TypeInv, StoredInv, [Next]_vars PROVE StoredInv'
    OBVIOUS
<1> USE DEF store, history
<1>1. ASSUME NEW t \in Thread, Client(t) PROVE StoredInv'
    BY <1>1, ClientStored
<1>2. CASE PeerText
    <2>1. texts[Peer] + 1 \in Nat
        BY DEF TypeInv, TypeOK, End
    <2> QED BY <1>2, <2>1, PeerSendsStored DEF PeerText
<1>3. CASE PeerPush
    BY <1>3, PeerSendsStored, MobileAssumption DEF PeerPush
<1>4. CASE PeerReceipt
    <2>1. PICK m \in relay : PeerSends("receipt", m.id)
        BY <1>4 DEF PeerReceipt
    <2>2. m.id \in Nat
        BY DEF TypeInv, TypeOK, Blob, BlobsOf
    <2> QED BY <2>1, <2>2, PeerSendsStored
<1>5. CASE Kill
    <2>1. Idle.queue = {} /\ Idle.mem = NoContact /\ Idle.rmem = NoContact
        BY DEF Idle
    <2>2. Safe(NoContact.last_recv_seq)
        BY StartIsSafe
    <2> QED BY <1>5, <2>1, <2>2
            DEF Kill, StoredInv, PeerNumbers, RowsAreTexts, QueuesArePolled, CopiesSafe,
                Safe, StoredUpTo
<1>6. CASE UNCHANGED vars
    BY <1>6 DEF vars, StoredInv, PeerNumbers, RowsAreTexts, QueuesArePolled, CopiesSafe,
                Safe, StoredUpTo
<1> QED BY <1>1, <1>2, <1>3, <1>4, <1>5, <1>6 DEF Next

LEMMA InitStored == Init => StoredInv
BY DEF Init, StoredInv, PeerNumbers, RowsAreTexts, QueuesArePolled, CopiesSafe, Safe,
       StoredUpTo, Idle, NoContact

\* No copy of the contact is past a text that is not stored, whatever the threads
\* and kills between the two commits of a save (atomic_commit_receive_text).
THEOREM NothingIsSkipped == Spec => []ReceivedIsStored
<1>1. StoredInv => ReceivedIsStored
    BY DEF StoredInv, CopiesSafe, Safe, ReceivedIsStored
<1> QED BY InitTyped, NextTyped, InitStored, NextStored, <1>1, PTL DEF Spec

-----------------------------------------------------------------------------
(* Every stored text has its receipt queued or posted *)

Receipted(id) == \E m \in relay : m.from = Mobile /\ m.kind = "receipt" /\ m.id = id

\* The same after the step.
ReceiptedNext(id) == \E m \in relay' : m.from = Mobile /\ m.kind = "receipt" /\ m.id = id

\* A receipt is taken from the queue only when it is at a relay.
ReceiptInv ==
    /\ \A r \in inbound : r.id \in pending_receipts \/ Receipted(r.id)
    /\ \A t \in Thread : thread[t].pc = "rdone" => Receipted(thread[t].rid)

LEMMA RelayGrows == [Next]_vars => relay \subseteq relay'
<1> SUFFICES ASSUME [Next]_vars PROVE relay \subseteq relay'
    OBVIOUS
<1> USE DEF store, history
<1>1. ASSUME NEW t \in Thread, Client(t) PROVE relay \subseteq relay'
    BY <1>1 DEF Client, SaveRow, SaveCopy, Finish, FinishClear, SendLoad, SendCommit, SendPost,
                FetchBegin, Collect, AcceptText, AcceptSaved, AcceptPresence, Merge, NextTag,
                FetchEnd, ReceiptLoad, ReceiptPersist, ReceiptSave, ReceiptUndo, ReceiptPost, ReceiptEnd
<1>2. CASE PeerText \/ PeerPush \/ PeerReceipt \/ Kill \/ UNCHANGED vars
    BY <1>2 DEF PeerText, PeerPush, PeerReceipt, PeerSends, Kill, vars
<1> QED BY <1>1, <1>2 DEF Next

\* What a thread's step keeps that neither unqueues a receipt nor adds a row.
LEMMA ReceiptKept ==
    ASSUME TypeInv, ReceiptInv, NEW t \in Thread, NEW from, NEW p, Goes(t, from, p),
           UNCHANGED inbound, pending_receipts \subseteq pending_receipts',
           relay \subseteq relay', p.pc # "rdone"
    PROVE  ReceiptInv'
<1>1. \A u \in Thread : thread'[u] = IF u = t THEN p ELSE thread[u]
    BY DEF Goes, TypeInv, TypeOK
<1>2. \A id : Receipted(id) => ReceiptedNext(id)
    BY DEF Receipted, ReceiptedNext
<1>3. \A u \in Thread : thread'[u].pc = "rdone" => ReceiptedNext(thread'[u].rid)
    BY <1>1, <1>2 DEF ReceiptInv
<1>4. \A r \in inbound' : r.id \in pending_receipts' \/ ReceiptedNext(r.id)
    BY <1>2 DEF ReceiptInv
<1> QED BY <1>3, <1>4 DEF ReceiptInv, Receipted, ReceiptedNext

LEMMA NextReceipted == TypeInv /\ ReceiptInv /\ [Next]_vars => ReceiptInv'
<1> SUFFICES ASSUME TypeInv, ReceiptInv, [Next]_vars PROVE ReceiptInv'
    OBVIOUS
<1> USE DEF store, history
<1>0. relay \subseteq relay'
    BY RelayGrows
<1>2. \A id : Receipted(id) => ReceiptedNext(id)
    BY <1>0 DEF Receipted, ReceiptedNext
<1>3. ASSUME NEW t \in Thread, Client(t) PROVE ReceiptInv'
    <2>a. thread[t] \in Process /\ thread[t].back \in Back
        BY ProcessFacts DEF TypeInv
    <2>u. thread \in [Thread -> Process]
        BY DEF TypeInv, TypeOK
    <2>1. CASE AcceptText(t)
        <3>0. PICK m \in Acceptable(t) :
                /\ \E q : Goes(t, "drain", q) /\ q.pc = "kv"
                /\ pending_receipts' = pending_receipts \cup {m.id}
                /\ \A r \in inbound' : r \in inbound \/ r.id = m.id
            <4>1. PICK m \in Acceptable(t) :
                    /\ Goes(t, "drain", [thread[t] EXCEPT !.pc = "kv", !.back = "rload",
                              !.mem = Accepted(thread[t].mem, m), !.rid = m.id,
                              !.queue = @ \ {m}])
                    /\ pending_receipts' = pending_receipts \cup {m.id}
                    /\ IF IsNew(m)
                       THEN inbound' = inbound \cup {[seq |-> m.seq, id |-> m.id]}
                       ELSE UNCHANGED inbound
                BY <2>1 DEF AcceptText
            <4>2. \A r \in inbound' : r \in inbound \/ r.id = m.id
                BY <4>1
            <4> DEFINE q == [thread[t] EXCEPT !.pc = "kv", !.back = "rload",
                               !.mem = Accepted(thread[t].mem, m), !.rid = m.id,
                               !.queue = @ \ {m}]
            <4>3. q.pc = "kv"
                BY <2>a DEF Process
            <4>4. Goes(t, "drain", q)
                BY <4>1
            <4> HIDE DEF q
            <4> QED BY <4>1, <4>2, <4>3, <4>4
        <3>1. PICK q : Goes(t, "drain", q) /\ q.pc = "kv"
            BY <3>0
        <3>2. \A u \in Thread : thread'[u] = IF u = t THEN q ELSE thread[u]
            BY <3>1, <2>u DEF Goes
        <3>3. \A u \in Thread : thread'[u].pc = "rdone" => ReceiptedNext(thread'[u].rid)
            BY <3>1, <3>2, <1>2 DEF ReceiptInv
        <3>4. \A r \in inbound' : r.id \in pending_receipts' \/ ReceiptedNext(r.id)
            BY <3>0, <1>2 DEF ReceiptInv
        <3> QED BY <3>3, <3>4 DEF ReceiptInv, Receipted, ReceiptedNext
    <2>2. CASE ReceiptPost(t)
        <3> DEFINE b == [from |-> Mobile, kind |-> "receipt", id |-> thread[t].rid,
                         seq |-> thread[t].rmem.next_send_seq - 1]
        <3>1. PICK o \in Posts :
                /\ Goes(t, "rpost", [thread[t] EXCEPT !.pc = AfterReceiptPost(o)])
                /\ relay' = IF o = "fail" THEN relay ELSE relay \cup {b}
                /\ UNCHANGED <<inbound, pending_receipts>>
            BY <2>2 DEF ReceiptPost
        <3>2. CASE o = "ok"
            <4>1. b \in relay' /\ b.from = Mobile /\ b.kind = "receipt" /\ b.id = thread[t].rid
                BY <3>1, <3>2
            <4>2. \A u \in Thread : thread'[u].rid = thread[u].rid
                                    /\ (u # t => thread'[u] = thread[u])
                BY <3>1, <2>u DEF Goes, Process
            <4>3. ReceiptedNext(thread[t].rid)
                <5>1. thread'[t].rid = thread[t].rid
                    BY <4>2
                <5> HIDE DEF b
                <5> QED BY <4>1, <5>1 DEF ReceiptedNext
            <4>4. \A u \in Thread : thread'[u].pc = "rdone" => ReceiptedNext(thread'[u].rid)
                BY <1>2, <4>2, <4>3 DEF ReceiptInv, Receipted, ReceiptedNext
            <4>5. \A r \in inbound' : r.id \in pending_receipts' \/ ReceiptedNext(r.id)
                BY <3>1, <1>2 DEF ReceiptInv
            <4> QED BY <4>4, <4>5 DEF ReceiptInv, Receipted, ReceiptedNext
        <3>3. CASE o # "ok"
            <4> DEFINE q == [thread[t] EXCEPT !.pc = AfterReceiptPost(o)]
            <4>1. q.pc # "rdone"
                BY <3>3, <2>a DEF Process, AfterReceiptPost
            <4>2. Goes(t, "rpost", q)
                BY <3>1
            <4> HIDE DEF q
            <4> QED BY <1>0, <3>1, <4>1, <4>2, ReceiptKept
        <3> QED BY <3>2, <3>3
    <2>3. CASE ReceiptEnd(t)
        <3> DEFINE q == [thread[t] EXCEPT !.pc = "merge"]
        <3>1. /\ thread[t].pc \in {"rdone", "rqueue"} /\ thread' = [thread EXCEPT ![t] = q]
              /\ inbound' = inbound
              /\ pending_receipts' = IF thread[t].pc = "rdone"
                                     THEN pending_receipts \ {thread[t].rid}
                                     ELSE pending_receipts \cup {thread[t].rid}
            BY <2>3 DEF ReceiptEnd, Goes
        <3>2. q.pc # "rdone" /\ \A u \in Thread : thread'[u] = IF u = t THEN q ELSE thread[u]
            BY <3>1, <2>a, <2>u DEF Process
        <3>3. \A u \in Thread : thread'[u].pc = "rdone" => ReceiptedNext(thread'[u].rid)
            BY <3>2, <1>2 DEF ReceiptInv
        <3>4. \A id \in pending_receipts \ pending_receipts' : ReceiptedNext(id)
            BY <3>1, <1>2 DEF ReceiptInv
        <3>5. \A r \in inbound' : r.id \in pending_receipts' \/ ReceiptedNext(r.id)
            BY <3>1, <3>4, <1>2 DEF ReceiptInv
        <3> QED BY <3>3, <3>5 DEF ReceiptInv, Receipted, ReceiptedNext
    <2>4. CASE ~(AcceptText(t) \/ ReceiptPost(t) \/ ReceiptEnd(t))
        <3>1. UNCHANGED <<inbound, pending_receipts>>
            BY <1>3, <2>4 DEF Client, SaveRow, SaveCopy, Finish, FinishClear, SendLoad,
                SendCommit, SendPost, FetchBegin, Collect, AcceptSaved, AcceptPresence, Merge,
                NextTag, FetchEnd, ReceiptLoad, ReceiptPersist, ReceiptSave, ReceiptUndo
        <3>2. thread' = [thread EXCEPT ![t] = thread'[t]] /\ thread'[t].pc # "rdone"
            <4> USE <2>a, <2>u DEF Goes, Process
            <4>1. CASE SaveRow(t)
                BY <4>1 DEF SaveRow
            <4>2. CASE SaveCopy(t)
                BY <4>2 DEF SaveCopy, Back
            <4>3. CASE Finish(t)
                BY <4>3 DEF Finish, Idle
            <4>4. CASE FinishClear(t)
                BY <4>4 DEF FinishClear, Idle
            <4>5. CASE SendLoad(t)
                BY <4>5 DEF SendLoad, Idle
            <4>6. CASE SendCommit(t)
                BY <4>6 DEF SendCommit
            <4>7. CASE SendPost(t)
                BY <4>7 DEF SendPost, Idle
            <4>8. CASE FetchBegin(t)
                BY <4>8 DEF FetchBegin, Idle
            <4>9. CASE AcceptSaved(t)
                BY <4>9 DEF AcceptSaved
            <4>10. CASE AcceptPresence(t)
                BY <4>10 DEF AcceptPresence
            <4>11. CASE Merge(t)
                BY <4>11 DEF Merge
            <4>12. CASE FetchEnd(t)
                BY <4>12 DEF FetchEnd, Idle
            <4>13. CASE ReceiptLoad(t)
                BY <4>13 DEF ReceiptLoad
            <4>14. CASE ReceiptSave(t)
                BY <4>14 DEF ReceiptSave, ReceiptPersist
            <4>15. CASE ReceiptUndo(t)
                BY <4>15 DEF ReceiptUndo, ReceiptPersist
            <4>16. CASE Collect(t)
                BY <4>16 DEF Collect
            <4>17. CASE NextTag(t)
                BY <4>17 DEF NextTag
            <4> QED BY <1>3, <2>4, <4>1, <4>2, <4>3, <4>4, <4>5, <4>6, <4>7, <4>8, <4>9, <4>10, <4>11, <4>12, <4>13, <4>14, <4>15, <4>16,
                <4>17 DEF Client
        <3> QED BY <1>0, <3>1, <3>2, ReceiptKept DEF Goes
    <2> QED BY <2>1, <2>2, <2>3, <2>4
<1>4. CASE PeerText \/ PeerPush \/ PeerReceipt
    <2>1. UNCHANGED <<inbound, pending_receipts, thread>>
        BY <1>4 DEF PeerText, PeerPush, PeerReceipt, PeerSends
    <2> QED BY <1>2, <2>1 DEF ReceiptInv, Receipted, ReceiptedNext
<1>5. CASE Kill
    <2>1. \A t \in Thread : thread'[t].pc # "rdone"
        BY <1>5 DEF Kill, Idle
    <2> QED BY <1>2, <1>5, <2>1 DEF Kill, ReceiptInv, Receipted
<1>6. CASE UNCHANGED vars
    BY <1>6 DEF vars, ReceiptInv, Receipted
<1> QED BY <1>3, <1>4, <1>5, <1>6 DEF Next

\* No receipt is lost between the queue and the relay (send_delivery_receipt).
THEOREM ReceiptsKept == Spec => []ReceiptQueuedOrPosted
<1>1. Init => ReceiptInv
    BY DEF Init, ReceiptInv, Idle
<1>2. ReceiptInv => ReceiptQueuedOrPosted
    BY DEF ReceiptInv, Receipted, ReceiptQueuedOrPosted
<1> QED BY InitTyped, NextTyped, NextReceipted, <1>1, <1>2, PTL DEF Spec

-----------------------------------------------------------------------------
(* The client implements TextChannel *)

\* Row n was stored: the client has read the peer's text n.
Read(n) == \E i \in 1 .. Len(delivered) : delivered[i] = n

PeerTexts == {m \in relay : m.from = Peer /\ m.kind = "text"}

\* The peer numbers its texts in the order it posts them.
TextsNumbered ==
    /\ \A m \in PeerTexts : m.id \in 1 .. texts[Peer]
    /\ \A m, x \in PeerTexts : m.seq < x.seq => m.id < x.id

\* The rows have no gap, and are what was read.
RowsRead ==
    /\ \A r \in inbound : StoredUpTo(r.seq)
    /\ \A n \in Nat : Read(n) <=> \E r \in inbound : r.id = n

Receipting == {"rload", "rsave", "rpost", "rdone", "rundo", "rqueue"}

\* A receipt under way, and one at a relay, is for a text that was read.
ReceiptsAreRead ==
    /\ \A t \in Thread :
         /\ thread[t].pc \in Receipting \/ thread[t].back = "rload" => Read(thread[t].rid)
         /\ thread[t].msg.kind = "text"
    /\ \A m \in relay : m.from = Mobile /\ m.kind = "receipt" => Read(m.id)

ChannelInv == TextsNumbered /\ RowsRead /\ ReceiptsAreRead

\* A row is appended: what was read stays so.
LEMMA ReadAppend ==
    ASSUME delivered \in Seq(Nat), NEW k \in Nat, delivered' = Append(delivered, k)
    PROVE  \A n \in Nat : Read(n)' <=> Read(n) \/ n = k
<1>1. /\ Len(delivered') = Len(delivered) + 1 /\ Len(delivered) \in Nat
      /\ delivered'[Len(delivered) + 1] = k
      /\ \A i \in 1 .. Len(delivered) : delivered'[i] = delivered[i]
    OBVIOUS
<1>2. Read(k)'
    BY <1>1 DEF Read
<1>3. \A n \in Nat : Read(n) => Read(n)'
    BY <1>1 DEF Read
<1>4. \A n \in Nat : Read(n)' => Read(n) \/ n = k
    BY <1>1 DEF Read
<1> QED BY <1>2, <1>3, <1>4

\* What a thread's step keeps that stores no text.
LEMMA ChannelKept ==
    ASSUME TypeInv, ChannelInv, NEW t \in Thread, NEW from, NEW p, Goes(t, from, p),
           UNCHANGED <<inbound, delivered>>, texts'[Peer] = texts[Peer], relay \subseteq relay',
           \A m \in relay' : m.from = Peer => m \in relay,
           \A m \in relay' : m.from = Mobile /\ m.kind = "receipt" => m \in relay \/ Read(m.id),
           p.pc \in Receipting \/ p.back = "rload" => Read(p.rid), p.msg.kind = "text"
    PROVE  ChannelInv'
<1>1. \A u \in Thread : thread'[u] = IF u = t THEN p ELSE thread[u]
    BY DEF Goes, TypeInv, TypeOK
<1>2. \A n : Read(n)' <=> Read(n)
    BY DEF Read
<1>3. PeerTexts' = PeerTexts
    BY DEF PeerTexts
<1>4. TextsNumbered'
    BY <1>3 DEF ChannelInv, TextsNumbered
<1>5. RowsRead'
    <2>1. \A n : StoredUpTo(n) => StoredUpTo(n)'
        BY DEF StoredUpTo
    <2> QED BY <1>2, <2>1 DEF ChannelInv, RowsRead
<1>6. ReceiptsAreRead'
    <2>1. \A u \in Thread :
            /\ thread'[u].pc \in Receipting \/ thread'[u].back = "rload" => Read(thread'[u].rid)
            /\ thread'[u].msg.kind = "text"
        BY <1>1 DEF ChannelInv, ReceiptsAreRead
    <2>2. \A m \in relay' : m.from = Mobile /\ m.kind = "receipt" => Read(m.id)
        BY DEF ChannelInv, ReceiptsAreRead
    <2> QED BY <1>2, <2>1, <2>2 DEF ReceiptsAreRead
<1> QED BY <1>4, <1>5, <1>6 DEF ChannelInv

\* A text that is new to the client is later than all it read.
LEMMA NewTextIsLater ==
    ASSUME TypeInv, StoredInv, ChannelInv, NEW t \in Thread, NEW m \in Acceptable(t),
           m.kind = "text"
    PROVE  /\ m \in PeerTexts /\ m.id \in Nat /\ m.id \in 1 .. texts[Peer]
           /\ IsNew(m) => \A n \in Nat : Read(n) => n < m.id
           /\ ~ IsNew(m) => Read(m.id)
<1>1. m \in PeerTexts /\ m.id \in Nat /\ m.seq \in Nat
    BY AcceptableFacts DEF PeerTexts, Blob, BlobsOf
<1>2. m.id \in 1 .. texts[Peer]
    BY <1>1 DEF ChannelInv, TextsNumbered
<1>3. ASSUME IsNew(m), NEW n \in Nat, Read(n)
      PROVE  n < m.id
    <2>1. PICK r \in inbound : r.id = n
        BY <1>3 DEF ChannelInv, RowsRead
    <2>2. StoredUpTo(r.seq) /\ r.seq \in Nat
        BY DEF ChannelInv, RowsRead, TypeInv, TypeOK, Row
    <2>3. r.seq < m.seq
        <3>1. ~ (m.seq <= r.seq)
            BY <1>1, <1>3, <2>2 DEF PeerTexts, StoredUpTo, IsNew
        <3> QED BY <1>1, <2>2, <3>1
    <2>4. PICK x \in PeerTexts : x.seq = r.seq /\ x.id = r.id
        BY DEF StoredInv, RowsAreTexts, PeerTexts
    <2> QED BY <1>1, <2>1, <2>3, <2>4 DEF ChannelInv, TextsNumbered
<1>4. ASSUME ~ IsNew(m)
      PROVE  Read(m.id)
    <2>1. PICK r \in inbound : r.seq = m.seq
        BY <1>4 DEF IsNew
    <2>2. PICK x \in PeerTexts : x.seq = r.seq /\ x.id = r.id
        BY DEF StoredInv, RowsAreTexts, PeerTexts
    <2>3. x = m
        BY <1>1, <2>1, <2>2 DEF StoredInv, PeerNumbers, PeerTexts
    <2> QED BY <1>1, <2>2, <2>3 DEF ChannelInv, RowsRead
<1> QED BY <1>1, <1>2, <1>3, <1>4

LEMMA AcceptTextChannel ==
    ASSUME TypeInv, StoredInv, ChannelInv, NEW t \in Thread, AcceptText(t)
    PROVE  ChannelInv'
<1>1. PICK m \in Acceptable(t) :
        LET mem == Accepted(thread[t].mem, m) IN
        /\ m.kind = "text"
        /\ Goes(t, "drain", [thread[t] EXCEPT !.pc = "kv", !.back = "rload", !.mem = mem,
                                              !.rid = m.id, !.queue = @ \ {m}])
        /\ row' = mem
        /\ IF IsNew(m)
           THEN /\ inbound' = inbound \cup {[seq |-> m.seq, id |-> m.id]}
                /\ delivered' = Append(delivered, m.id)
           ELSE UNCHANGED <<inbound, delivered>>
        /\ UNCHANGED <<relay, texts>>
    BY DEF AcceptText
<1> DEFINE q == [thread[t] EXCEPT !.pc = "kv", !.back = "rload",
                    !.mem = Accepted(thread[t].mem, m), !.rid = m.id, !.queue = @ \ {m}]
<1>2. /\ m \in PeerTexts /\ m.id \in Nat
      /\ ~ IsNew(m) => Read(m.id)
    BY <1>1, NewTextIsLater
<1>3. q.rid = m.id /\ q.msg = thread[t].msg /\ q.pc = "kv" /\ q.back = "rload"
    BY ProcessFacts DEF TypeInv, Process
<1>4. thread[t].msg.kind = "text"
    BY DEF ChannelInv, ReceiptsAreRead
<1>5. CASE ~ IsNew(m)
    <2>1. UNCHANGED <<inbound, delivered, relay, texts>> /\ Goes(t, "drain", q)
        BY <1>1, <1>5
    <2> HIDE DEF q
    <2> QED BY <1>2, <1>3, <1>4, <1>5, <2>1, ChannelKept
<1>6. CASE IsNew(m)
    <2>1. /\ inbound' = inbound \cup {[seq |-> m.seq, id |-> m.id]}
          /\ delivered' = Append(delivered, m.id) /\ UNCHANGED <<relay, texts>>
        BY <1>1, <1>6
    <2>2. \A n \in Nat : Read(n)' <=> Read(n) \/ n = m.id
        <3> DEFINE k == m.id
        <3> HIDE DEF k
        <3>1. k \in Nat /\ delivered' = Append(delivered, k) /\ delivered \in Seq(Nat)
            BY <1>2, <2>1 DEF k, TypeInv, TypeOK
        <3>2. \A n \in Nat : Read(n)' <=> Read(n) \/ n = k
            BY <3>1, ReadAppend
        <3> QED BY <3>2 DEF k
    <2>3. TextsNumbered'
        BY <2>1 DEF ChannelInv, TextsNumbered, PeerTexts
    <2>4. RowsRead'
        <3>1. StoredInv'
            BY AcceptTextStored
        <3>2. row'.last_recv_seq = m.seq
            BY <1>1, AcceptableFacts
        <3>3. StoredUpTo(m.seq)'
            <4>1. StoredUpTo(row.last_recv_seq)'
                BY <3>1 DEF StoredInv, CopiesSafe, Safe
            <4> QED BY <3>2, <4>1 DEF StoredUpTo
        <3>4. \A n : StoredUpTo(n) => StoredUpTo(n)'
            BY <2>1 DEF StoredUpTo
        <3>5. \A r \in inbound' : r \in inbound \/ (r.seq = m.seq /\ r.id = m.id)
            BY <2>1
        <3>6. \A r \in inbound' : StoredUpTo(r.seq)'
            BY <3>3, <3>4, <3>5 DEF ChannelInv, RowsRead
        <3>7. \A n \in Nat : Read(n)' <=> \E r \in inbound' : r.id = n
            <4>1. ASSUME NEW n \in Nat
                  PROVE  (\E r \in inbound' : r.id = n) <=> (\E r \in inbound : r.id = n) \/ n = m.id
                <5>1. [seq |-> m.seq, id |-> m.id] \in inbound' /\ inbound \subseteq inbound'
                    BY <2>1
                <5> QED BY <3>5, <5>1
            <4>2. \A n \in Nat : Read(n) <=> \E r \in inbound : r.id = n
                BY DEF ChannelInv, RowsRead
            <4> QED BY <2>2, <4>1, <4>2
        <3> QED BY <3>6, <3>7 DEF RowsRead
    <2>5. ReceiptsAreRead'
        <3>1. \A u \in Thread : thread'[u] = IF u = t THEN q ELSE thread[u]
            BY <1>1 DEF Goes, TypeInv, TypeOK
        <3> HIDE DEF q
        <3>2. \A u \in Thread : thread[u].rid \in Nat
            BY ProcessFacts DEF TypeInv
        <3>3. \A u \in Thread :
                /\ thread'[u].pc \in Receipting \/ thread'[u].back = "rload" =>
                     Read(thread'[u].rid) \/ thread'[u].rid = m.id
                /\ thread'[u].msg.kind = "text" /\ thread'[u].rid \in Nat
            BY <1>2, <1>3, <1>4, <3>1, <3>2 DEF ChannelInv, ReceiptsAreRead
        <3>4. \A x \in relay' : x.from = Mobile /\ x.kind = "receipt" => Read(x.id) /\ x.id \in Nat
            BY <2>1 DEF ChannelInv, ReceiptsAreRead, TypeInv, TypeOK, Blob, BlobsOf
        <3> QED BY <2>2, <3>3, <3>4 DEF ReceiptsAreRead
    <2> QED BY <2>3, <2>4, <2>5 DEF ChannelInv
<1> QED BY <1>5, <1>6

LEMMA ClientChannel ==
    ASSUME TypeInv, StoredInv, ChannelInv, NEW t \in Thread, Client(t)
    PROVE  ChannelInv'
<1> USE DEF store, history
<1>a. /\ thread[t] \in Process /\ thread[t].back \in Back
      /\ texts \in [End -> Nat] /\ Mobile \in End /\ Peer \in End /\ Mobile # Peer
    BY ProcessFacts, MobileAssumption DEF TypeInv, TypeOK, End
<1>b. /\ thread[t].pc \in Receipting \/ thread[t].back = "rload" => Read(thread[t].rid)
      /\ thread[t].msg.kind = "text"
    BY DEF ChannelInv, ReceiptsAreRead
<1>I. /\ Idle.pc = "idle" /\ Idle.back = "idle" /\ Idle.msg.kind = "text" /\ Idle \in Process
    BY Constants DEF Idle, NoBlob
\* The thread goes to p, the relays hold what they held, and texts of the client at most.
<1>k. ASSUME NEW from, NEW p, Goes(t, from, p),
             UNCHANGED <<inbound, delivered, relay>>, texts'[Peer] = texts[Peer],
             p.pc \in Receipting \/ p.back = "rload" => Read(p.rid), p.msg.kind = "text"
      PROVE  ChannelInv'
    BY <1>k, ChannelKept
<1>1. CASE SaveRow(t)
    <2> DEFINE q == [thread[t] EXCEPT !.pc = "kv"]
    <2>1. q.pc = "kv" /\ q.back = thread[t].back /\ q.rid = thread[t].rid /\ q.msg = thread[t].msg
        BY <1>a DEF Process
    <2>2. Goes(t, "row", q) /\ UNCHANGED <<inbound, delivered, relay, texts>>
        BY <1>1 DEF SaveRow
    <2> HIDE DEF q
    <2> QED BY <1>b, <1>k, <2>1, <2>2 DEF Receipting
<1>2. CASE SaveCopy(t)
    <2> DEFINE q == [thread[t] EXCEPT !.pc = thread[t].back, !.back = "idle"]
    <2>1. /\ q.pc = thread[t].back /\ q.back = "idle" /\ q.rid = thread[t].rid
          /\ q.msg = thread[t].msg
        BY <1>a DEF Process
    <2>2. Goes(t, "kv", q) /\ UNCHANGED <<inbound, delivered, relay, texts>>
        BY <1>2 DEF SaveCopy
    <2> HIDE DEF q
    <2> QED BY <1>a, <1>b, <1>k, <2>1, <2>2 DEF Receipting, Back
<1>3. CASE Finish(t)
    <2> DEFINE q == [Idle EXCEPT !.pc = "row", !.back = "clear", !.mem = Paired]
    <2>1. q.pc = "row" /\ q.back = "clear" /\ q.msg.kind = "text"
        BY DEF Idle, NoBlob
    <2>2. Goes(t, "idle", q) /\ UNCHANGED <<inbound, delivered, relay, texts>>
        BY <1>3 DEF Finish
    <2> HIDE DEF q
    <2> QED BY <1>k, <2>1, <2>2 DEF Receipting
<1>15. CASE SendLoad(t)
    <2> DEFINE q == [Idle EXCEPT !.pc = "commit", !.mem = Loaded]
    <2>1. q.pc = "commit" /\ q.back = "idle" /\ q.msg.kind = "text"
        BY DEF Idle, NoBlob
    <2>2. Goes(t, "idle", q) /\ UNCHANGED <<inbound, delivered, relay, texts>>
        BY <1>15 DEF SendLoad
    <2> HIDE DEF q
    <2> QED BY <1>k, <2>1, <2>2 DEF Receipting
<1>16. CASE FetchBegin(t)
    <2> DEFINE q == [Idle EXCEPT !.pc = "poll", !.mem = Loaded]
    <2>1. q.pc = "poll" /\ q.back = "idle" /\ q.msg.kind = "text"
        BY DEF Idle, NoBlob
    <2>2. Goes(t, "idle", q) /\ UNCHANGED <<inbound, delivered, relay, texts>>
        BY <1>16 DEF FetchBegin
    <2> HIDE DEF q
    <2> QED BY <1>k, <2>1, <2>2 DEF Receipting
<1>17. CASE Collect(t)
    <2>1. PICK w \in SUBSET {m \in relay : m.from = Peer /\ m.seq > thread[t].mem.last_recv_seq} :
            Goes(t, "poll", [thread[t] EXCEPT !.pc = "drain", !.queue = w])
        BY <1>17 DEF Collect
    <2> DEFINE q == [thread[t] EXCEPT !.pc = "drain", !.queue = w]
    <2>2. q.pc = "drain" /\ q.back = thread[t].back /\ q.rid = thread[t].rid /\ q.msg = thread[t].msg
        BY <1>a DEF Process
    <2>3. Goes(t, "poll", q) /\ UNCHANGED <<inbound, delivered, relay, texts>>
        BY <1>17, <2>1 DEF Collect
    <2> HIDE DEF q
    <2> QED BY <1>b, <1>k, <2>2, <2>3 DEF Receipting
<1>18. CASE NextTag(t)
    <2> DEFINE q == [thread[t] EXCEPT !.pc = "poll", !.queue = {}]
    <2>1. q.pc = "poll" /\ q.back = thread[t].back /\ q.rid = thread[t].rid /\ q.msg = thread[t].msg
        BY <1>a DEF Process
    <2>2. Goes(t, "drain", q) /\ UNCHANGED <<inbound, delivered, relay, texts>>
        BY <1>18 DEF NextTag
    <2> HIDE DEF q
    <2> QED BY <1>b, <1>k, <2>1, <2>2 DEF Receipting
<1>4. CASE FinishClear(t) \/ FetchEnd(t)
    <2>1. PICK from : Goes(t, from, Idle) /\ UNCHANGED <<inbound, delivered, relay, texts>>
        BY <1>4 DEF FinishClear, FetchEnd
    <2> QED BY <1>I, <1>k, <2>1 DEF Receipting
<1>5. CASE SendCommit(t)
    <2> DEFINE m == [from |-> Mobile, kind |-> "text", seq |-> thread[t].mem.next_send_seq,
                     id |-> texts[Mobile] + 1]
               q == [thread[t] EXCEPT !.pc = "kv", !.back = "post",
                                      !.mem = Taken(thread[t].mem), !.msg = m]
    <2>1. q.pc = "kv" /\ q.back = "post" /\ q.msg.kind = "text"
        BY <1>a DEF Process
    <2>2. Goes(t, "commit", q) /\ UNCHANGED <<inbound, delivered, relay>>
        BY <1>5 DEF SendCommit
    <2>3. texts'[Peer] = texts[Peer]
        BY <1>5, <1>a DEF SendCommit
    <2> HIDE DEF q
    <2> QED BY <1>k, <2>1, <2>2, <2>3 DEF Receipting
<1>6. CASE SendPost(t)
    <2>1. /\ Goes(t, "post", Idle) /\ UNCHANGED <<inbound, delivered, texts>>
          /\ relay' = relay \/ relay' = relay \cup {thread[t].msg}
        BY <1>6 DEF SendPost
    <2>2. thread[t].msg.from = Mobile
        BY ProcessFacts DEF TypeInv, BlobsOf
    <2>3. /\ relay \subseteq relay' /\ \A m \in relay' : m.from = Peer => m \in relay
          /\ \A m \in relay' : m.from = Mobile /\ m.kind = "receipt" => m \in relay \/ Read(m.id)
        BY <1>a, <1>b, <2>1, <2>2
    <2> QED BY <1>I, <2>1, <2>3, ChannelKept DEF Receipting
<1>7. CASE AcceptText(t)
    BY <1>7, AcceptTextChannel
<1>8. CASE AcceptSaved(t)
    <2>1. PICK m \in Acceptable(t) :
            Goes(t, "drain", [thread[t] EXCEPT !.pc = "row", !.back = "drain",
                               !.mem = Accepted(@, m), !.queue = @ \ {m}])
        BY <1>8 DEF AcceptSaved
    <2> DEFINE q == [thread[t] EXCEPT !.pc = "row", !.back = "drain",
                               !.mem = Accepted(@, m), !.queue = @ \ {m}]
    <2>2. q.pc = "row" /\ q.back = "drain" /\ q.msg = thread[t].msg
        BY <1>a DEF Process
    <2>3. Goes(t, "drain", q) /\ UNCHANGED <<inbound, delivered, relay, texts>>
        BY <1>8, <2>1 DEF AcceptSaved
    <2> HIDE DEF q
    <2> QED BY <1>b, <1>k, <2>2, <2>3 DEF Receipting
<1>9. CASE AcceptPresence(t)
    <2>1. PICK m \in Acceptable(t) :
            Goes(t, "drain", [thread[t] EXCEPT !.mem = Accepted(@, m), !.queue = @ \ {m}])
        BY <1>9 DEF AcceptPresence
    <2> DEFINE q == [thread[t] EXCEPT !.mem = Accepted(@, m), !.queue = @ \ {m}]
    <2>2. q.pc = thread[t].pc /\ q.back = thread[t].back /\ q.rid = thread[t].rid
          /\ q.msg = thread[t].msg
        BY <1>a DEF Process
    <2>3. Goes(t, "drain", q) /\ UNCHANGED <<inbound, delivered, relay, texts>>
        BY <1>9, <2>1 DEF AcceptPresence
    <2> HIDE DEF q
    <2> QED BY <1>b, <1>k, <2>2, <2>3
<1>10. CASE Merge(t)
    <2> DEFINE q == [thread[t] EXCEPT !.pc = "row", !.back = "drain", !.rid = 0,
                       !.rmem = NoContact, !.mem.next_send_seq = Loaded.next_send_seq]
    <2>1. q.pc = "row" /\ q.back = "drain" /\ q.msg = thread[t].msg
        BY <1>a DEF Process
    <2>2. Goes(t, "merge", q) /\ UNCHANGED <<inbound, delivered, relay, texts>>
        BY <1>10 DEF Merge
    <2> HIDE DEF q
    <2> QED BY <1>b, <1>k, <2>1, <2>2 DEF Receipting
<1>11. CASE ReceiptLoad(t)
    <2> DEFINE q == [thread[t] EXCEPT !.pc = "rsave", !.rmem = row]
    <2>1. q.rid = thread[t].rid /\ q.msg = thread[t].msg
        BY <1>a DEF Process
    <2>2. /\ Goes(t, "rload", q) /\ UNCHANGED <<inbound, delivered, relay, texts>>
          /\ thread[t].pc = "rload"
        BY <1>11 DEF ReceiptLoad, Goes
    <2> HIDE DEF q
    <2> QED BY <1>b, <1>k, <2>1, <2>2 DEF Receipting
<1>12. CASE ReceiptSave(t) \/ ReceiptUndo(t)
    <2>1. PICK from \in {"rsave", "rundo"}, to \in {"rpost", "rqueue"},
               c \in {Taken(thread[t].rmem), Untaken(thread[t].rmem)} :
            ReceiptPersist(t, from, to, c)
        BY <1>12 DEF ReceiptSave, ReceiptUndo
    <2> DEFINE q == [thread[t] EXCEPT !.pc = to, !.rmem = c]
    <2>2. q.rid = thread[t].rid /\ q.msg = thread[t].msg
        BY <1>a DEF Process
    <2>3. /\ Goes(t, from, q) /\ UNCHANGED <<inbound, delivered, relay, texts>>
          /\ thread[t].pc = from
        BY <2>1 DEF ReceiptPersist, Goes
    <2> HIDE DEF q
    <2> QED BY <1>b, <1>k, <2>2, <2>3 DEF Receipting
<1>13. CASE ReceiptPost(t)
    <2> DEFINE r == [from |-> Mobile, kind |-> "receipt", id |-> thread[t].rid,
                     seq |-> thread[t].rmem.next_send_seq - 1]
    <2>1. PICK o : /\ Goes(t, "rpost", [thread[t] EXCEPT !.pc = AfterReceiptPost(o)])
                   /\ relay' = relay \/ relay' = relay \cup {r}
        BY <1>13 DEF ReceiptPost
    <2> DEFINE q == [thread[t] EXCEPT !.pc = AfterReceiptPost(o)]
    <2>2. q.rid = thread[t].rid /\ q.msg = thread[t].msg
        BY <1>a DEF Process
    <2>3. Goes(t, "rpost", q) /\ thread[t].pc = "rpost" /\ UNCHANGED <<inbound, delivered, texts>>
        BY <1>13, <2>1 DEF ReceiptPost, Goes
    <2>4. Read(thread[t].rid)
        BY <1>b, <2>3 DEF Receipting
    <2>5. r.from = Mobile /\ r.id = thread[t].rid
        OBVIOUS
    <2> HIDE DEF q, r
    <2>6. /\ relay \subseteq relay' /\ \A m \in relay' : m.from = Peer => m \in relay
          /\ \A m \in relay' : m.from = Mobile /\ m.kind = "receipt" => m \in relay \/ Read(m.id)
        BY <1>a, <2>1, <2>4, <2>5
    <2> QED BY <1>b, <2>2, <2>3, <2>4, <2>6, ChannelKept
<1>14. CASE ReceiptEnd(t)
    <2>1. PICK from \in {"rdone", "rqueue"} : Goes(t, from, [thread[t] EXCEPT !.pc = "merge"])
        BY <1>14 DEF ReceiptEnd
    <2> DEFINE q == [thread[t] EXCEPT !.pc = "merge"]
    <2>2. q.back = thread[t].back /\ q.rid = thread[t].rid /\ q.msg = thread[t].msg
          /\ q.pc = "merge"
        BY <1>a DEF Process
    <2>3. Goes(t, from, q) /\ UNCHANGED <<inbound, delivered, relay, texts>>
        BY <1>14, <2>1 DEF ReceiptEnd
    <2> HIDE DEF q
    <2> QED BY <1>b, <1>k, <2>2, <2>3 DEF Receipting
<1> QED BY <1>1, <1>2, <1>3, <1>4, <1>5, <1>6, <1>7, <1>8, <1>9, <1>10, <1>11, <1>12, <1>13,
           <1>14, <1>15, <1>16, <1>17, <1>18 DEF Client

\* The peer's next message, a text or not.
LEMMA PeerSendsChannel ==
    ASSUME TypeInv, StoredInv, ChannelInv, NEW kind \in {"text", "receipt", "profile", "presence"},
           NEW id \in Nat, PeerSends(kind, id), texts' \in [End -> Nat],
           \/ kind # "text" /\ texts' = texts
           \/ kind = "text" /\ id = texts[Peer] + 1 /\ texts'[Peer] = texts[Peer] + 1
    PROVE  ChannelInv'
<1> DEFINE b == [from |-> Peer, kind |-> kind, seq |-> peer_seq, id |-> id]
<1>1. relay' = relay \cup {b} /\ UNCHANGED <<inbound, thread, delivered>>
    BY DEF PeerSends, store
<1>2. /\ peer_seq \in Nat /\ \A m \in relay : m.seq \in Nat /\ m.id \in Nat
      /\ texts[Peer] \in Nat /\ Mobile # Peer /\ \A r \in inbound : r.seq \in Nat /\ r.id \in Nat
    BY MobileAssumption DEF TypeInv, TypeOK, Blob, BlobsOf, End, Row
<1>3. b.from = Peer /\ b.seq = peer_seq /\ b.kind = kind /\ b.id = id
    OBVIOUS
<1> HIDE DEF b
<1>4. \A m \in relay : m.from = Peer => m.seq < peer_seq
    BY DEF StoredInv, PeerNumbers
<1>5. TextsNumbered'
    <2>1. CASE kind # "text"
        <3>1. PeerTexts' = PeerTexts
            BY <1>1, <1>3, <2>1 DEF PeerTexts
        <3> QED BY <2>1, <3>1 DEF ChannelInv, TextsNumbered
    <2>2. CASE kind = "text"
        <3>1. PeerTexts' = PeerTexts \cup {b}
            BY <1>1, <1>3, <2>2 DEF PeerTexts
        <3>2. \A m \in PeerTexts : m.id \in 1 .. texts[Peer] /\ m.seq < peer_seq /\ m.seq \in Nat
            BY <1>2, <1>4 DEF ChannelInv, TextsNumbered, PeerTexts
        <3>3. id = texts[Peer] + 1 /\ texts'[Peer] = texts[Peer] + 1
            BY <2>2
        <3>4. \A m \in PeerTexts' : m.id \in 1 .. texts'[Peer]
            BY <1>2, <1>3, <3>1, <3>2, <3>3
        <3>5. ASSUME NEW m \in PeerTexts', NEW x \in PeerTexts', m.seq < x.seq
              PROVE  m.id < x.id
            <4>1. CASE m \in PeerTexts /\ x \in PeerTexts
                BY <3>5, <4>1 DEF ChannelInv, TextsNumbered
            <4>2. CASE m = b
                BY <1>2, <1>3, <3>1, <3>2, <3>5, <4>2
            <4>3. CASE m \in PeerTexts /\ x = b
                BY <1>2, <1>3, <3>2, <3>3, <4>3
            <4> QED BY <3>1, <4>1, <4>2, <4>3
        <3> QED BY <3>4, <3>5 DEF TextsNumbered
    <2> QED BY <2>1, <2>2
<1>6. RowsRead'
    <2>1. \A r \in inbound : r.seq < peer_seq
        BY DEF StoredInv, RowsAreTexts, PeerNumbers
    <2>2. \A r \in inbound : StoredUpTo(r.seq) => StoredUpTo(r.seq)'
        BY <1>1, <1>2, <1>3, <2>1 DEF StoredUpTo
    <2>3. \A n : Read(n)' <=> Read(n)
        BY <1>1 DEF Read
    <2> QED BY <1>1, <2>2, <2>3 DEF ChannelInv, RowsRead
<1>7. ReceiptsAreRead'
    BY <1>1, <1>2, <1>3 DEF ChannelInv, ReceiptsAreRead, Read
<1> QED BY <1>5, <1>6, <1>7 DEF ChannelInv

LEMMA NextChannel == TypeInv /\ StoredInv /\ ChannelInv /\ [Next]_vars => ChannelInv'
<1> SUFFICES ASSUME TypeInv, StoredInv, ChannelInv, [Next]_vars PROVE ChannelInv'
    OBVIOUS
<1>0. texts' \in [End -> Nat] /\ texts \in [End -> Nat] /\ Peer \in End
    BY NextTyped DEF TypeInv, TypeOK, End
<1>1. ASSUME NEW t \in Thread, Client(t) PROVE ChannelInv'
    BY <1>1, ClientChannel
<1>2. CASE PeerText
    <2>1. texts[Peer] + 1 \in Nat /\ texts'[Peer] = texts[Peer] + 1
        BY <1>0, <1>2 DEF PeerText
    <2> QED BY <1>0, <1>2, <2>1, PeerSendsChannel DEF PeerText
<1>3. CASE PeerPush
    <2>1. PICK kind \in Pushes : PeerSends(kind, 0)
        BY <1>3 DEF PeerPush
    <2>2. kind \in {"profile", "presence"} /\ texts' = texts
        BY <1>3, MobileAssumption DEF PeerPush
    <2> QED BY <1>0, <2>1, <2>2, PeerSendsChannel
<1>4. CASE PeerReceipt
    <2>1. PICK m \in relay : PeerSends("receipt", m.id)
        BY <1>4 DEF PeerReceipt
    <2>2. m.id \in Nat /\ texts' = texts
        BY <1>4 DEF PeerReceipt, TypeInv, TypeOK, Blob, BlobsOf
    <2> QED BY <1>0, <2>1, <2>2, PeerSendsChannel
<1>5. CASE Kill
    <2>1. /\ \A t \in Thread : thread'[t] = Idle
          /\ UNCHANGED <<relay, inbound, texts, delivered>>
        BY <1>5 DEF Kill, store, history
    <2>2. Idle.pc = "idle" /\ Idle.back = "idle" /\ Idle.msg.kind = "text"
        BY DEF Idle, NoBlob
    <2> QED BY <2>1, <2>2 DEF ChannelInv, TextsNumbered, PeerTexts, RowsRead, StoredUpTo,
                              ReceiptsAreRead, Receipting, Read
<1>6. CASE UNCHANGED vars
    BY <1>6 DEF vars, store, history, ChannelInv, TextsNumbered, PeerTexts, RowsRead, StoredUpTo,
                ReceiptsAreRead, Receipting, Read
<1> QED BY <1>1, <1>2, <1>3, <1>4, <1>5, <1>6 DEF Next

LEMMA InitChannel == Init => ChannelInv
BY DEF Init, ChannelInv, TextsNumbered, PeerTexts, RowsRead, StoredUpTo, Read,
       ReceiptsAreRead, Receipting, Idle, NoBlob

\* The texts the peer has a receipt of, at a relay or with it.
Acks == {m.id : m \in {r \in relay : r.from = Mobile /\ r.kind = "receipt"}}

\* What the steps of the client are to the channel.
Stays == texts'[Peer] = texts[Peer] /\ delivered' = delivered /\ Acks' = Acks
Submits == texts'[Peer] = texts[Peer] + 1 /\ delivered' = delivered /\ Acks' = Acks
Delivers ==
    /\ \E n \in 1 .. texts[Peer] :
         /\ \A i \in 1 .. Len(delivered) : delivered[i] < n
         /\ delivered' = Append(delivered, n)
    /\ texts'[Peer] = texts[Peer] /\ Acks' = Acks
Acknowledges ==
    /\ \E i \in 1 .. Len(delivered) : Acks' = Acks \cup {delivered[i]}
    /\ texts'[Peer] = texts[Peer] /\ delivered' = delivered

LEMMA PeerStep ==
    ASSUME TypeInv, PeerText \/ PeerPush \/ PeerReceipt
    PROVE  Stays \/ Submits
<1>1. Mobile # Peer /\ texts \in [End -> Nat] /\ Peer \in End
    BY MobileAssumption DEF TypeInv, TypeOK, End
<1>2. PICK kind, id : PeerSends(kind, id)
    BY DEF PeerText, PeerPush, PeerReceipt
<1>3. Acks' = Acks /\ delivered' = delivered
    <2> DEFINE b == [from |-> Peer, kind |-> kind, seq |-> peer_seq, id |-> id]
    <2>1. relay' = relay \cup {b} /\ b.from # Mobile /\ delivered' = delivered
        BY <1>1, <1>2 DEF PeerSends
    <2> HIDE DEF b
    <2> QED BY <2>1 DEF Acks
<1>4. texts'[Peer] = texts[Peer] \/ texts'[Peer] = texts[Peer] + 1
    BY <1>1 DEF PeerText, PeerPush, PeerReceipt
<1> QED BY <1>3, <1>4 DEF Stays, Submits

LEMMA AcceptTextStep ==
    ASSUME TypeInv, StoredInv, ChannelInv, NEW t \in Thread, AcceptText(t)
    PROVE  Stays \/ Delivers
<1>1. PICK m \in Acceptable(t) :
        /\ m.kind = "text" /\ UNCHANGED <<relay, texts>>
        /\ IF IsNew(m) THEN delivered' = Append(delivered, m.id)
                       ELSE UNCHANGED delivered
    BY DEF AcceptText
<1>2. Acks' = Acks /\ texts'[Peer] = texts[Peer]
    BY <1>1 DEF Acks
<1>3. CASE ~ IsNew(m)
    BY <1>1, <1>2, <1>3 DEF Stays
<1>4. CASE IsNew(m)
    <2>1. m.id \in 1 .. texts[Peer] /\ \A n \in Nat : Read(n) => n < m.id
        BY <1>1, <1>4, NewTextIsLater
    <2>2. \A i \in 1 .. Len(delivered) : delivered[i] \in Nat /\ Read(delivered[i])
        BY DEF TypeInv, TypeOK, Read
    <2>3. \A i \in 1 .. Len(delivered) : delivered[i] < m.id
        BY <2>1, <2>2
    <2> QED BY <1>1, <1>2, <1>4, <2>1, <2>3 DEF Delivers
<1> QED BY <1>3, <1>4

LEMMA ReceiptPostStep ==
    ASSUME TypeInv, StoredInv, ChannelInv, NEW t \in Thread, ReceiptPost(t)
    PROVE  Stays \/ Acknowledges
<1> DEFINE r == [from |-> Mobile, kind |-> "receipt", id |-> thread[t].rid,
                 seq |-> thread[t].rmem.next_send_seq - 1]
<1>1. relay' = relay \/ relay' = relay \cup {r}
    BY DEF ReceiptPost
<1>2. /\ texts'[Peer] = texts[Peer] /\ delivered' = delivered /\ thread[t].pc = "rpost"
    BY DEF ReceiptPost, Goes, history
<1>3. PICK i \in 1 .. Len(delivered) : delivered[i] = thread[t].rid
    BY <1>2 DEF ChannelInv, ReceiptsAreRead, Receipting, Read
<1>4. r.from = Mobile /\ r.kind = "receipt" /\ r.id = thread[t].rid
    OBVIOUS
<1> HIDE DEF r
<1>5. CASE relay' = relay
    BY <1>2, <1>5 DEF Stays, Acks
<1>6. CASE relay' = relay \cup {r}
    <2>1. Acks' = Acks \cup {delivered[i]}
        BY <1>3, <1>4, <1>6 DEF Acks
    <2> QED BY <1>2, <2>1 DEF Acknowledges
<1> QED BY <1>1, <1>5, <1>6

LEMMA QuietStep ==
    ASSUME TypeInv, StoredInv, ChannelInv, NEW t \in Thread, Client(t),
           ~ AcceptText(t), ~ ReceiptPost(t)
    PROVE  Stays
<1> USE DEF store, history
<1>1. Mobile # Peer /\ texts \in [End -> Nat] /\ Mobile \in End /\ Peer \in End
    BY MobileAssumption DEF TypeInv, TypeOK, End
<1>2. CASE SendCommit(t)
    <2>1. texts'[Peer] = texts[Peer] /\ UNCHANGED <<delivered, relay>>
        BY <1>1, <1>2 DEF SendCommit
    <2> QED BY <2>1 DEF Stays, Acks
<1>3. CASE SendPost(t)
    <2>1. thread[t].msg.kind = "text"
        BY DEF ChannelInv, ReceiptsAreRead
    <2>2. UNCHANGED <<texts, delivered>>
          /\ (relay' = relay \/ relay' = relay \cup {thread[t].msg})
        BY <1>3 DEF SendPost
    <2> QED BY <2>1, <2>2 DEF Stays, Acks
<1>4. CASE ~ SendCommit(t) /\ ~ SendPost(t)
    <2>1. UNCHANGED <<relay, texts, delivered>>
        BY <1>4 DEF Client, SaveRow, SaveCopy, Finish, FinishClear, SendLoad, FetchBegin,
               Collect, AcceptSaved, AcceptPresence, Merge, NextTag, FetchEnd, ReceiptLoad, ReceiptPersist,
               ReceiptSave, ReceiptUndo, ReceiptEnd
    <2> QED BY <2>1 DEF Stays, Acks
<1> QED BY <1>2, <1>3, <1>4

LEMMA NextSteps ==
    ASSUME TypeInv, StoredInv, ChannelInv, [Next]_vars
    PROVE  Stays \/ Submits \/ Delivers \/ Acknowledges
<1>1. ASSUME NEW t \in Thread, Client(t)
      PROVE  Stays \/ Delivers \/ Acknowledges
    BY <1>1, AcceptTextStep, ReceiptPostStep, QuietStep
<1>2. CASE PeerText \/ PeerPush \/ PeerReceipt
    BY <1>2, PeerStep
<1>3. CASE Kill \/ UNCHANGED vars
    BY <1>3 DEF Kill, vars, history, Stays, Acks
<1> QED BY <1>1, <1>2, <1>3 DEF Next

\* The channel's variables, from the peer's texts, the rows and the receipts.
LEMMA ViewNow ==
    ASSUME TypeInv
    PROVE  /\ [texts EXCEPT ![Mobile] = 0]
                = [e \in End |-> IF e = Mobile THEN 0 ELSE texts[Peer]]
           /\ [e \in End |-> {m.id : m \in {r \in relay :
                 e = Peer /\ r.from = Mobile /\ r.kind = "receipt"}}]
                = [e \in End |-> IF e = Peer THEN Acks ELSE {}]
<1>1. texts \in [End -> Nat] /\ \A e \in End : e = Mobile \/ e = Peer
    BY DEF TypeInv, TypeOK, End
<1>2. ASSUME NEW e \in End
      PROVE  {m.id : m \in {r \in relay : e = Peer /\ r.from = Mobile /\ r.kind = "receipt"}}
               = IF e = Peer THEN Acks ELSE {}
    BY DEF Acks
<1> QED BY <1>1, <1>2

LEMMA ViewNext ==
    ASSUME TypeInv'
    PROVE  /\ [texts' EXCEPT ![Mobile] = 0]
                = [e \in End |-> IF e = Mobile THEN 0 ELSE texts'[Peer]]
           /\ [e \in End |-> {m.id : m \in {r \in relay' :
                 e = Peer /\ r.from = Mobile /\ r.kind = "receipt"}}]
                = [e \in End |-> IF e = Peer THEN Acks' ELSE {}]
<1>1. texts' \in [End -> Nat] /\ \A e \in End : e = Mobile \/ e = Peer
    BY DEF TypeInv, TypeOK, End
<1>2. ASSUME NEW e \in End
      PROVE  {m.id : m \in {r \in relay' : e = Peer /\ r.from = Mobile /\ r.kind = "receipt"}}
               = IF e = Peer THEN Acks' ELSE {}
    BY DEF Acks
<1> QED BY <1>1, <1>2

LEMMA SubmitStep ==
    ASSUME TypeInv, TypeInv', Submits
    PROVE  Inbox!Submit(Peer)
<1>1. Peer \in End /\ Mobile # Peer /\ texts[Peer] \in Nat
    BY MobileAssumption DEF TypeInv, TypeOK, End
<1>2. [texts EXCEPT ![Mobile] = 0]' = [[texts EXCEPT ![Mobile] = 0] EXCEPT ![Peer] = @ + 1]
    <2>1. [texts EXCEPT ![Mobile] = 0] = [e \in End |-> IF e = Mobile THEN 0 ELSE texts[Peer]]
        BY ViewNow
    <2>2. [texts' EXCEPT ![Mobile] = 0] = [e \in End |-> IF e = Mobile THEN 0 ELSE texts'[Peer]]
        BY ViewNext
    <2>3. texts'[Peer] = texts[Peer] + 1 /\ \A e \in End : e = Mobile \/ e = Peer
        BY DEF Submits, End
    <2> QED BY <1>1, <2>1, <2>2, <2>3
<1>3. /\ [e \in End |-> IF e = Mobile THEN delivered' ELSE <<>>]
           = [e \in End |-> IF e = Mobile THEN delivered ELSE <<>>]
      /\ [e \in End |-> {m.id : m \in {r \in relay' :
               e = Peer /\ r.from = Mobile /\ r.kind = "receipt"}}]
           = [e \in End |-> {m.id : m \in {r \in relay :
               e = Peer /\ r.from = Mobile /\ r.kind = "receipt"}}]
    BY ViewNow, ViewNext DEF Submits
<1> QED BY <1>2, <1>3 DEF Inbox!Submit

LEMMA StaysStep ==
    ASSUME TypeInv, TypeInv', Stays
    PROVE  UNCHANGED Inbox!channel
<1>1. [texts' EXCEPT ![Mobile] = 0] = [texts EXCEPT ![Mobile] = 0]
    <2>1. \A e \in End : e = Mobile \/ e = Peer
        BY DEF End
    <2> QED BY <2>1, ViewNow, ViewNext DEF Stays
<1> QED BY <1>1, ViewNow, ViewNext DEF Stays, Inbox!channel

LEMMA DeliverStep ==
    ASSUME TypeInv, TypeInv', Delivers
    PROVE  Inbox!Deliver(Mobile)
<1> DEFINE d == [e \in End |-> IF e = Mobile THEN delivered ELSE <<>>]
<1>1. PICK n \in 1 .. texts[Peer] :
        /\ \A i \in 1 .. Len(delivered) : delivered[i] < n
        /\ delivered' = Append(delivered, n)
    BY DEF Delivers
<1>2. d[Mobile] = delivered /\ Mobile \in End /\ Inbox!Other(Mobile) = Peer
    BY DEF Inbox!Other, End
<1>3. [texts EXCEPT ![Mobile] = 0][Peer] = texts[Peer]
    BY MobileAssumption DEF TypeInv, TypeOK, End
<1>4. d' = [d EXCEPT ![Mobile] = Append(@, n)]
    BY <1>1, <1>2
<1>5. UNCHANGED <<[texts EXCEPT ![Mobile] = 0],
                  [e \in End |-> {m.id : m \in {r \in relay :
                     e = Peer /\ r.from = Mobile /\ r.kind = "receipt"}}]>>
    BY ViewNow, ViewNext DEF Delivers
<1> QED BY <1>1, <1>2, <1>3, <1>4, <1>5 DEF Inbox!Deliver

LEMMA AcknowledgeStep ==
    ASSUME TypeInv, TypeInv', Acknowledges
    PROVE  Inbox!Acknowledge(Peer)
<1> DEFINE d == [e \in End |-> IF e = Mobile THEN delivered ELSE <<>>]
           a == [e \in End |-> {m.id : m \in {r \in relay :
                     e = Peer /\ r.from = Mobile /\ r.kind = "receipt"}}]
<1>1. PICK i \in 1 .. Len(delivered) : Acks' = Acks \cup {delivered[i]}
    BY DEF Acknowledges
<1>2. d[Mobile] = delivered /\ Peer \in End /\ Inbox!Other(Peer) = Mobile /\ Mobile # Peer
    BY MobileAssumption DEF Inbox!Other, End
<1>3. a' = [a EXCEPT ![Peer] = @ \cup {delivered[i]}]
    BY <1>1, <1>2, ViewNow, ViewNext
<1>4. UNCHANGED <<[texts EXCEPT ![Mobile] = 0], d>>
    BY ViewNow, ViewNext DEF Acknowledges
<1>5. \E j \in 1 .. Len(d[Inbox!Other(Peer)]) :
        a' = [a EXCEPT ![Peer] = @ \cup {d[Inbox!Other(Peer)][j]}]
    BY <1>1, <1>2, <1>3
<1> HIDE DEF d, a
<1> QED BY <1>4, <1>5 DEF Inbox!Acknowledge, d, a

\* The client, with any number of threads that fetch and of kills, implements the
\* channel: what it appends to its rows is later than all of them, and what it
\* acknowledges is one of them (atomic_commit_receive_text, send_delivery_receipt).
THEOREM InboxImplemented == Spec => InboxIsChannel
<1>1. Init => Inbox!Init
    <2> SUFFICES ASSUME Init PROVE Inbox!Init
        OBVIOUS
    <2>1. [texts EXCEPT ![Mobile] = 0] = [p \in Inbox!End |-> 0]
        BY DEF Init, End, Inbox!End
    <2>2. [e \in End |-> IF e = Mobile THEN delivered ELSE <<>>] = [p \in Inbox!End |-> <<>>]
        BY DEF Init, End, Inbox!End
    <2>3. [e \in End |-> {m.id : m \in {r \in relay :
              e = Peer /\ r.from = Mobile /\ r.kind = "receipt"}}] = [p \in Inbox!End |-> {}]
        BY DEF Init, End, Inbox!End
    <2> QED BY <2>1, <2>2, <2>3 DEF Inbox!Init
<1>2. TypeInv /\ TypeInv' /\ StoredInv /\ ChannelInv /\ [Next]_vars
        => [Inbox!Next]_(Inbox!channel)
    <2> SUFFICES ASSUME TypeInv, TypeInv', StoredInv, ChannelInv, [Next]_vars
                 PROVE  [Inbox!Next]_(Inbox!channel)
        OBVIOUS
    <2>1. Mobile \in Inbox!End /\ Peer \in Inbox!End
        BY DEF Inbox!End
    <2> QED BY <2>1, NextSteps, StaysStep, SubmitStep, DeliverStep, AcknowledgeStep
            DEF Inbox!Next
<1> QED BY InitTyped, NextTyped, InitStored, NextStored, InitChannel, NextChannel, <1>1, <1>2,
           PTL DEF Spec, InboxIsChannel, Inbox!Spec
=============================================================================
