--------------------------- MODULE DeliveryProofs ---------------------------
(***************************************************************************)
(* Theorems about Delivery, for every value of its constants.  Types,      *)
(* receipts and stored texts hold whatever processes run side by side at   *)
(* however many terminals.  What needs one process of a peer at a time     *)
(* (Solo) follows: what was acknowledged was stored, Delivery implements   *)
(* TextChannel, no sequence number is lost, and, while no fetch flushes    *)
(* receipts with an older contact in hand, none is used twice.             *)
(***************************************************************************)
EXTENDS Delivery, TLAPS

\* A receipt that is being posted has taken a sequence number, so that
\* send_seq_before is a number its contact may hold again.
ReceiptTookSeq ==
    \A x \in Terminal :
        fetch[x].pc \in {"rpost", "rundo"} => fetch[x].rmem.next_send_seq \in Nat \ {0, 1}

TypeInv == TypeOK /\ ReceiptTookSeq

LEMMA PeerFacts ==
    ASSUME NEW p \in Peer
    PROVE  Other(p) \in Peer /\ Other(p) # p
BY PeersDiffer DEF Peer, Other

LEMMA BlobTypes ==
    ASSUME NEW p \in Peer, NEW s \in Nat, NEW n \in Nat
    PROVE  Text(p, s, n) \in Blob /\ Receipt(p, s, n) \in Blob /\ Aux(p, s) \in Blob
BY DEF Text, Receipt, Aux, Blob

LEMMA OwnerType ==
    ASSUME NEW x \in Terminal
    PROVE  At[x] \in Peer
BY TerminalsOfPeers

LEMMA CounterTypes ==
    ASSUME NEW c \in Contact
    PROVE  /\ c.next_send_seq \in Nat \ {0} /\ c.last_recv_seq \in Nat
           /\ Taken(c) \in Contact
           /\ Taken(c).next_send_seq = c.next_send_seq + 1
           /\ Taken(c).last_recv_seq = c.last_recv_seq
           /\ Accepted(c) \in Contact
           /\ Accepted(c).last_recv_seq = c.last_recv_seq + 1
BY DEF Taken, Accepted, Contact

LEMMA TakenType ==
    ASSUME NEW c \in [next_send_seq : Nat, last_recv_seq : Nat]
    PROVE  Taken(c) \in Contact
BY DEF Taken, Contact

LEMMA LostType ==
    ASSUME NEW m \in Blob
    PROVE  LostWith(m) \in SUBSET Nat
BY DEF LostWith, Blob

LEMMA UntakenType ==
    ASSUME NEW c \in Contact, c.next_send_seq \in Nat \ {0, 1}
    PROVE  Untaken(c) \in Contact /\ Untaken(c).last_recv_seq = c.last_recv_seq
BY DEF Untaken, Contact

LEMMA IdleTypes ==
    /\ FreshContact \in Contact /\ NoBlob \in Blob
    /\ IdleFetch \in FetchProcess /\ IdleCmd \in CommandProcess
<1>1. FreshContact \in Contact
  BY DEF FreshContact, Contact
<1>2. NoBlob \in Blob
  BY BlobTypes DEF NoBlob, Peer
<1> QED
  BY <1>1, <1>2 DEF IdleFetch, IdleCmd, FetchProcess, CommandProcess, FetchPC, CmdPC

LEMMA TypedType ==
    ASSUME NEW x \in Terminal, typed \in [DOMAIN MaxTyped -> Nat], Typing(x)
    PROVE  typed' \in [DOMAIN MaxTyped -> Nat]
BY DEF Typing

LEMMA InitTypeInv == Init => TypeInv
BY IdleTypes DEF Init, TypeInv, TypeOK, ReceiptTookSeq, IdleFetch

LEMMA CommandTypeInv ==
    ASSUME TypeInv, NEW x \in Terminal, Command(x)
    PROVE  TypeInv'
<1> USE DEF TypeInv, TypeOK, ReceiptTookSeq, store, network, counts, history
<1> USE OwnerType
<1>a. cmd[x] \in CommandProcess /\ contact[At[x]] \in Contact /\ texts[At[x]] \in Nat
  OBVIOUS
<1>b. /\ cmd[x].mem \in Contact /\ cmd[x].msg \in Blob
      /\ cmd[x].todo \in SUBSET Blob /\ cmd[x].again \in BOOLEAN
  BY <1>a DEF CommandProcess
<1>1. CASE SendLoad(x)
  BY <1>1, <1>a, TypedType DEF SendLoad, CommandProcess, CmdPC
<1>2. CASE SendCommit(x)
  <2>1. Text(At[x], cmd[x].mem.next_send_seq, texts[At[x]] + 1) \in Blob
    BY <1>a, <1>b, BlobTypes, CounterTypes
  <2>2. Taken(cmd[x].mem) \in Contact
    BY <1>b, CounterTypes
  <2>3. cmd' \in [Terminal -> CommandProcess]
    BY <1>2, <1>a, <1>b, <2>1, <2>2 DEF SendCommit, CommandProcess, CmdPC
  <2> QED
    BY <1>2, <1>a, <2>1, <2>2, <2>3 DEF SendCommit
<1>3. CASE PushLoad(x)
  BY <1>3, <1>a, TypedType DEF PushLoad, CommandProcess, CmdPC
<1>4. CASE PushCommit(x)
  <2>1. Aux(At[x], cmd[x].mem.next_send_seq) \in Blob
    BY <1>b, BlobTypes, CounterTypes
  <2>2. Taken(cmd[x].mem) \in Contact
    BY <1>b, CounterTypes
  <2>3. cmd' \in [Terminal -> CommandProcess]
    BY <1>4, <1>a, <1>b, <2>1, <2>2 DEF PushCommit, CommandProcess, CmdPC
  <2> QED
    BY <1>4, <2>2, <2>3 DEF PushCommit
<1>5. CASE CommandRefresh(x)
  BY <1>5, <1>b DEF CommandRefresh
<1>6. CASE CommandPost(x)
  <2>1. cmd' \in [Terminal -> CommandProcess]
    <3>1. PICK o \in CommandPosts : \E c \in AfterPost(x, o) : cmd' = [cmd EXCEPT ![x] = c]
      BY <1>6 DEF CommandPost
    <3>2. \A c \in AfterPost(x, o) : c \in CommandProcess
      <4>1. [cmd[x] EXCEPT !.pc = AfterResend(o)] \in CommandProcess
        BY <1>a DEF AfterResend, CommandProcess, CmdPC
      <4>2. [cmd[x] EXCEPT !.pc = "push", !.msg = NoBlob] \in CommandProcess
        BY <1>a, IdleTypes DEF CommandProcess, CmdPC
      <4> QED
        BY <4>1, <4>2, IdleTypes DEF AfterPost
    <3> QED
      BY <3>1, <3>2
  <2>2. dropped' \in [Peer -> SUBSET Nat]
    BY <1>6, <1>b, LostType DEF CommandPost
  <2> QED
    BY <1>6, <1>b, <2>1, <2>2 DEF CommandPost
<1>7. CASE ResendLoad(x)
  <2>1. cmd' \in [Terminal -> CommandProcess]
    BY <1>7, <1>a, IdleTypes DEF ResendLoad, IdleCmd, CommandProcess, CmdPC, Pending
  <2> QED
    BY <1>7, <2>1, TypedType DEF ResendLoad, Pending
<1>8. CASE ResendNext(x)
  <2>1. PICK m \in outbound_pending[At[x]] :
          cmd' = [cmd EXCEPT ![x].pc = "post", ![x].msg = m, ![x].todo = @ \ {m}]
    BY <1>8 DEF ResendNext, HasOuter
  <2>2. m \in Blob
    OBVIOUS
  <2>3. cmd' \in [Terminal -> CommandProcess]
    BY <1>a, <1>b, <2>1, <2>2 DEF CommandProcess, CmdPC
  <2> QED
    BY <1>8, <2>3 DEF ResendNext, HasOuter
<1>9. CASE ResendAnew(x)
  <2>1. PICK m \in cmd[x].todo \ outbound_pending[At[x]] :
          LET mem == Taken([cmd[x].mem EXCEPT !.next_send_seq = m.seq])
              new == Text(At[x], m.seq, texts[At[x]] + 1)
          IN  /\ contact' = [contact EXCEPT ![At[x]] = mem]
              /\ outbound_pending' = [outbound_pending EXCEPT ![At[x]] = @ \cup {new}]
              /\ cmd' = [cmd EXCEPT ![x].pc = "post", ![x].msg = new, ![x].mem = mem,
                                    ![x].todo = @ \ {m}]
    BY <1>9 DEF ResendAnew, HasOuter
  <2> DEFINE mem == Taken([cmd[x].mem EXCEPT !.next_send_seq = m.seq])
             new == Text(At[x], m.seq, texts[At[x]] + 1)
  <2>2. m.seq \in Nat
    BY <1>b DEF Blob
  <2>3. new \in Blob
    BY <1>a, <2>2, BlobTypes
  <2>4. mem \in Contact
    <3>1. [cmd[x].mem EXCEPT !.next_send_seq = m.seq] \in [next_send_seq : Nat, last_recv_seq : Nat]
      BY <1>b, <2>2 DEF Contact
    <3> QED
      BY <3>1, TakenType
  <2> HIDE DEF mem, new
  <2>5. cmd' \in [Terminal -> CommandProcess]
    BY <1>a, <1>b, <2>1, <2>3, <2>4 DEF CommandProcess, CmdPC, mem, new
  <2>6. contact' \in [Peer -> Contact] /\ outbound_pending' \in [Peer -> SUBSET Blob]
    BY <2>1, <2>3, <2>4 DEF mem, new
  <2>7. /\ UNCHANGED <<pending_receipts, inbound, network, fetch, counts, delivered, acked, dropped>>
        /\ texts' \in [Peer -> Nat]
    BY <1>9, <1>a DEF ResendAnew, HasOuter
  <2> QED
    BY <2>5, <2>6, <2>7
<1>10. CASE ResendMark(x)
  BY <1>10, <1>a, IdleTypes DEF ResendMark, CommandProcess, CmdPC
<1>11. CASE ResendEnd(x)
  BY <1>11, IdleTypes DEF ResendEnd
<1>12. CASE CommandFailover(x)
  BY <1>12, <1>b DEF CommandFailover
<1> QED
  BY <1>1, <1>2, <1>3, <1>4, <1>5, <1>6, <1>7, <1>8, <1>9, <1>10, <1>11, <1>12 DEF Command

\* Typing of the fetch process: the fields of one peer's record.
LEMMA FetchFields ==
    ASSUME TypeInv, NEW x \in Terminal
    PROVE  /\ contact[At[x]] \in Contact
           /\ fetch[x] \in FetchProcess
           /\ fetch[x].mem \in Contact /\ fetch[x].rmem \in Contact
           /\ fetch[x].queue \in SUBSET Blob /\ fetch[x].todo \in SUBSET Nat
           /\ fetch[x].rid \in Nat
           /\ fetch[x].pc \in {"rpost", "rundo"} => ReceiptOf(x) \in Blob
<1> USE OwnerType
<1>1. /\ contact[At[x]] \in Contact
      /\ fetch[x] \in FetchProcess
      /\ fetch[x].mem \in Contact /\ fetch[x].rmem \in Contact
      /\ fetch[x].queue \in SUBSET Blob /\ fetch[x].todo \in SUBSET Nat
      /\ fetch[x].rid \in Nat
  BY DEF TypeInv, TypeOK, FetchProcess
<1>2. ASSUME fetch[x].pc \in {"rpost", "rundo"}
      PROVE  ReceiptOf(x) \in Blob
  <2>1. fetch[x].rmem.next_send_seq - 1 \in Nat
    BY <1>1 DEF Contact
  <2> QED
    BY <1>1, <2>1, BlobTypes DEF ReceiptOf
<1> QED
  BY <1>1, <1>2

LEMMA ReturnedType ==
    ASSUME NEW f \in FetchProcess
    PROVE  /\ Returned(f) \in FetchProcess
           /\ Returned(f).pc \in {"merge", "flush"}
BY IdleTypes DEF Returned, FetchProcess, FetchPC

LEMMA SendReceiptTypeInv ==
    ASSUME TypeInv, NEW x \in Terminal, SendReceipt(x)
    PROVE  TypeInv'
<1> USE OwnerType
<1>a. /\ contact[At[x]] \in Contact
      /\ fetch[x] \in FetchProcess
      /\ fetch[x].mem \in Contact /\ fetch[x].rmem \in Contact
      /\ fetch[x].queue \in SUBSET Blob /\ fetch[x].todo \in SUBSET Nat
      /\ fetch[x].rid \in Nat
      /\ fetch[x].pc \in {"rpost", "rundo"} => ReceiptOf(x) \in Blob
  BY FetchFields
<1> USE <1>a DEF TypeInv, TypeOK, ReceiptTookSeq, store, network, counts, history
<1>1. CASE ReceiptLoad(x)
  BY <1>1 DEF ReceiptLoad, FetchProcess, FetchPC
<1>2. CASE ReceiptSave(x)
  <2>1. /\ Taken(fetch[x].rmem) \in Contact
        /\ Taken(fetch[x].rmem).next_send_seq \in Nat \ {0, 1}
    <3>1. /\ fetch[x].rmem.next_send_seq \in Nat \ {0}
          /\ Taken(fetch[x].rmem) \in Contact
          /\ Taken(fetch[x].rmem).next_send_seq = fetch[x].rmem.next_send_seq + 1
      BY <1>a, CounterTypes
    <3> QED
      BY <3>1
  <2>2. fetch' \in [Terminal -> FetchProcess]
    BY <1>2, <2>1 DEF ReceiptSave, FetchProcess, FetchPC
  <2>3. fetch'[x].rmem = Taken(fetch[x].rmem) /\ \A y \in Terminal \ {x} : fetch'[y] = fetch[y]
    BY <1>2, <2>1 DEF ReceiptSave, FetchProcess
  <2> QED
    BY <1>2, <2>1, <2>2, <2>3 DEF ReceiptSave
<1>3. CASE ReceiptRefresh(x)
  BY <1>3 DEF ReceiptRefresh
<1>4. CASE ReceiptPost(x)
  <2>1. ReceiptOf(x) \in Blob
    BY <1>4 DEF ReceiptPost
  <2>2. PICK o \in ReceiptPosts : fetch' = [fetch EXCEPT ![x].pc = AfterReceiptPost(o)]
    BY <1>4 DEF ReceiptPost
  <2>3. AfterReceiptPost(o) \in FetchPC
    BY DEF AfterReceiptPost, FetchPC
  <2>4. fetch' \in [Terminal -> FetchProcess]
    BY <2>2, <2>3 DEF FetchProcess
  <2>5. ReceiptTookSeq'
    BY <1>4, <2>2 DEF ReceiptPost, FetchProcess
  <2> QED
    BY <1>4, <2>1, <2>4, <2>5 DEF ReceiptPost
<1>5. CASE ReceiptDone(x)
  BY <1>5, ReturnedType DEF ReceiptDone
<1>6. CASE ReceiptUndo(x)
  <2>1. Untaken(fetch[x].rmem) \in Contact
    BY <1>6, UntakenType DEF ReceiptUndo
  <2> QED
    BY <1>6, <2>1 DEF ReceiptUndo, FetchProcess, FetchPC
<1>7. CASE ReceiptQueue(x)
  BY <1>7, ReturnedType DEF ReceiptQueue
<1>8. CASE ReceiptFailover(x)
  <2>1. ReceiptOf(x) \in Blob
    BY <1>8 DEF ReceiptFailover
  <2>2. relay' \subseteq Blob /\ expired' \subseteq Blob
    BY <1>8, <2>1 DEF ReceiptFailover
  <2>3. UNCHANGED <<contact, outbound_pending, pending_receipts, inbound, fetch, cmd, typed,
                    crashes, auxes, texts, delivered, acked, dropped>>
    BY <1>8 DEF ReceiptFailover
  <2> QED
    BY <2>2, <2>3
<1> QED
  BY <1>1, <1>2, <1>3, <1>4, <1>5, <1>6, <1>7, <1>8 DEF SendReceipt

LEMMA FetchTypeInv ==
    ASSUME TypeInv, NEW x \in Terminal, Fetch(x)
    PROVE  TypeInv'
<1> USE OwnerType
<1>a. /\ contact[At[x]] \in Contact
      /\ fetch[x] \in FetchProcess
      /\ fetch[x].mem \in Contact /\ fetch[x].rmem \in Contact
      /\ fetch[x].queue \in SUBSET Blob /\ fetch[x].todo \in SUBSET Nat
      /\ fetch[x].rid \in Nat
  BY FetchFields
<1> USE <1>a DEF TypeInv, TypeOK, ReceiptTookSeq, store, network, counts, history
<1>1. CASE FetchBegin(x)
  <2>1. fetch' \in [Terminal -> FetchProcess]
    BY <1>1, IdleTypes, BoundsAreNat DEF FetchBegin, IdleFetch, FetchProcess, FetchPC,
        Pending, Queued
  <2>2. fetch'[x].pc = "flush" /\ \A y \in Terminal \ {x} : fetch'[y] = fetch[y]
    BY <1>1 DEF FetchBegin, IdleFetch, Pending, Queued
  <2> QED
    BY <1>1, <2>1, <2>2, TypedType DEF FetchBegin, Unexpired, Pending, Queued
<1>2. CASE FlushCommand(x)
  BY <1>2, IdleTypes, TypedType DEF FlushCommand, IdleFetch, FetchProcess, FetchPC, Queued
<1>3. CASE FlushNext(x)
  <2>1. PICK d \in fetch[x].todo :
          fetch' = [fetch EXCEPT ![x].pc = "rload", ![x].rid = d, ![x].todo = @ \ {d}]
    BY <1>3 DEF FlushNext
  <2>2. d \in Nat
    OBVIOUS
  <2>3. fetch' \in [Terminal -> FetchProcess]
    BY <2>1, <2>2 DEF FetchProcess, FetchPC
  <2> QED
    BY <1>3, <2>1, <2>3 DEF FlushNext
<1>4. CASE FlushEnd(x)
  BY <1>4, IdleTypes DEF FlushEnd, FetchProcess, FetchPC, IdleFetch
<1>5. CASE SendReceipt(x)
  BY <1>5, SendReceiptTypeInv
<1>6. CASE Collect(x)
  <2>1. PICK q \in SUBSET Blob : fetch' = [fetch EXCEPT ![x].pc = "drain", ![x].queue = q]
    BY <1>6 DEF Collect
  <2>2. fetch' \in [Terminal -> FetchProcess]
    BY <2>1 DEF FetchProcess, FetchPC
  <2> QED
    BY <1>6, <2>1, <2>2 DEF Collect
<1>7. CASE AcceptText(x)
  <2>1. PICK m \in Acceptable(x) :
          /\ contact' = [contact EXCEPT ![At[x]] = Accepted(fetch[x].mem)]
          /\ inbound' = IF IsNew(At[x], m)
                  THEN [inbound EXCEPT ![At[x]] = @ \cup {[seq |-> m.seq, id |-> m.id]}]
                  ELSE inbound
          /\ delivered' = IF IsNew(At[x], m)
                  THEN [delivered EXCEPT ![At[x]] = Append(@, m.id)]
                  ELSE delivered
          /\ pending_receipts' = [pending_receipts EXCEPT ![At[x]] = @ \cup {m.id}]
          /\ fetch' = [fetch EXCEPT ![x].pc = "rload", ![x].rid = m.id,
                         ![x].back = "merge", ![x].mem = Accepted(fetch[x].mem),
                         ![x].queue = @ \ {m}]
    BY <1>7 DEF AcceptText
  <2>2. m.seq \in Nat /\ m.id \in Nat
    BY DEF Acceptable, Blob
  <2>3. Accepted(fetch[x].mem) \in Contact
    BY CounterTypes
  <2>4. inbound' \in [Peer -> SUBSET Row]
    BY <2>1, <2>2 DEF Row
  <2>5. delivered' \in [Peer -> Seq(Nat)]
    BY <2>1, <2>2
  <2>6. fetch' \in [Terminal -> FetchProcess]
    BY <2>1, <2>2, <2>3 DEF FetchProcess, FetchPC
  <2>7. contact' \in [Peer -> Contact] /\ pending_receipts' \in [Peer -> SUBSET Nat]
    BY <2>1, <2>2, <2>3
  <2>8. ReceiptTookSeq'
    BY <2>1, <2>6 DEF ReceiptTookSeq, FetchProcess
  <2> QED
    BY <1>7, <2>4, <2>5, <2>6, <2>7, <2>8 DEF AcceptText
<1>8. CASE AcceptReceipt(x)
  <2>1. PICK m \in Acceptable(x) :
          /\ outbound_pending' = [outbound_pending EXCEPT ![At[x]] = {t \in @ : t.id # m.id}]
          /\ acked' = [acked EXCEPT ![At[x]] = @ \cup {m.id}]
          /\ fetch' = [fetch EXCEPT ![x].pc = "save", ![x].mem = Accepted(@),
                                    ![x].queue = @ \ {m}]
    BY <1>8 DEF AcceptReceipt
  <2>2. m.id \in Nat
    BY DEF Acceptable, Blob
  <2>3. Accepted(fetch[x].mem) \in Contact
    BY CounterTypes
  <2>4. fetch' \in [Terminal -> FetchProcess]
    BY <2>1, <2>3 DEF FetchProcess, FetchPC
  <2> QED
    BY <1>8, <2>1, <2>2, <2>4 DEF AcceptReceipt
<1>9. CASE AcceptAux(x)
  <2>1. Accepted(fetch[x].mem) \in Contact
    BY CounterTypes
  <2>2. PICK m \in Acceptable(x), pc \in {"save", "drain"} :
          fetch' = [fetch EXCEPT ![x].pc = pc, ![x].mem = Accepted(@), ![x].queue = @ \ {m}]
    BY <1>9 DEF AcceptAux
  <2>3. fetch' \in [Terminal -> FetchProcess]
    BY <2>1, <2>2 DEF FetchProcess, FetchPC
  <2> QED
    BY <1>9, <2>2, <2>3 DEF AcceptAux
<1>10. CASE Merge(x)
  <2>1. fetch' \in [Terminal -> FetchProcess]
    BY <1>10 DEF Merge, FetchProcess, FetchPC, Contact
  <2> QED
    BY <1>10, <2>1 DEF Merge
<1>11. CASE Save(x)
  BY <1>11 DEF Save, FetchProcess, FetchPC
<1>12. CASE FetchEnd(x)
  BY <1>12, IdleTypes DEF FetchEnd, IdleFetch
<1>13. CASE NextTag(x)
  <2>1. fetch[x].tags - 1 \in Nat
    BY <1>13, <1>a DEF NextTag, FetchProcess
  <2>2. fetch' = [fetch EXCEPT ![x].pc = "collect", ![x].tags = fetch[x].tags - 1,
                               ![x].queue = {}]
    BY <1>13 DEF NextTag
  <2>3. fetch' \in [Terminal -> FetchProcess]
    BY <2>1, <2>2 DEF FetchProcess, FetchPC
  <2> QED
    BY <1>13, <2>2, <2>3 DEF NextTag
<1> QED
  BY <1>1, <1>2, <1>3, <1>4, <1>5, <1>6, <1>7, <1>8, <1>9, <1>10, <1>11, <1>12, <1>13 DEF Fetch

LEMMA NextTypeInv == TypeInv /\ [Next]_vars => TypeInv'
<1> SUFFICES ASSUME TypeInv, [Next]_vars
             PROVE  TypeInv'
  OBVIOUS
<1> USE DEF TypeInv, TypeOK, ReceiptTookSeq, store, network, counts, history
<1>1. CASE UNCHANGED vars
  BY <1>1 DEF vars
<1>2. CASE \E x \in Terminal : Command(x)
  BY <1>2, CommandTypeInv
<1>3. CASE \E x \in Terminal : Fetch(x)
  BY <1>3, FetchTypeInv
<1>4. ASSUME NEW x \in Terminal, KillFetch(x)
      PROVE  TypeInv'
  <2>1. dropped' \in [Peer -> SUBSET Nat]
    <3>1. fetch[x].pc \in {"rpost", "rundo"} => LostWith(ReceiptOf(x)) \in SUBSET Nat
      BY FetchFields, LostType
    <3> QED
      BY <1>4, <3>1 DEF KillFetch
  <2> QED
    BY <1>4, <2>1, IdleTypes DEF KillFetch, IdleFetch
<1>5. ASSUME NEW x \in Terminal, KillCommand(x)
      PROVE  TypeInv'
  <2>1. dropped' \in [Peer -> SUBSET Nat]
    <3>1. LostWith(cmd[x].msg) \in SUBSET Nat
      BY LostType DEF CommandProcess
    <3> QED
      BY <1>5, <3>1 DEF KillCommand
  <2> QED
    BY <1>5, <2>1, IdleTypes DEF KillCommand
<1>6. CASE Expire
  BY <1>6 DEF Expire
<1> QED
  BY <1>1, <1>2, <1>3, <1>4, <1>5, <1>6 DEF Next

\* The stored and in-memory state of both peers is always of its type, and no
\* sequence number ever drops to 0, whatever is killed or runs concurrently.
THEOREM TypeCorrect == Spec => []TypeOK
<1>1. Init => TypeInv
  BY InitTypeInv
<1>2. TypeInv /\ [Next]_vars => TypeInv'
  BY NextTypeInv
<1>3. TypeInv => TypeOK
  BY DEF TypeInv
<1> QED
  BY <1>1, <1>2, <1>3, PTL DEF Spec

-----------------------------------------------------------------------------
(* No stored text is left without its receipt *)

\* A receipt is unqueued only once a relay has stored it.
PostedWhenDone ==
    \A x \in Terminal : fetch[x].pc = "rdone" => Receipted(At[x], fetch[x].rid)

ReceiptInv == ReceiptNeverLost /\ PostedWhenDone

\* Blobs never leave the set of all blobs ever stored.
LEMMA RelayGrows == [Next]_vars => relay \subseteq relay'
<1> SUFFICES ASSUME [Next]_vars
             PROVE  relay \subseteq relay'
  OBVIOUS
<1> USE DEF store, network, counts, history
<1>1. CASE UNCHANGED vars
  BY <1>1 DEF vars
<1>2. ASSUME NEW x \in Terminal, Command(x)
      PROVE  relay \subseteq relay'
  <2>1. CASE CommandPost(x) \/ CommandFailover(x)
    BY <2>1 DEF CommandPost, CommandFailover
  <2>2. CASE ~(CommandPost(x) \/ CommandFailover(x))
    BY <1>2, <2>2 DEF Command, SendLoad, SendCommit, PushLoad, PushCommit, CommandRefresh,
                      ResendLoad, ResendNext, ResendAnew, ResendMark, ResendEnd,
                      Pending, HasOuter
  <2> QED
    BY <2>1, <2>2
<1>3. ASSUME NEW x \in Terminal, Fetch(x)
      PROVE  relay \subseteq relay'
  <2>1. CASE ReceiptPost(x) \/ ReceiptFailover(x)
    BY <2>1 DEF ReceiptPost, ReceiptFailover
  <2>2. CASE SendReceipt(x) /\ ~(ReceiptPost(x) \/ ReceiptFailover(x))
    BY <2>2 DEF SendReceipt, ReceiptLoad, ReceiptSave, ReceiptRefresh, ReceiptDone,
                ReceiptUndo, ReceiptQueue
  <2>3. CASE ~SendReceipt(x)
    BY <1>3, <2>3 DEF Fetch, FetchBegin, FlushCommand, FlushNext, FlushEnd, Collect,
                      AcceptText, AcceptReceipt, AcceptAux, Merge, Save, NextTag, FetchEnd,
                      Pending, Queued
  <2> QED
    BY <2>1, <2>2, <2>3
<1>4. ASSUME NEW x \in Terminal, KillFetch(x) \/ KillCommand(x)
      PROVE  relay \subseteq relay'
  BY <1>4 DEF KillFetch, KillCommand
<1>5. CASE Expire
  BY <1>5 DEF Expire
<1> QED
  BY <1>1, <1>2, <1>3, <1>4, <1>5 DEF Next

LEMMA ReceiptedStable ==
    ASSUME [Next]_vars, NEW p \in Peer, NEW n, Receipted(p, n)
    PROVE  Receipted(p, n)'
BY RelayGrows DEF Receipted

\* A step that adds no row, unqueues no receipt and enters no "rdone" is harmless.
LEMMA ReceiptInvFrame ==
    ASSUME ReceiptInv, [Next]_vars,
           \A p \in Peer : inbound'[p] \subseteq inbound[p],
           \A p \in Peer : pending_receipts[p] \subseteq pending_receipts'[p],
           \A x \in Terminal : fetch'[x].pc = "rdone" => fetch'[x] = fetch[x]
    PROVE  ReceiptInv'
<1>1. ReceiptNeverLost'
  BY ReceiptedStable DEF ReceiptInv, ReceiptNeverLost
<1>2. PostedWhenDone'
  BY ReceiptedStable, OwnerType DEF ReceiptInv, PostedWhenDone
<1> QED
  BY <1>1, <1>2 DEF ReceiptInv

LEMMA NextReceiptInv == TypeInv /\ ReceiptInv /\ [Next]_vars => ReceiptInv'
<1> SUFFICES ASSUME TypeInv, ReceiptInv, [Next]_vars
             PROVE  ReceiptInv'
  OBVIOUS
<1> USE DEF store, network, counts, history
<1> USE OwnerType
<1>a. fetch \in [Terminal -> FetchProcess] /\ inbound \in [Peer -> SUBSET Row]
      /\ pending_receipts \in [Peer -> SUBSET Nat]
  BY DEF TypeInv, TypeOK
<1>1. CASE UNCHANGED vars
  BY <1>1, ReceiptInvFrame DEF vars
<1>2. ASSUME NEW x \in Terminal, Command(x)
      PROVE  ReceiptInv'
  BY <1>2, ReceiptInvFrame
     DEF Command, SendLoad, SendCommit, PushLoad, PushCommit, CommandRefresh, CommandPost,
         CommandFailover, ResendLoad, ResendNext, ResendAnew, ResendMark, ResendEnd,
         Pending, HasOuter
<1>3. ASSUME NEW x \in Terminal, Fetch(x)
      PROVE  ReceiptInv'
  <2>f. fetch[x] \in FetchProcess
    BY <1>a
  <2>1. CASE FetchBegin(x)
    BY <2>1, <1>a, ReceiptInvFrame DEF FetchBegin, IdleFetch, Unexpired, Pending, Queued
  <2>2. CASE FlushCommand(x) \/ FlushEnd(x) \/ FetchEnd(x)
    <3>1. /\ fetch'[x].pc # "rdone"
          /\ \A y \in Terminal \ {x} : fetch'[y] = fetch[y]
      <4>1. CASE FlushCommand(x)
        BY <4>1, <1>a DEF FlushCommand, IdleFetch, Queued
      <4>3. CASE FetchEnd(x)
        BY <4>3, <1>a DEF FetchEnd, IdleFetch
      <4>2. CASE FlushEnd(x)
        <5>1. [fetch[x] EXCEPT !.pc = "collect"].pc = "collect"
          BY <2>f DEF FetchProcess
        <5> QED
          BY <4>2, <5>1, <1>a DEF FlushEnd, IdleFetch
      <4> QED
        BY <2>2, <4>1, <4>2, <4>3
    <3>2. /\ inbound' = inbound /\ pending_receipts' = pending_receipts
      BY <2>2 DEF FlushCommand, FlushEnd, FetchEnd, Queued
    <3> QED
      BY <3>1, <3>2, ReceiptInvFrame
  <2>3. CASE FlushNext(x) \/ ReceiptLoad(x) \/ ReceiptSave(x) \/ ReceiptRefresh(x)
             \/ ReceiptUndo(x) \/ Collect(x) \/ AcceptReceipt(x) \/ AcceptAux(x)
             \/ Merge(x) \/ Save(x) \/ NextTag(x) \/ ReceiptFailover(x)
    <3>1. /\ inbound' = inbound /\ pending_receipts' = pending_receipts
      BY <2>3 DEF FlushNext, ReceiptLoad, ReceiptSave, ReceiptRefresh, ReceiptUndo, Collect,
                  AcceptReceipt, AcceptAux, Merge, Save, NextTag, ReceiptFailover
    <3>2. \A y \in Terminal : fetch'[y].pc = "rdone" => fetch'[y] = fetch[y]
      <4>1. CASE FlushNext(x)
        BY <4>1, <1>a, <2>f DEF FlushNext, FetchProcess
      <4>2. CASE ReceiptLoad(x)
        BY <4>2, <1>a, <2>f DEF ReceiptLoad, FetchProcess
      <4>3. CASE ReceiptSave(x)
        BY <4>3, <1>a, <2>f DEF ReceiptSave, FetchProcess
      <4>4. CASE ReceiptRefresh(x)
        BY <4>4, <1>a, <2>f DEF ReceiptRefresh, FetchProcess
      <4>5. CASE ReceiptUndo(x)
        BY <4>5, <1>a, <2>f DEF ReceiptUndo, FetchProcess
      <4>6. CASE Save(x)
        BY <4>6, <1>a, <2>f DEF Save, FetchProcess
      <4>7. CASE Collect(x)
        BY <4>7, <1>a, <2>f DEF Collect, FetchProcess
      <4>8. CASE AcceptReceipt(x)
        BY <4>8, <1>a, <2>f DEF AcceptReceipt, FetchProcess
      <4>9. CASE AcceptAux(x)
        BY <4>9, <1>a, <2>f DEF AcceptAux, FetchProcess
      <4>10. CASE Merge(x)
        BY <4>10, <1>a, <2>f DEF Merge, FetchProcess
      <4>11. CASE NextTag(x)
        BY <4>11, <1>a, <2>f DEF NextTag, FetchProcess
      <4>12. CASE ReceiptFailover(x)
        BY <4>12, <1>a, <2>f DEF ReceiptFailover, FetchProcess
      <4> QED
        BY <2>3, <4>1, <4>2, <4>3, <4>4, <4>5, <4>6,
           <4>7, <4>8, <4>9, <4>10, <4>11, <4>12
    <3> QED
      BY <3>1, <3>2, ReceiptInvFrame
  <2>4. CASE ReceiptPost(x)
    <3> DEFINE r == ReceiptOf(x)
    <3>1. PICK o \in ReceiptPosts :
            /\ relay' = IF o = "fail" THEN relay ELSE relay \cup {r}
            /\ fetch' = [fetch EXCEPT ![x].pc = AfterReceiptPost(o)]
      BY <2>4 DEF ReceiptPost
    <3>2. fetch'[x].rid = fetch[x].rid /\ fetch'[x].pc = AfterReceiptPost(o)
          /\ \A y \in Terminal \ {x} : fetch'[y] = fetch[y]
      BY <3>1, <1>a, <2>f DEF FetchProcess
    <3>3. fetch'[x].pc = "rdone" => r \in relay'
      BY <3>1, <3>2 DEF AfterReceiptPost
    <3>4. fetch'[x].pc = "rdone" => Receipted(At[x], fetch[x].rid)'
      <4>1. r.kind = "receipt" /\ r.from = At[x] /\ r.id = fetch[x].rid
        BY DEF ReceiptOf, Receipt
      <4> HIDE DEF r
      <4> QED
        BY <3>2, <3>3, <4>1 DEF Receipted
    <3>5. PostedWhenDone'
      BY <3>2, <3>4, ReceiptedStable DEF ReceiptInv, PostedWhenDone
    <3>6. ReceiptNeverLost'
      BY <2>4, ReceiptedStable DEF ReceiptPost, ReceiptInv, ReceiptNeverLost
    <3> QED
      BY <3>5, <3>6 DEF ReceiptInv
  <2>5. CASE ReceiptDone(x)
    <3>1. fetch[x].pc = "rdone" /\ Receipted(At[x], fetch[x].rid)
      BY <2>5 DEF ReceiptDone, ReceiptInv, PostedWhenDone
    <3>2. fetch'[x].pc # "rdone" /\ \A y \in Terminal \ {x} : fetch'[y] = fetch[y]
      BY <2>5, <1>a, <2>f, ReturnedType DEF ReceiptDone
    <3>3. PostedWhenDone'
      BY <3>2, ReceiptedStable DEF ReceiptInv, PostedWhenDone
    <3>4. ASSUME NEW q \in Peer, NEW r \in inbound'[q]
          PROVE  r.id \in pending_receipts'[q] \/ Receipted(q, r.id)'
      <4>1. r \in inbound[q]
        BY <2>5 DEF ReceiptDone
      <4>2. r.id \in pending_receipts[q] \/ Receipted(q, r.id)
        BY <4>1 DEF ReceiptInv, ReceiptNeverLost
      <4>3. pending_receipts'[q] = IF q = At[x] THEN pending_receipts[At[x]] \ {fetch[x].rid}
                                   ELSE pending_receipts[q]
        BY <2>5, <1>a DEF ReceiptDone
      <4>4. CASE Receipted(q, r.id)
        BY <4>4, ReceiptedStable
      <4>5. CASE r.id \in pending_receipts[q] /\ ~(q = At[x] /\ r.id = fetch[x].rid)
        BY <4>5, <4>3
      <4>6. CASE q = At[x] /\ r.id = fetch[x].rid
        BY <4>6, <3>1, ReceiptedStable
      <4> QED
        BY <4>2, <4>4, <4>5, <4>6
    <3> QED
      BY <3>3, <3>4 DEF ReceiptInv, ReceiptNeverLost
  <2>6. CASE ReceiptQueue(x)
    <3>1. fetch'[x].pc # "rdone" /\ \A y \in Terminal \ {x} : fetch'[y] = fetch[y]
      BY <2>6, <1>a, <2>f, ReturnedType DEF ReceiptQueue
    <3> QED
      BY <2>6, <3>1, <1>a, ReceiptInvFrame DEF ReceiptQueue
  <2>7. CASE AcceptText(x)
    <3>1. PICK m :
            /\ inbound' = IF IsNew(At[x], m)
                 THEN [inbound EXCEPT ![At[x]] = @ \cup {[seq |-> m.seq, id |-> m.id]}]
                 ELSE inbound
            /\ pending_receipts' = [pending_receipts EXCEPT ![At[x]] = @ \cup {m.id}]
            /\ fetch' = [fetch EXCEPT ![x].pc = "rload", ![x].rid = m.id,
                            ![x].back = "merge", ![x].mem = Accepted(fetch[x].mem),
                            ![x].queue = @ \ {m}]
      BY <2>7 DEF AcceptText
    <3>2. fetch'[x].pc # "rdone" /\ \A y \in Terminal \ {x} : fetch'[y] = fetch[y]
      BY <3>1, <1>a, <2>f DEF FetchProcess
    <3>3. PostedWhenDone'
      BY <3>2, ReceiptedStable DEF ReceiptInv, PostedWhenDone
    <3>4. ASSUME NEW q \in Peer, NEW r \in inbound'[q]
          PROVE  r.id \in pending_receipts'[q] \/ Receipted(q, r.id)'
      <4>1. pending_receipts[q] \subseteq pending_receipts'[q]
        BY <3>1, <1>a
      <4>2. CASE r \in inbound[q]
        BY <4>1, <4>2, ReceiptedStable DEF ReceiptInv, ReceiptNeverLost
      <4>3. CASE r \notin inbound[q]
        BY <4>3, <3>1, <1>a
      <4> QED
        BY <4>2, <4>3
    <3> QED
      BY <3>3, <3>4 DEF ReceiptInv, ReceiptNeverLost
  <2> QED
    BY <1>3, <2>1, <2>2, <2>3, <2>4, <2>5, <2>6, <2>7 DEF Fetch, SendReceipt
<1>4. ASSUME NEW x \in Terminal, KillFetch(x) \/ KillCommand(x)
      PROVE  ReceiptInv'
  BY <1>4, <1>a, ReceiptInvFrame DEF KillFetch, KillCommand, IdleFetch
<1>5. CASE Expire
  BY <1>5, ReceiptInvFrame DEF Expire
<1> QED
  BY <1>1, <1>2, <1>3, <1>4, <1>5 DEF Next

\* Whatever is killed, fails or runs concurrently, the receipt of every stored
\* text is queued in pending_receipts or has reached a relay: the co-commit of
\* atomic_commit_receive_text and the order of send_delivery_receipt.
THEOREM NoReceiptLost == Spec => []ReceiptNeverLost
<1>1. Init => TypeInv /\ ReceiptInv
  BY InitTypeInv DEF Init, ReceiptInv, ReceiptNeverLost, PostedWhenDone, IdleFetch
<1>2. TypeInv /\ ReceiptInv /\ [Next]_vars => (TypeInv /\ ReceiptInv)'
  BY NextTypeInv, NextReceiptInv
<1>3. TypeInv /\ ReceiptInv => ReceiptNeverLost
  BY DEF ReceiptInv
<1> QED
  BY <1>1, <1>2, <1>3, PTL DEF Spec

-----------------------------------------------------------------------------
(* No text is stored twice, whatever runs beside what *)

\* A text that a relay holds, a resend may post, or a command is posting.
IsMade(m) ==
    /\ m.kind = "text"
    /\ \/ m \in relay
       \/ \E p \in Peer : m \in outbound_pending[p]
       \/ \E x \in Terminal : cmd[x].pc = "post" /\ m = cmd[x].msg

\* An id is given once, by the commit that counts it.
IdsGivenOnce ==
    /\ \A m \in Blob : IsMade(m) => m.id \in 1 .. texts[m.from]
    /\ \A m, n \in Blob :
          IsMade(m) /\ IsMade(n) /\ m.from = n.from /\ m.id = n.id => m.seq = n.seq

\* A fetch works on blobs of the other peer that a relay holds.
QueueHeld == \A x \in Terminal : \A m \in fetch[x].queue : m \in relay /\ m.from = Other(At[x])

\* The row of text m is still there, or the text has expired.
RowKept(p, m) == m \in expired \/ [seq |-> m.seq, id |-> m.id] \in inbound[p]

\* What was stored once is a text on a relay, and keeps its row till it expires.
StoredKept ==
    \A p \in Peer : \A i \in 1 .. Len(delivered[p]) :
        \E m \in relay : /\ m.kind = "text" /\ m.from = Other(p) /\ m.id = delivered[p][i]
                         /\ RowKept(p, m)

OnceInv == IdsGivenOnce /\ QueueHeld /\ StoredKept /\ ReadOnce

NewText(p, s) ==
    /\ \A m \in Blob : IsMade(m)' => IsMade(m) \/ m = Text(p, s, texts[p] + 1)
    /\ texts' = [texts EXCEPT ![p] = @ + 1]

NoNewText == (\A m \in Blob : IsMade(m)' => IsMade(m)) /\ texts' = texts

\* Whence a command's texts come.
LEMMA TextsOfCommand ==
    ASSUME TypeInv, NEW x \in Terminal, Command(x)
    PROVE  NoNewText \/ \E s \in Nat : NewText(At[x], s)
<1> USE OwnerType DEF store, network, counts, history
<1>a. /\ cmd \in [Terminal -> CommandProcess] /\ cmd[x] \in CommandProcess
      /\ outbound_pending \in [Peer -> SUBSET Blob]
      /\ cmd[x].mem \in Contact /\ cmd[x].todo \in SUBSET Blob
      /\ texts \in [Peer -> Nat]
  BY DEF TypeInv, TypeOK, CommandProcess
<1>b. ASSUME relay' = relay \/ (cmd[x].pc = "post" /\ relay' \subseteq relay \cup {cmd[x].msg}),
             \A p \in Peer : outbound_pending'[p] \subseteq outbound_pending[p],
             \A y \in Terminal \ {x} : cmd'[y] = cmd[y],
             cmd'[x].pc = "post" => \/ cmd[x].pc = "post" /\ cmd'[x].msg = cmd[x].msg
                                    \/ cmd'[x].msg \in outbound_pending[At[x]]
                                    \/ cmd'[x].msg.kind # "text",
             texts' = texts
      PROVE  NoNewText
  BY <1>b DEF NoNewText, IsMade
<1>c. ASSUME NEW s \in Nat, relay' = relay,
             outbound_pending' = [outbound_pending EXCEPT
                ![At[x]] = @ \cup {Text(At[x], s, texts[At[x]] + 1)}],
             \A y \in Terminal \ {x} : cmd'[y] = cmd[y],
             cmd'[x].msg = Text(At[x], s, texts[At[x]] + 1),
             texts' = [texts EXCEPT ![At[x]] = @ + 1]
      PROVE  NewText(At[x], s)
  BY <1>a, <1>c DEF NewText, IsMade
<1>1. CASE SendLoad(x) \/ PushLoad(x) \/ ResendLoad(x)
  <2>1. CASE SendLoad(x)
    BY <2>1, <1>a, <1>b DEF SendLoad, CommandProcess
  <2>2. CASE PushLoad(x)
    BY <2>2, <1>a, <1>b DEF PushLoad, CommandProcess
  <2>3. CASE ResendLoad(x)
    <3>1. cmd'[x].pc # "post" /\ \A y \in Terminal \ {x} : cmd'[y] = cmd[y]
      BY <2>3, <1>a DEF ResendLoad, IdleCmd, Pending
    <3> QED
      BY <2>3, <3>1, <1>b DEF ResendLoad, Pending
  <2> QED
    BY <1>1, <2>1, <2>2, <2>3
<1>2. CASE SendCommit(x)
  <2>1. cmd[x].mem.next_send_seq \in Nat
    BY <1>a DEF Contact
  <2>2. NewText(At[x], cmd[x].mem.next_send_seq)
    BY <1>2, <1>a, <1>c, <2>1 DEF SendCommit, CommandProcess
  <2> QED
    BY <2>1, <2>2
<1>3. CASE PushCommit(x)
  BY <1>3, <1>a, <1>b DEF PushCommit, Aux, CommandProcess
<1>4. CASE CommandRefresh(x) \/ CommandFailover(x)
  BY <1>4, <1>a, <1>b DEF CommandRefresh, CommandFailover
<1>5. CASE CommandPost(x)
  <2>1. PICK o \in CommandPosts : \E c \in AfterPost(x, o) : cmd' = [cmd EXCEPT ![x] = c]
    BY <1>5 DEF CommandPost
  <2>2. \A c \in AfterPost(x, o) : c.pc # "post"
    <3>1. CASE cmd[x].again
      <4>1. AfterResend(o) # "post"
        BY DEF AfterResend
      <4>2. AfterPost(x, o) = {[cmd[x] EXCEPT !.pc = AfterResend(o)]}
        BY <3>1 DEF AfterPost
      <4> QED
        BY <1>a, <4>1, <4>2 DEF CommandProcess
    <3>2. CASE ~cmd[x].again
      <4>1. [cmd[x] EXCEPT !.pc = "push", !.msg = NoBlob].pc = "push"
        BY <1>a DEF CommandProcess
      <4>2. IdleCmd.pc = "idle"
        BY DEF IdleCmd
      <4>3. \A c \in AfterPost(x, o) :
              c = IdleCmd \/ c = [cmd[x] EXCEPT !.pc = "push", !.msg = NoBlob]
        BY <3>2 DEF AfterPost
      <4> QED
        BY <4>1, <4>2, <4>3
    <3> QED
      BY <3>1, <3>2
  <2>3. /\ cmd'[x].pc # "post" /\ \A y \in Terminal \ {x} : cmd'[y] = cmd[y]
    BY <1>a, <2>1, <2>2
  <2>4. /\ relay' \subseteq relay \cup {cmd[x].msg} /\ cmd[x].pc = "post"
        /\ outbound_pending' = outbound_pending /\ texts' = texts
    BY <1>5 DEF CommandPost
  <2> QED
    BY <1>b, <2>3, <2>4
<1>6. CASE ResendNext(x)
  <2>1. PICK m \in outbound_pending[At[x]] :
          cmd' = [cmd EXCEPT ![x].pc = "post", ![x].msg = m, ![x].todo = @ \ {m}]
    BY <1>6 DEF ResendNext, HasOuter
  <2>2. cmd'[x].msg = m /\ \A y \in Terminal \ {x} : cmd'[y] = cmd[y]
    BY <1>a, <2>1 DEF CommandProcess
  <2> QED
    BY <1>6, <1>b, <2>2 DEF ResendNext, HasOuter
<1>7. CASE ResendAnew(x)
  <2>1. PICK m \in cmd[x].todo :
          LET mem == Taken([cmd[x].mem EXCEPT !.next_send_seq = m.seq])
              new == Text(At[x], m.seq, texts[At[x]] + 1)
          IN  /\ outbound_pending' = [outbound_pending EXCEPT ![At[x]] = @ \cup {new}]
              /\ cmd' = [cmd EXCEPT ![x].pc = "post", ![x].msg = new, ![x].mem = mem,
                                    ![x].todo = @ \ {m}]
    BY <1>7 DEF ResendAnew, HasOuter
  <2>2. m.seq \in Nat
    BY <1>a DEF Blob
  <2>3. /\ cmd'[x].msg = Text(At[x], m.seq, texts[At[x]] + 1)
        /\ \A y \in Terminal \ {x} : cmd'[y] = cmd[y]
    BY <1>a, <2>1 DEF CommandProcess
  <2>4. NewText(At[x], m.seq)
    BY <1>7, <1>c, <2>1, <2>2, <2>3 DEF ResendAnew, HasOuter
  <2> QED
    BY <2>2, <2>4
<1>8. CASE ResendMark(x)
  BY <1>8, <1>a, <1>b DEF ResendMark, CommandProcess
<1>9. CASE ResendEnd(x)
  BY <1>9, <1>a, <1>b DEF ResendEnd, IdleCmd
<1> QED
  BY <1>1, <1>2, <1>3, <1>4, <1>5, <1>6, <1>7, <1>8, <1>9 DEF Command

\* A fetch makes receipts only.
LEMMA TextsOfFetch ==
    ASSUME TypeInv, NEW x \in Terminal, Fetch(x)
    PROVE  NoNewText
<1> USE OwnerType DEF store, network, counts, history
<1>a. outbound_pending \in [Peer -> SUBSET Blob]
  BY DEF TypeInv, TypeOK
<1>b. ASSUME \A m \in relay' : m.kind = "text" => m \in relay,
             \A p \in Peer : outbound_pending'[p] \subseteq outbound_pending[p],
             cmd' = cmd, texts' = texts
      PROVE  NoNewText
  BY <1>b DEF NoNewText, IsMade
<1>1. CASE FetchBegin(x)
  BY <1>1, <1>a, <1>b DEF FetchBegin, Pending, Queued
<1>2. CASE FlushCommand(x) \/ FlushNext(x) \/ FlushEnd(x)
  BY <1>2, <1>b DEF FlushCommand, FlushNext, FlushEnd, Queued
<1>3. CASE ReceiptPost(x) \/ ReceiptFailover(x)
  BY <1>3, <1>b DEF ReceiptPost, ReceiptFailover, ReceiptOf, Receipt
<1>4. CASE ReceiptLoad(x) \/ ReceiptSave(x) \/ ReceiptRefresh(x) \/ ReceiptDone(x)
           \/ ReceiptUndo(x) \/ ReceiptQueue(x)
  BY <1>4, <1>b DEF ReceiptLoad, ReceiptSave, ReceiptRefresh, ReceiptDone, ReceiptUndo,
                    ReceiptQueue
<1>5. CASE Collect(x) \/ AcceptText(x) \/ AcceptAux(x) \/ Merge(x) \/ Save(x)
           \/ NextTag(x) \/ FetchEnd(x)
  BY <1>5, <1>b DEF Collect, AcceptText, AcceptAux, Merge, Save, NextTag, FetchEnd
<1>6. CASE AcceptReceipt(x)
  BY <1>6, <1>a, <1>b DEF AcceptReceipt
<1> QED
  BY <1>1, <1>2, <1>3, <1>4, <1>5, <1>6 DEF Fetch, SendReceipt

LEMMA NextTexts ==
    TypeInv /\ [Next]_vars => NoNewText \/ \E p \in Peer, s \in Nat : NewText(p, s)
<1> SUFFICES ASSUME TypeInv, [Next]_vars
             PROVE  NoNewText \/ \E p \in Peer, s \in Nat : NewText(p, s)
  OBVIOUS
<1> USE OwnerType DEF store, network, counts, history
<1>1. ASSUME NEW x \in Terminal, Command(x)
      PROVE  NoNewText \/ \E p \in Peer, s \in Nat : NewText(p, s)
  BY <1>1, TextsOfCommand
<1>2. ASSUME NEW x \in Terminal, Fetch(x)
      PROVE  NoNewText
  BY <1>2, TextsOfFetch
<1>3. ASSUME NEW x \in Terminal, KillFetch(x)
      PROVE  NoNewText
  BY <1>3 DEF KillFetch, NoNewText, IsMade
<1>4. ASSUME NEW x \in Terminal, KillCommand(x)
      PROVE  NoNewText
  <2>1. cmd \in [Terminal -> CommandProcess]
    BY DEF TypeInv, TypeOK
  <2> QED
    BY <1>4, <2>1 DEF KillCommand, NoNewText, IsMade, IdleCmd
<1>5. CASE Expire
  BY <1>5 DEF Expire, NoNewText, IsMade
<1>6. CASE UNCHANGED vars
  BY <1>6 DEF vars, NoNewText, IsMade
<1> QED
  BY <1>1, <1>2, <1>3, <1>4, <1>5, <1>6 DEF Next

LEMMA NextIdsGivenOnce ==
    TypeInv /\ IdsGivenOnce /\ [Next]_vars => IdsGivenOnce'
<1> SUFFICES ASSUME TypeInv, IdsGivenOnce, [Next]_vars
             PROVE  IdsGivenOnce'
  OBVIOUS
<1>1. CASE NoNewText
  BY <1>1 DEF NoNewText, IdsGivenOnce
<1>2. ASSUME NEW p \in Peer, NEW s \in Nat, NewText(p, s)
      PROVE  IdsGivenOnce'
  <2>1. texts \in [Peer -> Nat]
    BY DEF TypeInv, TypeOK
  <2>2. \A q \in Peer : texts'[q] \in Nat /\ texts[q] \in Nat /\ texts'[q] >= texts[q]
    BY <1>2, <2>1 DEF NewText
  <2> DEFINE new == Text(p, s, texts[p] + 1)
  <2>3. new.from = p /\ new.id = texts[p] + 1 /\ new.id = texts'[p]
    BY <1>2, <2>1 DEF NewText, Text
  <2> HIDE DEF new
  <2>4. \A m \in Blob : IsMade(m)' => m = new \/ IsMade(m)
    BY <1>2 DEF NewText, new
  <2>5. \A m \in Blob : m.from \in Peer /\ m.id \in Nat
    BY DEF Blob
  <2>6. \A m \in Blob : IsMade(m)' => m.id \in 1 .. texts'[m.from]
    BY <2>2, <2>3, <2>4, <2>5 DEF IdsGivenOnce
  <2>7. \A m \in Blob : IsMade(m) /\ m.from = new.from => m.id # new.id
    BY <2>2, <2>3, <2>5 DEF IdsGivenOnce
  <2>8. \A m, n \in Blob :
          IsMade(m)' /\ IsMade(n)' /\ m.from = n.from /\ m.id = n.id => m.seq = n.seq
    BY <2>4, <2>7 DEF IdsGivenOnce
  <2> QED
    BY <2>6, <2>8 DEF IdsGivenOnce, IsMade
<1> QED
  BY <1>1, <1>2, NextTexts

\* A fetch takes its queue from the relays.
LEMMA QueueStep ==
    ASSUME TypeInv, [Next]_vars, NEW x \in Terminal, NEW m \in fetch'[x].queue
    PROVE  m \in fetch[x].queue \/ (m \in relay /\ m.from = Other(At[x]))
<1> USE OwnerType DEF store, network, counts, history
<1>a. fetch \in [Terminal -> FetchProcess] /\ IdleFetch \in FetchProcess
  BY IdleTypes DEF TypeInv, TypeOK
<1>b. IdleFetch.queue = {}
  BY DEF IdleFetch
<1>1. CASE fetch' = fetch
  BY <1>1
<1>2. ASSUME NEW y \in Terminal, Fetch(y)
      PROVE  m \in fetch[x].queue \/ (m \in relay /\ m.from = Other(At[x]))
  <2>1. CASE FetchBegin(y)
    <3>1. fetch'[y].queue = {} /\ \A z \in Terminal \ {y} : fetch'[z] = fetch[z]
      BY <1>a, <2>1 DEF FetchBegin, IdleFetch, Pending, Queued
    <3> QED
      BY <3>1
  <2>2. CASE FlushCommand(y)
    <3>1. fetch'[y].queue = {} /\ \A z \in Terminal \ {y} : fetch'[z] = fetch[z]
      BY <1>a, <2>2 DEF FlushCommand, IdleFetch, Queued
    <3> QED
      BY <3>1
  <2>3. CASE FlushNext(y)
    <3>1. PICK d : fetch' = [fetch EXCEPT ![y].pc = "rload", ![y].rid = d, ![y].todo = @ \ {d}]
      BY <2>3 DEF FlushNext
    <3> QED
      BY <1>a, <3>1 DEF FetchProcess
  <2>13. CASE ReceiptLoad(y) \/ ReceiptSave(y)
    BY <1>a, <2>13 DEF ReceiptLoad, ReceiptSave, FetchProcess
  <2>4. CASE FlushEnd(y)
    <3>1. [fetch[y] EXCEPT !.pc = "collect"].queue = fetch[y].queue
      BY <1>a DEF FetchProcess
    <3>2. fetch'[y].queue \subseteq fetch[y].queue
            /\ \A z \in Terminal \ {y} : fetch'[z] = fetch[z]
      BY <1>a, <1>b, <2>4, <3>1 DEF FlushEnd
    <3> QED
      BY <3>2
  <2>5. CASE ReceiptRefresh(y) \/ ReceiptPost(y) \/ ReceiptFailover(y) \/ ReceiptUndo(y)
    BY <1>a, <2>5 DEF ReceiptRefresh, ReceiptPost, ReceiptFailover, ReceiptUndo, FetchProcess
  <2>6. CASE ReceiptDone(y) \/ ReceiptQueue(y)
    <3>1. Returned(fetch[y]).queue = fetch[y].queue
      BY <1>a DEF Returned, FetchProcess
    <3>2. fetch'[y].queue = fetch[y].queue
            /\ \A z \in Terminal \ {y} : fetch'[z] = fetch[z]
      BY <1>a, <2>6, <3>1 DEF ReceiptDone, ReceiptQueue
    <3> QED
      BY <3>2
  <2>7. CASE Collect(y)
    BY <1>a, <2>7 DEF Collect, FetchProcess
  <2>8. CASE AcceptText(y)
    BY <1>a, <2>8 DEF AcceptText, FetchProcess
  <2>9. CASE AcceptReceipt(y) \/ AcceptAux(y)
    BY <1>a, <2>9 DEF AcceptReceipt, AcceptAux, FetchProcess
  <2>10. CASE Merge(y) \/ Save(y)
    BY <1>a, <2>10 DEF Merge, Save, FetchProcess
  <2>11. CASE NextTag(y)
    BY <1>a, <2>11 DEF NextTag, FetchProcess
  <2>12. CASE FetchEnd(y)
    BY <1>a, <1>b, <2>12 DEF FetchEnd
  <2> QED
    BY <1>2, <2>1, <2>2, <2>3, <2>4, <2>5, <2>6, <2>7, <2>8, <2>9, <2>10, <2>11, <2>12,
       <2>13
       DEF Fetch, SendReceipt
<1>3. ASSUME NEW y \in Terminal, Command(y)
      PROVE  fetch' = fetch
  BY <1>3 DEF Command, SendLoad, SendCommit, PushLoad, PushCommit, CommandRefresh,
              CommandPost, CommandFailover, ResendLoad, ResendNext, ResendAnew,
              ResendMark, ResendEnd, Pending, HasOuter
<1>4. ASSUME NEW y \in Terminal, KillFetch(y)
      PROVE  m \in fetch[x].queue
  BY <1>4, <1>a, <1>b DEF KillFetch
<1>5. CASE Expire \/ UNCHANGED vars \/ \E y \in Terminal : KillCommand(y)
  BY <1>5 DEF Expire, KillCommand, vars
<1> QED
  BY <1>1, <1>2, <1>3, <1>4, <1>5 DEF Next

LEMMA NextQueueHeld ==
    TypeInv /\ QueueHeld /\ [Next]_vars => QueueHeld'
<1> SUFFICES ASSUME TypeInv, QueueHeld, [Next]_vars
             PROVE  QueueHeld'
  OBVIOUS
<1> SUFFICES ASSUME NEW x \in Terminal, NEW m \in fetch'[x].queue
             PROVE  m \in relay' /\ m.from = Other(At[x])
  BY DEF QueueHeld
<1>1. m \in fetch[x].queue \/ (m \in relay /\ m.from = Other(At[x]))
  BY QueueStep
<1> QED
  BY <1>1, RelayGrows DEF QueueHeld

\* An expired text stays expired; a receipt that is sent again gets a new TTL.
LEMMA TextsStayExpired ==
    ASSUME [Next]_vars, NEW m \in expired, m.kind = "text"
    PROVE  m \in expired'
<1> USE DEF store, network, counts, history
<1>1. ASSUME NEW y \in Terminal, ReceiptPost(y) \/ ReceiptFailover(y)
      PROVE  m \in expired'
  BY <1>1 DEF ReceiptPost, ReceiptFailover, ReceiptOf, Receipt
<1>2. ASSUME NEW y \in Terminal, Fetch(y), ~(ReceiptPost(y) \/ ReceiptFailover(y))
      PROVE  expired' = expired
  BY <1>2 DEF Fetch, SendReceipt, FetchBegin, FlushCommand, FlushNext, FlushEnd,
       ReceiptLoad, ReceiptSave, ReceiptRefresh, ReceiptDone, ReceiptUndo, ReceiptQueue,
       Collect, AcceptText, AcceptReceipt, AcceptAux, Merge, Save, NextTag, FetchEnd,
       Pending, Queued
<1>3. ASSUME NEW y \in Terminal, Command(y)
      PROVE  expired' = expired
  BY <1>3 DEF Command, SendLoad, SendCommit, PushLoad, PushCommit, CommandRefresh,
              CommandPost, CommandFailover, ResendLoad, ResendNext, ResendAnew,
              ResendMark, ResendEnd, Pending, HasOuter
<1>4. CASE Expire \/ UNCHANGED vars \/ \E y \in Terminal : KillCommand(y) \/ KillFetch(y)
  BY <1>4 DEF Expire, KillCommand, KillFetch, vars
<1> QED
  BY <1>1, <1>2, <1>3, <1>4 DEF Next

\* Rows come with an accepted text and go with the sweep of a fetch.
LEMMA RowsStep ==
    ASSUME [Next]_vars
    PROVE  \/ \E x \in Terminal : AcceptText(x) \/ FetchBegin(x)
           \/ inbound' = inbound /\ delivered' = delivered
<1> USE DEF store, network, counts, history
<1>1. ASSUME NEW y \in Terminal, Fetch(y), ~(AcceptText(y) \/ FetchBegin(y))
      PROVE  inbound' = inbound /\ delivered' = delivered
  BY <1>1 DEF Fetch, SendReceipt, FlushCommand, FlushNext, FlushEnd,
       ReceiptLoad, ReceiptSave, ReceiptRefresh, ReceiptPost, ReceiptFailover, ReceiptDone,
       ReceiptUndo, ReceiptQueue, Collect, AcceptReceipt, AcceptAux, Merge, Save, NextTag,
       FetchEnd, Queued
<1>2. ASSUME NEW y \in Terminal, Command(y)
      PROVE  inbound' = inbound /\ delivered' = delivered
  BY <1>2 DEF Command, SendLoad, SendCommit, PushLoad, PushCommit, CommandRefresh,
              CommandPost, CommandFailover, ResendLoad, ResendNext, ResendAnew,
              ResendMark, ResendEnd, Pending, HasOuter
<1>3. CASE Expire \/ UNCHANGED vars \/ \E y \in Terminal : KillCommand(y) \/ KillFetch(y)
  BY <1>3 DEF Expire, KillCommand, KillFetch, vars
<1> QED
  BY <1>1, <1>2, <1>3 DEF Next

\* The one text a stored id stands for.
LEMMA SameIdSameText ==
    ASSUME IdsGivenOnce, NEW m \in relay \cap Blob, NEW n \in relay \cap Blob,
           m.kind = "text", n.kind = "text", m.from = n.from, m.id = n.id
    PROVE  m = n
<1>1. m.seq = n.seq
  BY DEF IdsGivenOnce, IsMade
<1> QED
  BY <1>1 DEF Blob

\* An accepted text that gets a row was not stored before.
LEMMA AcceptedAnew ==
    ASSUME TypeInv, OnceInv, NEW x \in Terminal, NEW m \in Acceptable(x), m.kind = "text",
           IsNew(At[x], m), NEW i \in 1 .. Len(delivered[At[x]])
    PROVE  delivered[At[x]][i] # m.id
<1> SUFFICES ASSUME delivered[At[x]][i] = m.id
             PROVE  FALSE
  OBVIOUS
<1> USE OwnerType
<1>1. m \in relay /\ m.from = Other(At[x]) /\ m \notin expired
  BY DEF OnceInv, QueueHeld, Acceptable
<1>2. PICK n \in relay : /\ n.kind = "text" /\ n.from = Other(At[x]) /\ n.id = m.id
                         /\ RowKept(At[x], n)
  BY DEF OnceInv, StoredKept
<1>3. m \in Blob /\ n \in Blob
  BY <1>1, <1>2 DEF TypeInv, TypeOK
<1>4. m = n
  BY <1>1, <1>2, <1>3, SameIdSameText DEF OnceInv
<1> QED
  BY <1>1, <1>2, <1>4 DEF RowKept, IsNew

LEMMA NextStored ==
    TypeInv /\ OnceInv /\ [Next]_vars => StoredKept' /\ ReadOnce'
<1> SUFFICES ASSUME TypeInv, OnceInv, [Next]_vars
             PROVE  StoredKept' /\ ReadOnce'
  OBVIOUS
<1> USE OwnerType DEF store, network, counts, history
<1>a. /\ inbound \in [Peer -> SUBSET Row] /\ delivered \in [Peer -> Seq(Nat)]
      /\ relay \subseteq Blob /\ relay \subseteq relay'
  BY RelayGrows DEF TypeInv, TypeOK
<1>b. ASSUME NEW p \in Peer, NEW m \in relay, m.kind = "text", RowKept(p, m),
             inbound[p] \subseteq inbound'[p]
      PROVE  m \in relay' /\ RowKept(p, m)'
  BY <1>a, <1>b, TextsStayExpired DEF RowKept
<1>c. ASSUME NEW p \in Peer, NEW i \in 1 .. Len(delivered[p])
      PROVE  \E m \in relay : /\ m.kind = "text" /\ m.from = Other(p)
                              /\ m.id = delivered[p][i] /\ RowKept(p, m)
  BY DEF OnceInv, StoredKept
<1>1. CASE inbound' = inbound /\ delivered' = delivered
  <2>1. StoredKept'
    <3> SUFFICES ASSUME NEW p \in Peer, NEW i \in 1 .. Len(delivered[p])
                 PROVE  \E m \in relay' : /\ m.kind = "text" /\ m.from = Other(p)
                                          /\ m.id = delivered[p][i] /\ RowKept(p, m)'
      BY <1>1 DEF StoredKept
    <3> QED
      BY <1>1, <1>b, <1>c
  <2> QED
    BY <1>1, <2>1 DEF OnceInv, ReadOnce
<1>2. ASSUME NEW x \in Terminal, FetchBegin(x)
      PROVE  StoredKept' /\ ReadOnce'
  <2>1. /\ delivered' = delivered /\ relay' = relay /\ expired' = expired
        /\ inbound' = [inbound EXCEPT ![At[x]] = Unexpired(x)]
    BY <1>2 DEF FetchBegin, Pending, Queued
  <2>2. ASSUME NEW p \in Peer, NEW m \in relay, m.kind = "text", m.from = Other(p),
               RowKept(p, m)
        PROVE  RowKept(p, m)'
    <3>1. m = Text(Other(p), m.seq, m.id)
      BY <1>a, <2>2 DEF Text, Blob
    <3>2. CASE m \in expired
      BY <2>1, <3>2 DEF RowKept
    <3>3. CASE m \notin expired
      <4>1. [seq |-> m.seq, id |-> m.id] \in inbound[p]
        BY <2>2, <3>3 DEF RowKept
      <4>2. CASE p = At[x]
        <5>1. [seq |-> m.seq, id |-> m.id] \in Unexpired(x)
          BY <3>1, <3>3, <4>1, <4>2 DEF Unexpired
        <5> QED
          BY <1>a, <2>1, <4>2, <5>1 DEF RowKept
      <4>3. CASE p # At[x]
        BY <1>a, <2>1, <4>1, <4>3 DEF RowKept
      <4> QED
        BY <4>2, <4>3
    <3> QED
      BY <3>2, <3>3
  <2>3. StoredKept'
    BY <1>c, <2>1, <2>2 DEF StoredKept
  <2> QED
    BY <2>1, <2>3 DEF OnceInv, ReadOnce
<1>3. ASSUME NEW x \in Terminal, AcceptText(x)
      PROVE  StoredKept' /\ ReadOnce'
  <2>1. PICK m \in Acceptable(x) :
          /\ m.kind = "text"
          /\ inbound' = IF IsNew(At[x], m)
               THEN [inbound EXCEPT ![At[x]] = @ \cup {[seq |-> m.seq, id |-> m.id]}]
               ELSE inbound
          /\ delivered' = IF IsNew(At[x], m)
               THEN [delivered EXCEPT ![At[x]] = Append(@, m.id)]
               ELSE delivered
    BY <1>3 DEF AcceptText
  <2>2. CASE ~IsNew(At[x], m)
    BY <1>1, <2>1, <2>2
  <2>3. CASE IsNew(At[x], m)
    <3>1. /\ m \in relay /\ m.from = Other(At[x])
          /\ inbound' = [inbound EXCEPT ![At[x]] = @ \cup {[seq |-> m.seq, id |-> m.id]}]
          /\ delivered' = [delivered EXCEPT ![At[x]] = Append(@, m.id)]
      BY <2>1, <2>3 DEF OnceInv, QueueHeld, Acceptable
    <3>2. m.id \in Nat
      BY <1>a, <3>1 DEF Blob
    <3>3. \A p \in Peer : inbound[p] \subseteq inbound'[p]
      BY <1>a, <3>1
    <3>4. RowKept(At[x], m)'
      BY <1>a, <3>1 DEF RowKept
    <3>5. /\ Len(delivered'[At[x]]) = Len(delivered[At[x]]) + 1
          /\ delivered'[At[x]][Len(delivered[At[x]]) + 1] = m.id
          /\ \A i \in 1 .. Len(delivered[At[x]]) :
                delivered'[At[x]][i] = delivered[At[x]][i]
      BY <1>a, <3>1, <3>2
    <3>6. \A p \in Peer \ {At[x]} : delivered'[p] = delivered[p]
      BY <1>a, <3>1
    <3>7. Len(delivered[At[x]]) \in Nat
      BY <1>a
    <3>8. ASSUME NEW p \in Peer, NEW i \in 1 .. Len(delivered'[p])
          PROVE  \E n \in relay' : /\ n.kind = "text" /\ n.from = Other(p)
                                   /\ n.id = delivered'[p][i] /\ RowKept(p, n)'
      <4>1. CASE p = At[x] /\ i = Len(delivered[p]) + 1
        BY <1>a, <2>1, <3>1, <3>4, <3>5, <4>1
      <4>2. CASE ~(p = At[x] /\ i = Len(delivered[p]) + 1)
        <5>1. i \in 1 .. Len(delivered[p]) /\ delivered'[p][i] = delivered[p][i]
          BY <3>5, <3>6, <3>7, <4>2
        <5> QED
          BY <1>b, <1>c, <3>3, <5>1
      <4> QED
        BY <4>1, <4>2
    <3>9. ReadOnce'
      <4> SUFFICES ASSUME NEW p \in Peer, NEW i \in 1 .. Len(delivered'[p]),
                          NEW j \in 1 .. Len(delivered'[p]),
                          delivered'[p][i] = delivered'[p][j]
                   PROVE  i = j
        BY DEF ReadOnce
      <4>1. \A k \in 1 .. Len(delivered[At[x]]) : delivered[At[x]][k] # m.id
        BY <2>1, <2>3, AcceptedAnew
      <4>2. CASE p = At[x]
        <5>1. i <= Len(delivered[p]) /\ j <= Len(delivered[p]) => i = j
          BY <3>5, <3>7, <4>2 DEF OnceInv, ReadOnce
        <5>2. /\ i \in 1 .. Len(delivered[p]) \/ i = Len(delivered[p]) + 1
              /\ j \in 1 .. Len(delivered[p]) \/ j = Len(delivered[p]) + 1
          BY <3>5, <3>7, <4>2
        <5>3. i \in 1 .. Len(delivered[p]) => delivered'[p][i] # m.id
          BY <3>5, <4>1, <4>2
        <5>4. j \in 1 .. Len(delivered[p]) => delivered'[p][j] # m.id
          BY <3>5, <4>1, <4>2
        <5> QED
          BY <3>5, <3>7, <4>2, <5>1, <5>2, <5>3, <5>4
      <4>3. CASE p # At[x]
        BY <3>6, <4>3 DEF OnceInv, ReadOnce
      <4> QED
        BY <4>2, <4>3
    <3> QED
      BY <3>8, <3>9 DEF StoredKept
  <2> QED
    BY <2>2, <2>3
<1> QED
  BY <1>1, <1>2, <1>3, RowsStep

\* No text is written to inbound_messages twice, for any number of terminals:
\* two fetches may accept the same blob, and a stale save of the contact lets
\* it be accepted again, but the row of its number stops the second write, and
\* the sweep of a fetch removes no row whose text could still be accepted.
THEOREM NothingReadTwice == Spec => []ReadOnce
<1>1. Init => TypeInv /\ OnceInv
  <2>1. Init => IdsGivenOnce /\ QueueHeld
    BY DEF Init, IdsGivenOnce, IsMade, QueueHeld, IdleFetch, IdleCmd
  <2>2. Init => StoredKept /\ ReadOnce
    BY DEF Init, StoredKept, ReadOnce
  <2> QED
    BY <2>1, <2>2, InitTypeInv DEF OnceInv
<1>2. TypeInv /\ OnceInv /\ [Next]_vars => (TypeInv /\ OnceInv)'
  BY NextTypeInv, NextIdsGivenOnce, NextQueueHeld, NextStored DEF OnceInv
<1>3. OnceInv => ReadOnce
  BY DEF OnceInv
<1> QED
  BY <1>1, <1>2, <1>3, PTL DEF Spec

-----------------------------------------------------------------------------
(* Serial commands never restore an old last_recv_seq *)

\* Every peer works at one terminal, which is named like the peer.
Solo == Terminal = Peer /\ \A p \in Peer : At[p] = p

\* One process at a time, and no copy of the contact that will be stored is
\* behind the stored one.
Exclusive == \A p \in Peer : fetch[p].pc = "idle" \/ cmd[p].pc = "idle"

CommandCurrent ==
    \A p \in Peer :
        cmd[p].pc # "idle" => cmd[p].mem.last_recv_seq = contact[p].last_recv_seq

ReceiptCurrent(p) ==
    fetch[p].pc \in {"rsave", "rpost", "rundo"} =>
        fetch[p].rmem.last_recv_seq = contact[p].last_recv_seq

FetchAhead(p) ==
    /\ fetch[p].pc \in {"collect", "drain", "merge", "save"} => fetch[p].back # "idle"
    /\ fetch[p].pc = "idle" => fetch[p].back = "idle"
    /\ fetch[p].back # "idle" => fetch[p].mem.last_recv_seq >= contact[p].last_recv_seq

SerialInv ==
    /\ Exclusive /\ CommandCurrent
    /\ \A p \in Peer : ReceiptCurrent(p) /\ FetchAhead(p)

LEMMA SerialCommand ==
    ASSUME Solo, TypeInv, SerialInv, NEW p \in Peer, Command(p)
    PROVE  /\ fetch' = fetch /\ fetch[p].pc = "idle"
           /\ \A q \in Peer : contact'[q].last_recv_seq = contact[q].last_recv_seq
           /\ \A q \in Peer \ {p} : cmd'[q] = cmd[q]
           /\ cmd'[p].pc # "idle" => cmd'[p].mem.last_recv_seq = contact[p].last_recv_seq
<1> USE DEF Solo
<1> USE DEF store, network, counts, history
<1>a. /\ contact \in [Peer -> Contact] /\ cmd \in [Peer -> CommandProcess]
      /\ cmd[p] \in CommandProcess /\ cmd[p].mem \in Contact
  BY DEF TypeInv, TypeOK, CommandProcess
<1>b. /\ Taken(cmd[p].mem) \in Contact
      /\ Taken(cmd[p].mem).last_recv_seq = cmd[p].mem.last_recv_seq
  BY <1>a, CounterTypes
<1>c. cmd[p].pc # "idle" =>
        fetch[p].pc = "idle" /\ cmd[p].mem.last_recv_seq = contact[p].last_recv_seq
  BY DEF SerialInv, Exclusive, CommandCurrent
<1>1. CASE SendLoad(p) \/ PushLoad(p)
  BY <1>1, <1>a DEF SendLoad, PushLoad, Free, CommandProcess
<1>2. CASE ResendLoad(p)
  BY <1>2, <1>a DEF ResendLoad, Free, IdleCmd, Pending
<1>3. CASE SendCommit(p)
  BY <1>3, <1>a, <1>b, <1>c DEF SendCommit, CommandProcess
<1>4. CASE PushCommit(p)
  BY <1>4, <1>a, <1>b, <1>c DEF PushCommit, CommandProcess
<1>5. CASE CommandRefresh(p)
  BY <1>5, <1>a, <1>c DEF CommandRefresh
<1>6. CASE CommandPost(p)
  <2>1. PICK o \in CommandPosts : \E c \in AfterPost(p, o) : cmd' = [cmd EXCEPT ![p] = c]
    BY <1>6 DEF CommandPost
  <2>2. \A c \in AfterPost(p, o) : c.pc # "idle" => c.mem = cmd[p].mem
    <3>1. [cmd[p] EXCEPT !.pc = AfterResend(o)].mem = cmd[p].mem
      BY <1>a DEF CommandProcess
    <3>2. [cmd[p] EXCEPT !.pc = "push", !.msg = NoBlob].mem = cmd[p].mem
      BY <1>a DEF CommandProcess
    <3>3. IdleCmd.pc = "idle"
      BY DEF IdleCmd
    <3> QED
      BY <3>1, <3>2, <3>3 DEF AfterPost
  <2> QED
    BY <1>6, <2>1, <2>2, <1>a, <1>c DEF CommandPost
<1>7. CASE ResendNext(p)
  BY <1>7, <1>a, <1>c DEF ResendNext, CommandProcess, HasOuter
<1>8. CASE ResendAnew(p)
  <2>1. PICK m \in cmd[p].todo \ outbound_pending[p] :
          LET mem == Taken([cmd[p].mem EXCEPT !.next_send_seq = m.seq])
              new == Text(p, m.seq, texts[p] + 1)
          IN  /\ contact' = [contact EXCEPT ![p] = mem]
              /\ cmd' = [cmd EXCEPT ![p].pc = "post", ![p].msg = new, ![p].mem = mem,
                                    ![p].todo = @ \ {m}]
    BY <1>8 DEF ResendAnew, HasOuter
  <2>2. Taken([cmd[p].mem EXCEPT !.next_send_seq = m.seq]).last_recv_seq
          = cmd[p].mem.last_recv_seq
    BY <1>a DEF Taken, Contact
  <2> QED
    BY <1>8, <2>1, <2>2, <1>a, <1>c DEF ResendAnew, CommandProcess, HasOuter
<1>9. CASE ResendMark(p)
  BY <1>9, <1>a, <1>c DEF ResendMark, CommandProcess
<1>10. CASE ResendEnd(p)
  BY <1>10, <1>a, <1>c DEF ResendEnd, IdleCmd
<1>11. CASE CommandFailover(p)
  BY <1>11, <1>a, <1>c DEF CommandFailover
<1> QED
  BY <1>1, <1>2, <1>3, <1>4, <1>5, <1>6, <1>7, <1>8, <1>9, <1>10, <1>11 DEF Command

LEMMA SerialReceipt ==
    ASSUME Solo, TypeInv, SerialInv, NEW p \in Peer, SendReceipt(p)
    PROVE  /\ cmd' = cmd /\ fetch[p].pc # "idle"
           /\ \A q \in Peer \ {p} : fetch'[q] = fetch[q]
           /\ \A q \in Peer : contact'[q].last_recv_seq = contact[q].last_recv_seq
           /\ ReceiptCurrent(p)' /\ FetchAhead(p)'
<1> USE DEF Solo
<1> USE DEF store, network, counts, history
<1>a. /\ contact \in [Peer -> Contact] /\ fetch \in [Peer -> FetchProcess]
      /\ fetch[p] \in FetchProcess /\ fetch[p].rmem \in Contact /\ contact[p] \in Contact
  BY DEF TypeInv, TypeOK, FetchProcess
<1>b. /\ Taken(fetch[p].rmem) \in Contact
      /\ Taken(fetch[p].rmem).last_recv_seq = fetch[p].rmem.last_recv_seq
  BY <1>a, CounterTypes
<1>c. ReceiptCurrent(p) /\ FetchAhead(p)
  BY DEF SerialInv
<1> USE DEF ReceiptCurrent, FetchAhead
<1>1. CASE ReceiptLoad(p)
  BY <1>1, <1>a, <1>c DEF ReceiptLoad, FetchProcess
<1>2. CASE ReceiptSave(p)
  BY <1>2, <1>a, <1>b, <1>c DEF ReceiptSave, FetchProcess
<1>3. CASE ReceiptRefresh(p) \/ ReceiptFailover(p)
  BY <1>3, <1>a, <1>c DEF ReceiptRefresh, ReceiptFailover
<1>4. CASE ReceiptPost(p)
  <2>1. PICK o \in ReceiptPosts : fetch' = [fetch EXCEPT ![p].pc = AfterReceiptPost(o)]
    BY <1>4 DEF ReceiptPost
  <2> QED
    BY <1>4, <2>1, <1>a, <1>c DEF ReceiptPost, AfterReceiptPost, FetchProcess
<1>5. CASE ReceiptDone(p) \/ ReceiptQueue(p)
  <2>1. fetch' = [fetch EXCEPT ![p] = Returned(@)]
    BY <1>5 DEF ReceiptDone, ReceiptQueue
  <2>2. /\ Returned(fetch[p]).pc \in {"merge", "flush"}
        /\ Returned(fetch[p]).pc = "merge" => fetch[p].back = "merge"
        /\ Returned(fetch[p]).back = fetch[p].back
        /\ Returned(fetch[p]).mem = fetch[p].mem
    BY <1>a DEF Returned, FetchProcess
  <2> HIDE DEF FetchAhead, ReceiptCurrent
  <2>3. ReceiptCurrent(p)' /\ FetchAhead(p)'
    BY <1>5, <1>c, <2>1, <2>2, <1>a DEF ReceiptDone, ReceiptQueue, FetchAhead, ReceiptCurrent
  <2> QED
    BY <1>5, <2>1, <2>3, <1>a DEF ReceiptDone, ReceiptQueue
<1>6. CASE ReceiptUndo(p)
  <2>1. Untaken(fetch[p].rmem).last_recv_seq = fetch[p].rmem.last_recv_seq
    BY <1>6, <1>a, UntakenType DEF ReceiptUndo, TypeInv, ReceiptTookSeq
  <2> QED
    BY <1>6, <2>1, <1>a, <1>c DEF ReceiptUndo, FetchProcess
<1> QED
  BY <1>1, <1>2, <1>3, <1>4, <1>5, <1>6 DEF SendReceipt

\* Sending a receipt stores no contact of another peer.
LEMMA ReceiptContact ==
    ASSUME Solo, NEW p \in Peer, contact \in [Peer -> Contact], SendReceipt(p)
    PROVE  \A q \in Peer \ {p} : contact'[q] = contact[q]
BY DEF Solo, SendReceipt, ReceiptLoad, ReceiptSave, ReceiptRefresh, ReceiptPost, ReceiptFailover,
       ReceiptDone, ReceiptUndo, ReceiptQueue, store

LEMMA SerialFetch ==
    ASSUME Solo, TypeInv, SerialInv, NEW p \in Peer, Fetch(p)
    PROVE  /\ cmd' = cmd /\ cmd[p].pc = "idle"
           /\ \A q \in Peer \ {p} : fetch'[q] = fetch[q] /\ contact'[q] = contact[q]
           /\ contact'[p].last_recv_seq >= contact[p].last_recv_seq
           /\ ReceiptCurrent(p)' /\ FetchAhead(p)'
<1> USE DEF Solo
<1> USE DEF store, network, counts, history
<1>a. /\ contact \in [Peer -> Contact] /\ fetch \in [Peer -> FetchProcess]
      /\ fetch[p] \in FetchProcess /\ fetch[p].mem \in Contact /\ contact[p] \in Contact
      /\ contact[p].last_recv_seq \in Nat /\ fetch[p].mem.last_recv_seq \in Nat
  BY DEF TypeInv, TypeOK, FetchProcess, Contact
<1>b. /\ Accepted(fetch[p].mem) \in Contact
      /\ Accepted(fetch[p].mem).last_recv_seq = fetch[p].mem.last_recv_seq + 1
  BY <1>a, CounterTypes
<1>c. ReceiptCurrent(p) /\ FetchAhead(p)
  BY DEF SerialInv
<1>d. fetch[p].pc # "idle" => cmd[p].pc = "idle"
  BY DEF SerialInv, Exclusive
<1>1. CASE FetchBegin(p) \/ FlushCommand(p)
  <2>1. /\ fetch[p].pc = "idle" /\ cmd[p].pc = "idle" /\ cmd' = cmd /\ contact' = contact
    BY <1>1 DEF FetchBegin, FlushCommand, Free, Pending, Queued
  <2>2. CASE FetchBegin(p)
    BY <2>1, <2>2, <1>a DEF FetchBegin, IdleFetch, ReceiptCurrent, FetchAhead,
        Pending, Queued
  <2>3. CASE FlushCommand(p)
    BY <2>1, <2>3, <1>a DEF FlushCommand, IdleFetch, ReceiptCurrent, FetchAhead, Queued
  <2> QED
    BY <1>1, <2>2, <2>3
<1>2. CASE FlushNext(p)
  BY <1>2, <1>a, <1>c, <1>d DEF FlushNext, FetchProcess, ReceiptCurrent, FetchAhead
<1>3. CASE FlushEnd(p)
  <2>1. CASE fetch[p].back = "idle"
    BY <2>1, <1>3, <1>a, <1>d DEF FlushEnd, IdleFetch, ReceiptCurrent, FetchAhead
  <2>2. CASE fetch[p].back # "idle"
    <3>1. fetch' = [fetch EXCEPT ![p] = [fetch[p] EXCEPT !.pc = "collect"]]
      BY <2>2, <1>3 DEF FlushEnd
    <3> QED
      BY <2>2, <3>1, <1>3, <1>a, <1>c, <1>d
         DEF FlushEnd, FetchProcess, ReceiptCurrent, FetchAhead
  <2> QED
    BY <2>1, <2>2
<1>4. CASE SendReceipt(p)
  BY <1>4, <1>a, <1>d, SerialReceipt, ReceiptContact
<1>5. CASE Collect(p)
  BY <1>5, <1>a, <1>c, <1>d DEF Collect, FetchProcess, ReceiptCurrent, FetchAhead
<1>6. CASE AcceptText(p)
  <2>1. PICK m : /\ contact' = [contact EXCEPT ![p] = Accepted(fetch[p].mem)]
                 /\ fetch' = [fetch EXCEPT ![p].pc = "rload", ![p].rid = m.id,
                                ![p].back = "merge", ![p].mem = Accepted(fetch[p].mem),
                                ![p].queue = @ \ {m}]
    BY <1>6 DEF AcceptText
  <2>2. fetch[p].pc = "drain" /\ cmd' = cmd
    BY <1>6 DEF AcceptText
  <2> QED
    BY <2>1, <2>2, <1>a, <1>b, <1>c, <1>d DEF FetchProcess, ReceiptCurrent, FetchAhead
<1>7. CASE AcceptReceipt(p)
  <2>1. PICK m : fetch' = [fetch EXCEPT ![p].pc = "save", ![p].mem = Accepted(fetch[p].mem),
                                        ![p].queue = @ \ {m}]
    BY <1>7 DEF AcceptReceipt
  <2>2. fetch[p].pc = "drain" /\ cmd' = cmd /\ contact' = contact
    BY <1>7 DEF AcceptReceipt
  <2> QED
    BY <2>1, <2>2, <1>a, <1>b, <1>c, <1>d DEF FetchProcess, ReceiptCurrent, FetchAhead
<1>8. CASE AcceptAux(p)
  <2>1. PICK m \in Acceptable(p), pc \in {"save", "drain"} :
          fetch' = [fetch EXCEPT ![p].pc = pc, ![p].mem = Accepted(fetch[p].mem),
                                 ![p].queue = @ \ {m}]
    BY <1>8 DEF AcceptAux
  <2>2. fetch[p].pc = "drain" /\ cmd' = cmd /\ contact' = contact
    BY <1>8 DEF AcceptAux
  <2> QED
    BY <2>1, <2>2, <1>a, <1>b, <1>c, <1>d DEF FetchProcess, ReceiptCurrent, FetchAhead
<1>9. CASE Merge(p)
  BY <1>9, <1>a, <1>c, <1>d DEF Merge, FetchProcess, Contact, ReceiptCurrent, FetchAhead
<1>10. CASE Save(p)
  BY <1>10, <1>a, <1>c, <1>d DEF Save, FetchProcess, ReceiptCurrent, FetchAhead
<1>11. CASE FetchEnd(p)
  BY <1>11, <1>a, <1>d DEF FetchEnd, IdleFetch, ReceiptCurrent, FetchAhead
<1>12. CASE NextTag(p)
  BY <1>12, <1>a, <1>c, <1>d DEF NextTag, FetchProcess, ReceiptCurrent, FetchAhead
<1> QED
  BY <1>1, <1>2, <1>3, <1>4, <1>5, <1>6, <1>7, <1>8, <1>9, <1>10, <1>11, <1>12 DEF Fetch

Monotone == \A p \in Peer : contact'[p].last_recv_seq >= contact[p].last_recv_seq

LEMMA NextSerial ==
    ASSUME Solo, TypeInv, SerialInv, [Next]_vars
    PROVE  SerialInv' /\ Monotone
<1> USE DEF Solo
<1> USE DEF store, network, counts, history
<1>a. /\ contact \in [Peer -> Contact] /\ fetch \in [Peer -> FetchProcess]
      /\ cmd \in [Peer -> CommandProcess]
      /\ \A p \in Peer : contact[p].last_recv_seq \in Nat
  BY DEF TypeInv, TypeOK, Contact
<1>b. \A p \in Peer : ReceiptCurrent(p) /\ FetchAhead(p)
  BY DEF SerialInv
<1>c. ASSUME Exclusive', CommandCurrent',
             \A p \in Peer : ReceiptCurrent(p)' /\ FetchAhead(p)'
      PROVE  SerialInv'
  BY <1>c DEF SerialInv
<1>1. CASE UNCHANGED vars
  BY <1>1, <1>a DEF vars, SerialInv, Exclusive, CommandCurrent, ReceiptCurrent, FetchAhead, Monotone
<1>2. ASSUME NEW p \in Peer, Command(p)
      PROVE  SerialInv' /\ Monotone
  <2>1. /\ fetch' = fetch /\ fetch[p].pc = "idle"
        /\ \A q \in Peer : contact'[q].last_recv_seq = contact[q].last_recv_seq
        /\ \A q \in Peer \ {p} : cmd'[q] = cmd[q]
        /\ cmd'[p].pc # "idle" => cmd'[p].mem.last_recv_seq = contact[p].last_recv_seq
    BY <1>2, SerialCommand
  <2>2. Exclusive'
    BY <2>1 DEF SerialInv, Exclusive
  <2>3. CommandCurrent'
    BY <2>1 DEF SerialInv, CommandCurrent
  <2>4. \A q \in Peer : ReceiptCurrent(q)' /\ FetchAhead(q)'
    BY <2>1, <1>b DEF ReceiptCurrent, FetchAhead
  <2> QED
    BY <2>1, <2>2, <2>3, <2>4, <1>a, <1>c DEF Monotone
<1>3. ASSUME NEW p \in Peer, Fetch(p)
      PROVE  SerialInv' /\ Monotone
  <2>1. /\ cmd' = cmd /\ cmd[p].pc = "idle"
        /\ \A q \in Peer \ {p} : fetch'[q] = fetch[q] /\ contact'[q] = contact[q]
        /\ contact'[p].last_recv_seq >= contact[p].last_recv_seq
        /\ ReceiptCurrent(p)' /\ FetchAhead(p)'
    BY <1>3, SerialFetch
  <2>2. Exclusive'
    BY <2>1 DEF SerialInv, Exclusive
  <2>3. CommandCurrent'
    BY <2>1 DEF SerialInv, CommandCurrent
  <2>4. \A q \in Peer \ {p} : ReceiptCurrent(q)' /\ FetchAhead(q)'
    BY <2>1, <1>b DEF ReceiptCurrent, FetchAhead
  <2> QED
    BY <2>1, <2>2, <2>3, <2>4, <1>a, <1>c DEF Monotone
<1>4. ASSUME NEW p \in Peer, KillFetch(p)
      PROVE  SerialInv' /\ Monotone
  BY <1>4, <1>a DEF KillFetch, IdleFetch, SerialInv, Exclusive, CommandCurrent, ReceiptCurrent,
                    FetchAhead, Monotone
<1>5. ASSUME NEW p \in Peer, KillCommand(p)
      PROVE  SerialInv' /\ Monotone
  BY <1>5, <1>a DEF KillCommand, IdleCmd, SerialInv, Exclusive, CommandCurrent, ReceiptCurrent,
                    FetchAhead, Monotone
<1>6. CASE Expire
  BY <1>6, <1>a DEF Expire, SerialInv, Exclusive, CommandCurrent, ReceiptCurrent, FetchAhead, Monotone
<1> QED
  BY <1>1, <1>2, <1>3, <1>4, <1>5, <1>6 DEF Next

-----------------------------------------------------------------------------
(* One process at a time: texts keep their order, none is acknowledged unread *)

\* The texts of p that a relay holds or a resend may still post.
Texts(p) == {m \in relay \cup outbound_pending[p] : m.kind = "text" /\ m.from = p}

\* A command posts what is pending, and each row it listed once.
CommandHolds(p) ==
    /\ \A m \in outbound_pending[p] : m.kind = "text" /\ m.from = p
    /\ cmd[p].todo \subseteq outbound_pending[p]
    /\ cmd[p].pc \in {"idle", "send", "push"} => ~ cmd[p].again
    /\ ~ cmd[p].again => cmd[p].todo = {}
    /\ cmd[p].pc \in {"post", "mark"} =>
         /\ cmd[p].msg \in outbound_pending[p] \/ cmd[p].msg.kind = "aux"
         /\ cmd[p].msg \notin cmd[p].todo

\* No copy of a contact that may be stored takes a text's number again.
CountersAbove(p) ==
    \A m \in Texts(p) :
        /\ m.seq < contact[p].next_send_seq
        /\ cmd[p].pc # "idle" => m.seq < cmd[p].mem.next_send_seq
        /\ fetch[p].back # "idle" => m.seq < fetch[p].mem.next_send_seq
        /\ fetch[p].pc = "rsave" => m.seq < fetch[p].rmem.next_send_seq
        /\ fetch[p].pc \in {"rpost", "rundo"} => m.seq < fetch[p].rmem.next_send_seq - 1

\* Texts are numbered in the order of their commits.
TextsInOrder(p) ==
    /\ \A m \in Texts(p) : m.id \in 1 .. texts[p]
    /\ \A m, x \in Texts(p) : m.id <= x.id => m.seq <= x.seq

SendSide(p) == CommandHolds(p) /\ CountersAbove(p) /\ TextsInOrder(p)

\* Text n of the other peer is on a relay, at or below last_recv_seq.
Behind(p, n) ==
    \E m \in relay : /\ m.kind = "text" /\ m.from = Other(p) /\ m.id = n
                     /\ m.seq <= contact[p].last_recv_seq

\* What p collected is on a relay, and what it read is behind it.
ReadSide(p) ==
    /\ \A m \in fetch[p].queue : m \in relay /\ m.from = Other(p)
    /\ \A r \in inbound[p] : r.seq <= contact[p].last_recv_seq
    /\ \A n \in Nat : Stored(p, n) => Behind(p, n)

Receipting == {"rload", "rsave", "rpost", "rdone", "rundo", "rqueue"}

\* Receipts name stored texts only.
ReceiptSide(p) ==
    /\ \A n \in pending_receipts[p] \cup fetch[p].todo : Stored(p, n)
    /\ fetch[p].pc \in Receipting => Stored(p, fetch[p].rid)
    /\ \A m \in relay : m.kind = "receipt" /\ m.from = p => Stored(p, m.id)
    /\ \A n \in acked[p] : Stored(Other(p), n)

OrderInv == \A p \in Peer : SendSide(p) /\ ReadSide(p) /\ ReceiptSide(p)

\* A row is appended: what was stored stays so.
LEMMA StoredAppend ==
    ASSUME Solo, NEW p \in Peer, delivered \in [Peer -> Seq(Nat)], NEW k \in Nat,
           delivered' = [delivered EXCEPT ![p] = Append(@, k)]
    PROVE  /\ \A q \in Peer : \A n \in Nat : Stored(q, n) => Stored(q, n)'
           /\ Stored(p, k)'
           /\ \A q \in Peer : \A n \in Nat : Stored(q, n)' => Stored(q, n) \/ (q = p /\ n = k)
<1> USE DEF Solo
<1>1. /\ delivered[p] \in Seq(Nat)
      /\ delivered'[p] = Append(delivered[p], k)
      /\ \A q \in Peer \ {p} : delivered'[q] = delivered[q]
  OBVIOUS
<1>2. /\ Len(delivered'[p]) = Len(delivered[p]) + 1 /\ Len(delivered[p]) \in Nat
      /\ delivered'[p][Len(delivered[p]) + 1] = k
      /\ \A i \in 1 .. Len(delivered[p]) : delivered'[p][i] = delivered[p][i]
  BY <1>1
<1>3. \A q \in Peer \ {p} : \A n \in Nat : Stored(q, n)' <=> Stored(q, n)
  BY <1>1 DEF Stored
<1>4. Stored(p, k)'
  BY <1>2 DEF Stored
<1>5. \A n \in Nat : Stored(p, n) => Stored(p, n)'
  BY <1>2 DEF Stored
<1>6. \A n \in Nat : Stored(p, n)' => Stored(p, n) \/ n = k
  BY <1>2 DEF Stored
<1> QED
  BY <1>3, <1>4, <1>5, <1>6

\* The part of a step of p that its peer can see.
LEMMA StepOfOne ==
    ASSUME Solo, TypeInv, NEW p \in Peer,
           Command(p) \/ Fetch(p) \/ KillFetch(p) \/ KillCommand(p)
    PROVE  \A q \in Peer \ {p} :
             /\ contact'[q] = contact[q] /\ outbound_pending'[q] = outbound_pending[q]
             /\ pending_receipts'[q] = pending_receipts[q] /\ inbound'[q] = inbound[q]
             /\ fetch'[q] = fetch[q] /\ cmd'[q] = cmd[q]
             /\ texts'[q] = texts[q] /\ delivered'[q] = delivered[q] /\ acked'[q] = acked[q]
             /\ dropped'[q] = dropped[q]
<1> USE DEF Solo
<1> SUFFICES ASSUME NEW q \in Peer, q # p
             PROVE  /\ contact'[q] = contact[q] /\ outbound_pending'[q] = outbound_pending[q]
                    /\ pending_receipts'[q] = pending_receipts[q] /\ inbound'[q] = inbound[q]
                    /\ fetch'[q] = fetch[q] /\ cmd'[q] = cmd[q]
                    /\ texts'[q] = texts[q] /\ delivered'[q] = delivered[q]
                    /\ acked'[q] = acked[q] /\ dropped'[q] = dropped[q]
  OBVIOUS
<1> USE DEF store, network, counts, history
<1>t. /\ contact \in [Peer -> Contact] /\ outbound_pending \in [Peer -> SUBSET Blob]
      /\ pending_receipts \in [Peer -> SUBSET Nat] /\ inbound \in [Peer -> SUBSET Row]
      /\ fetch \in [Peer -> FetchProcess] /\ cmd \in [Peer -> CommandProcess]
      /\ texts \in [Peer -> Nat] /\ delivered \in [Peer -> Seq(Nat)]
      /\ acked \in [Peer -> SUBSET Nat] /\ dropped \in [Peer -> SUBSET Nat]
  BY DEF TypeInv, TypeOK
<1>1. CASE SendLoad(p) \/ SendCommit(p)
  BY <1>1, <1>t DEF SendLoad, SendCommit
<1>2. CASE PushLoad(p) \/ PushCommit(p) \/ CommandRefresh(p)
  BY <1>2, <1>t DEF PushLoad, PushCommit, CommandRefresh
<1>3. CASE CommandPost(p) \/ CommandFailover(p)
  BY <1>3, <1>t DEF CommandPost, CommandFailover
<1>4. CASE ResendLoad(p) \/ ResendNext(p)
  BY <1>4, <1>t DEF ResendLoad, ResendNext, Pending, HasOuter
<1>5. CASE ResendAnew(p)
  BY <1>5, <1>t DEF ResendAnew, HasOuter
<1>6. CASE ResendMark(p) \/ ResendEnd(p)
  BY <1>6, <1>t DEF ResendMark, ResendEnd
<1>7. CASE FetchBegin(p)
  BY <1>7, <1>t DEF FetchBegin, Pending, Queued
<1>8. CASE FlushCommand(p) \/ FlushNext(p) \/ FlushEnd(p)
  BY <1>8, <1>t DEF FlushCommand, FlushNext, FlushEnd, Queued
<1>9. CASE ReceiptLoad(p) \/ ReceiptSave(p) \/ ReceiptRefresh(p)
  BY <1>9, <1>t DEF ReceiptLoad, ReceiptSave, ReceiptRefresh
<1>10. CASE ReceiptPost(p) \/ ReceiptFailover(p)
  BY <1>10, <1>t DEF ReceiptPost, ReceiptFailover
<1>11. CASE ReceiptDone(p) \/ ReceiptUndo(p) \/ ReceiptQueue(p)
  BY <1>11, <1>t DEF ReceiptDone, ReceiptUndo, ReceiptQueue
<1>12. CASE Collect(p)
  BY <1>12, <1>t DEF Collect
<1>13. CASE AcceptText(p)
  BY <1>13, <1>t DEF AcceptText
<1>14. CASE AcceptReceipt(p)
  BY <1>14, <1>t DEF AcceptReceipt
<1>15. CASE AcceptAux(p)
  BY <1>15, <1>t DEF AcceptAux
<1>16. CASE Merge(p) \/ Save(p) \/ NextTag(p) \/ FetchEnd(p)
  BY <1>16, <1>t DEF Merge, Save, NextTag, FetchEnd
<1>17. CASE KillFetch(p) \/ KillCommand(p)
  BY <1>17, <1>t DEF KillFetch, KillCommand
<1> QED
  BY <1>1, <1>2, <1>3, <1>4, <1>5, <1>6, <1>7, <1>8, <1>9, <1>10, <1>11, <1>12, <1>13, <1>14,
     <1>15, <1>16, <1>17 DEF Command, Fetch, SendReceipt

\* A command of p when p runs nothing else: the rows and texts of p, and what is posted.
LEMMA CommandOrder ==
    ASSUME Solo, TypeInv, SerialInv, NEW p \in Peer, SendSide(p), Command(p)
    PROVE  /\ UNCHANGED <<pending_receipts, inbound, delivered, acked>>
           /\ \A m \in relay' \ relay : m \in outbound_pending[p] \/ m.kind = "aux"
           /\ CommandHolds(p)'
           /\ SendCommit(p) \/ (texts' = texts /\ outbound_pending'[p] \subseteq outbound_pending[p])
           /\ ~ SendCommit(p) => CountersAbove(p)'
<1> USE DEF Solo
<1> USE DEF store, network, counts, history
<1>a. /\ contact \in [Peer -> Contact] /\ cmd \in [Peer -> CommandProcess]
      /\ outbound_pending \in [Peer -> SUBSET Blob]
      /\ cmd[p] \in CommandProcess /\ cmd[p].mem \in Contact /\ cmd[p].todo \in SUBSET Blob
      /\ contact[p].next_send_seq \in Nat /\ cmd[p].mem.next_send_seq \in Nat
      /\ texts \in [Peer -> Nat] /\ relay \subseteq Blob
  BY DEF TypeInv, TypeOK, CommandProcess, Contact
<1>b. Taken(cmd[p].mem).next_send_seq = cmd[p].mem.next_send_seq + 1
  BY <1>a, CounterTypes
<1>c. CommandHolds(p) /\ CountersAbove(p)
  BY DEF SendSide
<1>d. \A m \in Texts(p) : m.seq \in Nat
  BY <1>a DEF Texts, Blob
<1>f. fetch' = fetch /\ fetch[p].pc = "idle" /\ fetch[p].back = "idle"
  BY SerialCommand DEF SerialInv, FetchAhead
\* The texts of p shrink, and the counters do not fall.
<1>g. ASSUME Texts(p)' \subseteq Texts(p),
             \/ contact'[p] = contact[p]
             \/ cmd[p].pc # "idle" /\ contact'[p].next_send_seq \in
                    {cmd[p].mem.next_send_seq, cmd[p].mem.next_send_seq + 1},
             cmd'[p].pc # "idle" =>
                \/ cmd'[p].mem.next_send_seq = contact[p].next_send_seq
                \/ cmd[p].pc # "idle" /\ cmd'[p].mem.next_send_seq \in
                    {cmd[p].mem.next_send_seq, cmd[p].mem.next_send_seq + 1}
      PROVE  CountersAbove(p)'
  <2> SUFFICES ASSUME NEW m \in Texts(p)
               PROVE  /\ m.seq < contact'[p].next_send_seq
                      /\ cmd'[p].pc # "idle" => m.seq < cmd'[p].mem.next_send_seq
    BY <1>g, <1>f DEF CountersAbove
  <2>1. /\ m.seq \in Nat /\ m.seq < contact[p].next_send_seq
        /\ cmd[p].pc # "idle" => m.seq < cmd[p].mem.next_send_seq
    BY <1>c, <1>d DEF CountersAbove
  <2> QED
    BY <1>a, <1>g, <2>1
<1>1. CASE SendLoad(p) \/ PushLoad(p)
  <2>1. /\ cmd[p].pc = "idle" /\ UNCHANGED <<store, relay, texts, delivered, acked>>
        /\ cmd'[p].pc \in {"send", "push"} /\ cmd'[p].mem = contact[p]
        /\ cmd'[p].again = cmd[p].again /\ cmd'[p].todo = cmd[p].todo
    BY <1>1, <1>a DEF SendLoad, PushLoad, Free, CommandProcess
  <2>2. Texts(p)' = Texts(p)
    BY <2>1 DEF Texts
  <2>3. CommandHolds(p)'
    BY <1>c, <2>1 DEF CommandHolds
  <2> QED
    BY <1>g, <2>1, <2>2, <2>3
<1>2. CASE ResendLoad(p)
  <2>1. /\ cmd[p].pc = "idle" /\ UNCHANGED <<store, relay, texts, delivered, acked>>
        /\ cmd'[p].pc = "resend" /\ cmd'[p].mem = contact[p]
        /\ cmd'[p].again /\ cmd'[p].todo \subseteq outbound_pending[p]
    BY <1>2, <1>a DEF ResendLoad, Free, IdleCmd, Pending
  <2>2. Texts(p)' = Texts(p)
    BY <2>1 DEF Texts
  <2>3. CommandHolds(p)'
    BY <1>c, <2>1 DEF CommandHolds
  <2> QED
    BY <1>g, <2>1, <2>2, <2>3
<1>3. CASE SendCommit(p)
  <2> DEFINE m == Text(p, cmd[p].mem.next_send_seq, texts[p] + 1)
  <2>1. /\ cmd[p].pc = "send" /\ cmd'[p].pc = "post" /\ cmd'[p].msg = m
        /\ cmd'[p].again = cmd[p].again /\ cmd'[p].todo = cmd[p].todo
        /\ outbound_pending'[p] = outbound_pending[p] \cup {m}
        /\ UNCHANGED <<pending_receipts, inbound, relay, delivered, acked>>
    BY <1>3, <1>a DEF SendCommit, CommandProcess
  <2>2. m.kind = "text" /\ m.from = p
    BY DEF Text
  <2>3. cmd'[p].todo = {}
    BY <1>c, <2>1 DEF CommandHolds
  <2> HIDE DEF m
  <2>4. CommandHolds(p)'
    BY <1>c, <2>1, <2>2, <2>3 DEF CommandHolds
  <2> QED
    BY <1>3, <2>1, <2>4
<1>4. CASE PushCommit(p)
  <2>1. /\ cmd[p].pc = "push" /\ cmd'[p].pc = "post" /\ cmd'[p].msg.kind = "aux"
        /\ cmd'[p].again = cmd[p].again /\ cmd'[p].todo = cmd[p].todo
        /\ cmd'[p].mem = Taken(cmd[p].mem) /\ contact'[p] = Taken(cmd[p].mem)
        /\ UNCHANGED <<outbound_pending, pending_receipts, inbound, relay, history>>
    BY <1>4, <1>a DEF PushCommit, CommandProcess, Aux
  <2>2. Texts(p)' = Texts(p)
    BY <2>1 DEF Texts
  <2>3. CommandHolds(p)'
    BY <1>c, <2>1 DEF CommandHolds
  <2> QED
    BY <1>b, <1>g, <2>1, <2>2, <2>3
<1>5. CASE CommandRefresh(p)
  <2>1. /\ cmd[p].pc = "post" /\ cmd' = cmd /\ contact'[p] = cmd[p].mem
        /\ UNCHANGED <<outbound_pending, pending_receipts, inbound, relay, history>>
    BY <1>5, <1>a DEF CommandRefresh
  <2>2. Texts(p)' = Texts(p)
    BY <2>1 DEF Texts
  <2>3. CommandHolds(p)'
    BY <1>c, <2>1 DEF CommandHolds
  <2> QED
    BY <1>g, <2>1, <2>2, <2>3
<1>6. CASE CommandPost(p)
  <2>1. /\ cmd[p].pc = "post" /\ UNCHANGED <<store, texts, delivered, acked>>
        /\ relay' = relay \/ relay' = relay \cup {cmd[p].msg}
    BY <1>6 DEF CommandPost
  <2>2. cmd[p].msg \in outbound_pending[p] \/ cmd[p].msg.kind = "aux"
    BY <1>c, <2>1 DEF CommandHolds
  <2>3. Texts(p)' \subseteq Texts(p)
    BY <2>1, <2>2 DEF Texts
  <2>o. PICK o \in CommandPosts : \E c \in AfterPost(p, o) : cmd' = [cmd EXCEPT ![p] = c]
    BY <1>6 DEF CommandPost
  <2>4. PICK c \in AfterPost(p, o) : cmd' = [cmd EXCEPT ![p] = c]
    BY <2>o
  <2>5. \/ c = IdleCmd
        \/ /\ c.pc \in {"mark", "resend"} /\ cmd[p].again /\ c.again
           /\ c.mem = cmd[p].mem /\ c.todo = cmd[p].todo /\ c.msg = cmd[p].msg
        \/ /\ c.pc = "push" /\ ~cmd[p].again /\ ~c.again
           /\ c.mem = cmd[p].mem /\ c.todo = cmd[p].todo
    <3>1. /\ [cmd[p] EXCEPT !.pc = AfterResend(o)].again = cmd[p].again
          /\ [cmd[p] EXCEPT !.pc = AfterResend(o)].mem = cmd[p].mem
          /\ [cmd[p] EXCEPT !.pc = AfterResend(o)].todo = cmd[p].todo
          /\ [cmd[p] EXCEPT !.pc = AfterResend(o)].msg = cmd[p].msg
          /\ [cmd[p] EXCEPT !.pc = AfterResend(o)].pc \in {"mark", "resend"}
      BY <1>a DEF CommandProcess, AfterResend
    <3>2. /\ [cmd[p] EXCEPT !.pc = "push", !.msg = NoBlob].again = cmd[p].again
          /\ [cmd[p] EXCEPT !.pc = "push", !.msg = NoBlob].mem = cmd[p].mem
          /\ [cmd[p] EXCEPT !.pc = "push", !.msg = NoBlob].todo = cmd[p].todo
          /\ [cmd[p] EXCEPT !.pc = "push", !.msg = NoBlob].pc = "push"
      BY <1>a DEF CommandProcess
    <3>3. CASE cmd[p].again
      BY <3>1, <3>3 DEF AfterPost
    <3>4. CASE ~cmd[p].again
      BY <3>2, <3>4 DEF AfterPost
    <3> QED
      BY <3>3, <3>4
  <2>6. cmd'[p] = c
    BY <2>4, <1>a
  <2>7. CommandHolds(p)'
    BY <1>c, <2>1, <2>5, <2>6 DEF CommandHolds, IdleCmd
  <2>8. cmd'[p].pc # "idle" => cmd'[p].mem = cmd[p].mem
    BY <2>5, <2>6 DEF IdleCmd
  <2> QED
    BY <1>g, <2>1, <2>2, <2>3, <2>7, <2>8
<1>7. CASE ResendNext(p)
  <2>1. PICK m \in outbound_pending[p] :
          cmd' = [cmd EXCEPT ![p].pc = "post", ![p].msg = m, ![p].todo = @ \ {m}]
    BY <1>7 DEF ResendNext, HasOuter
  <2>2. /\ cmd[p].pc = "resend" /\ UNCHANGED <<store, relay, texts, delivered, acked>>
        /\ cmd'[p].pc = "post" /\ cmd'[p].msg = m /\ cmd'[p].todo = cmd[p].todo \ {m}
        /\ cmd'[p].again = cmd[p].again /\ cmd'[p].mem = cmd[p].mem
    BY <1>7, <1>a, <2>1 DEF ResendNext, CommandProcess, HasOuter
  <2>3. Texts(p)' = Texts(p)
    BY <2>2 DEF Texts
  <2>4. CommandHolds(p)'
    BY <1>c, <2>2 DEF CommandHolds
  <2> QED
    BY <1>g, <2>2, <2>3, <2>4
<1>8. CASE ResendAnew(p)
  <2>1. cmd[p].todo \ outbound_pending[p] # {}
    BY <1>8 DEF ResendAnew, HasOuter
  <2> QED
    BY <1>c, <2>1 DEF CommandHolds
<1>9. CASE ResendMark(p)
  <2>1. /\ cmd[p].pc = "mark"
        /\ UNCHANGED <<contact, pending_receipts, inbound, relay, history>>
        /\ outbound_pending'[p] = outbound_pending[p] \ {cmd[p].msg}
        /\ cmd'[p].pc = "resend" /\ cmd'[p].todo = cmd[p].todo
        /\ cmd'[p].again = cmd[p].again /\ cmd'[p].mem = cmd[p].mem
    BY <1>9, <1>a DEF ResendMark, CommandProcess
  <2>2. Texts(p)' \subseteq Texts(p)
    BY <2>1 DEF Texts
  <2>3. CommandHolds(p)'
    BY <1>c, <2>1 DEF CommandHolds
  <2> QED
    BY <1>g, <2>1, <2>2, <2>3
<1>10. CASE ResendEnd(p)
  <2>1. /\ UNCHANGED <<store, relay, texts, delivered, acked>> /\ cmd'[p] = IdleCmd
    BY <1>10, <1>a DEF ResendEnd
  <2>2. Texts(p)' = Texts(p)
    BY <2>1 DEF Texts
  <2>3. CommandHolds(p)'
    BY <1>c, <2>1 DEF CommandHolds, IdleCmd
  <2> QED
    BY <1>g, <2>1, <2>2, <2>3 DEF IdleCmd
<1>11. CASE CommandFailover(p)
  <2>1. /\ cmd[p].pc = "post" /\ UNCHANGED <<store, cmd, texts, delivered, acked>>
        /\ relay' = relay \cup {cmd[p].msg}
    BY <1>11 DEF CommandFailover
  <2>2. cmd[p].msg \in outbound_pending[p] \/ cmd[p].msg.kind = "aux"
    BY <1>c, <2>1 DEF CommandHolds
  <2>3. Texts(p)' \subseteq Texts(p)
    BY <2>1, <2>2 DEF Texts
  <2>4. CommandHolds(p)'
    BY <1>c, <2>1 DEF CommandHolds
  <2> QED
    BY <1>g, <2>1, <2>2, <2>3, <2>4
<1> QED
  BY <1>1, <1>2, <1>3, <1>4, <1>5, <1>6, <1>7, <1>8, <1>9, <1>10, <1>11 DEF Command

\* A step of p's fetch that stores no text: every part of the invariant it can touch.
Quiet(p) ==
    /\ texts' = texts /\ delivered' = delivered /\ cmd' = cmd
    /\ outbound_pending'[p] \subseteq outbound_pending[p] /\ inbound'[p] \subseteq inbound[p]
    /\ \A m \in relay' \ relay : m.kind = "receipt" /\ m.from = p /\ Stored(p, m.id)
    /\ \A m \in fetch'[p].queue : m \in relay /\ m.from = Other(p)
    /\ \A n \in pending_receipts'[p] \cup fetch'[p].todo : Stored(p, n)
    /\ fetch'[p].pc \in Receipting => Stored(p, fetch'[p].rid)
    /\ \A n \in acked'[p] : Stored(Other(p), n)
    /\ \A m \in Texts(p) :
         /\ m.seq < contact'[p].next_send_seq
         /\ fetch'[p].back # "idle" => m.seq < fetch'[p].mem.next_send_seq
         /\ fetch'[p].pc = "rsave" => m.seq < fetch'[p].rmem.next_send_seq
         /\ fetch'[p].pc \in {"rpost", "rundo"} => m.seq < fetch'[p].rmem.next_send_seq - 1

LEMMA ReceiptQuiet ==
    ASSUME Solo, TypeInv, OrderInv, NEW p \in Peer, SendReceipt(p)
    PROVE  Quiet(p)
<1> USE DEF Solo
<1> USE DEF store, network, counts, history
<1>a. /\ contact \in [Peer -> Contact] /\ fetch \in [Peer -> FetchProcess]
      /\ fetch[p] \in FetchProcess /\ fetch[p].rmem \in Contact /\ contact[p] \in Contact
      /\ fetch[p].rmem.next_send_seq \in Nat /\ contact[p].next_send_seq \in Nat
      /\ pending_receipts \in [Peer -> SUBSET Nat]
  BY DEF TypeInv, TypeOK, FetchProcess, Contact
<1>b. /\ Taken(fetch[p].rmem) \in Contact
      /\ Taken(fetch[p].rmem).next_send_seq = fetch[p].rmem.next_send_seq + 1
  BY <1>a, CounterTypes
<1>c. /\ CountersAbove(p)
      /\ \A n \in pending_receipts[p] \cup fetch[p].todo : Stored(p, n)
      /\ fetch[p].pc \in Receipting => Stored(p, fetch[p].rid)
      /\ \A n \in acked[p] : Stored(Other(p), n)
      /\ \A m \in fetch[p].queue : m \in relay /\ m.from = Other(p)
  BY DEF OrderInv, SendSide, ReadSide, ReceiptSide
<1>d. \A m \in Texts(p) : m.seq \in Nat
  BY DEF Texts, Blob, TypeInv, TypeOK
<1>1. CASE ReceiptLoad(p)
  <2>1. /\ fetch[p].pc = "rload"
        /\ fetch'[p] = [fetch[p] EXCEPT !.pc = "rsave", !.rmem = contact[p]]
        /\ UNCHANGED <<store, network, cmd, counts, history>>
    BY <1>1, <1>a DEF ReceiptLoad
  <2>2. /\ fetch'[p].pc = "rsave" /\ fetch'[p].rmem = contact[p]
        /\ fetch'[p].mem = fetch[p].mem /\ fetch'[p].back = fetch[p].back
        /\ fetch'[p].rid = fetch[p].rid /\ fetch'[p].todo = fetch[p].todo
        /\ fetch'[p].queue = fetch[p].queue
    BY <2>1, <1>a DEF FetchProcess
  <2> QED
    BY <2>1, <2>2, <1>c DEF Quiet, CountersAbove, Receipting
<1>2. CASE ReceiptSave(p)
  <2>1. /\ fetch[p].pc = "rsave"
        /\ fetch'[p] = [fetch[p] EXCEPT !.pc = "rpost", !.rmem = Taken(fetch[p].rmem)]
        /\ contact'[p] = Taken(fetch[p].rmem)
        /\ UNCHANGED <<outbound_pending, pending_receipts, inbound, relay, cmd, history>>
    BY <1>2, <1>a DEF ReceiptSave
  <2>2. /\ fetch'[p].pc = "rpost" /\ fetch'[p].rmem = Taken(fetch[p].rmem)
        /\ fetch'[p].mem = fetch[p].mem /\ fetch'[p].back = fetch[p].back
        /\ fetch'[p].rid = fetch[p].rid /\ fetch'[p].todo = fetch[p].todo
        /\ fetch'[p].queue = fetch[p].queue
    BY <2>1, <1>a DEF FetchProcess
  <2>3. \A m \in Texts(p) :
          /\ m.seq < fetch[p].rmem.next_send_seq
          /\ m.seq < contact'[p].next_send_seq
          /\ m.seq < fetch'[p].rmem.next_send_seq - 1
    BY <2>1, <2>2, <1>a, <1>b, <1>c, <1>d DEF CountersAbove
  <2> QED
    BY <2>1, <2>2, <2>3, <1>c DEF Quiet, CountersAbove, Receipting
<1>3. CASE ReceiptRefresh(p)
  <2>1. /\ fetch[p].pc = "rpost" /\ fetch' = fetch /\ contact'[p] = fetch[p].rmem
        /\ UNCHANGED <<outbound_pending, pending_receipts, inbound, relay, cmd, history>>
    BY <1>3, <1>a DEF ReceiptRefresh
  <2>2. \A m \in Texts(p) : m.seq < contact'[p].next_send_seq
    BY <2>1, <1>a, <1>c, <1>d DEF CountersAbove
  <2> QED
    BY <2>1, <2>2, <1>c DEF Quiet, CountersAbove, Receipting
<1>4. CASE ReceiptPost(p)
  <2>1. PICK o \in ReceiptPosts : fetch' = [fetch EXCEPT ![p].pc = AfterReceiptPost(o)]
    BY <1>4 DEF ReceiptPost
  <2>2. /\ fetch[p].pc = "rpost" /\ UNCHANGED <<store, cmd, history>>
        /\ \A m \in relay' \ relay : m = ReceiptOf(p)
    BY <1>4 DEF ReceiptPost
  <2>3. /\ fetch'[p].pc \in {"rdone", "rundo"} /\ fetch'[p].rmem = fetch[p].rmem
        /\ fetch'[p].mem = fetch[p].mem /\ fetch'[p].back = fetch[p].back
        /\ fetch'[p].rid = fetch[p].rid /\ fetch'[p].todo = fetch[p].todo
        /\ fetch'[p].queue = fetch[p].queue
    BY <2>1, <1>a DEF FetchProcess, AfterReceiptPost
  <2>4. \A m \in relay' \ relay : m.kind = "receipt" /\ m.from = p /\ Stored(p, m.id)
    BY <2>2, <1>c DEF ReceiptOf, Receipt, Receipting
  <2> QED
    BY <2>2, <2>3, <2>4, <1>c DEF Quiet, CountersAbove, Receipting
<1>5. CASE ReceiptDone(p) \/ ReceiptQueue(p)
  <2>1. /\ fetch[p].pc \in {"rdone", "rqueue"} /\ fetch'[p] = Returned(fetch[p])
        /\ pending_receipts'[p] \subseteq pending_receipts[p] \cup {fetch[p].rid}
        /\ UNCHANGED <<contact, outbound_pending, inbound, relay, cmd, history>>
    BY <1>5, <1>a DEF ReceiptDone, ReceiptQueue
  <2>2. /\ fetch'[p].pc \in {"merge", "flush"}
        /\ fetch'[p].mem = fetch[p].mem /\ fetch'[p].back = fetch[p].back
        /\ fetch'[p].todo = fetch[p].todo /\ fetch'[p].queue = fetch[p].queue
    BY <2>1, <1>a DEF Returned, FetchProcess
  <2>3. \A n \in pending_receipts'[p] \cup fetch'[p].todo : Stored(p, n)
    BY <2>1, <2>2, <1>c DEF Receipting
  <2> QED
    BY <2>1, <2>2, <2>3, <1>c DEF Quiet, CountersAbove, Receipting
<1>6. CASE ReceiptUndo(p)
  <2>1. /\ fetch[p].pc = "rundo" /\ contact'[p] = Untaken(fetch[p].rmem)
        /\ fetch'[p] = [fetch[p] EXCEPT !.pc = "rqueue"]
        /\ UNCHANGED <<outbound_pending, pending_receipts, inbound, relay, cmd, history>>
    BY <1>6, <1>a DEF ReceiptUndo
  <2>2. /\ fetch'[p].pc = "rqueue"
        /\ fetch'[p].mem = fetch[p].mem /\ fetch'[p].back = fetch[p].back
        /\ fetch'[p].rid = fetch[p].rid /\ fetch'[p].todo = fetch[p].todo
        /\ fetch'[p].queue = fetch[p].queue
    BY <2>1, <1>a DEF FetchProcess
  <2>3. contact'[p].next_send_seq = fetch[p].rmem.next_send_seq - 1
    BY <2>1, <1>a DEF Untaken, Contact
  <2> QED
    BY <2>1, <2>2, <2>3, <1>c DEF Quiet, CountersAbove, Receipting
<1>7. CASE ReceiptFailover(p)
  <2>1. /\ fetch[p].pc = "rpost" /\ UNCHANGED <<store, fetch, cmd, history>>
        /\ \A m \in relay' \ relay : m = ReceiptOf(p)
    BY <1>7 DEF ReceiptFailover
  <2>2. \A m \in relay' \ relay : m.kind = "receipt" /\ m.from = p /\ Stored(p, m.id)
    BY <2>1, <1>c DEF ReceiptOf, Receipt, Receipting
  <2> QED
    BY <2>1, <2>2, <1>c DEF Quiet, CountersAbove, Receipting
<1> QED
  BY <1>1, <1>2, <1>3, <1>4, <1>5, <1>6, <1>7 DEF SendReceipt

LEMMA FetchQuiet ==
    ASSUME Solo, TypeInv, SerialInv, OrderInv, NEW p \in Peer, Fetch(p), ~ AcceptText(p)
    PROVE  Quiet(p)
<1> USE DEF Solo
<1> USE DEF store, network, counts, history
<1>a. /\ contact \in [Peer -> Contact] /\ fetch \in [Peer -> FetchProcess]
      /\ fetch[p] \in FetchProcess /\ fetch[p].mem \in Contact /\ contact[p] \in Contact
      /\ fetch[p].mem.next_send_seq \in Nat /\ contact[p].next_send_seq \in Nat
      /\ pending_receipts \in [Peer -> SUBSET Nat] /\ inbound \in [Peer -> SUBSET Row]
      /\ outbound_pending \in [Peer -> SUBSET Blob] /\ acked \in [Peer -> SUBSET Nat]
  BY DEF TypeInv, TypeOK, FetchProcess, Contact
<1>b. /\ Accepted(fetch[p].mem).next_send_seq = fetch[p].mem.next_send_seq
  BY <1>a DEF Accepted, Contact
<1>c. /\ CountersAbove(p)
      /\ \A n \in pending_receipts[p] \cup fetch[p].todo : Stored(p, n)
      /\ fetch[p].pc \in Receipting => Stored(p, fetch[p].rid)
      /\ \A n \in acked[p] : Stored(Other(p), n)
      /\ \A m \in fetch[p].queue : m \in relay /\ m.from = Other(p)
      /\ \A m \in relay : m.kind = "receipt" /\ m.from = Other(p) => Stored(Other(p), m.id)
  BY PeerFacts DEF OrderInv, SendSide, ReadSide, ReceiptSide
<1>d. FetchAhead(p)
  BY DEF SerialInv
<1>1. CASE FetchBegin(p)
  <2>1. /\ UNCHANGED <<contact, pending_receipts, relay, cmd, history>>
        /\ inbound'[p] \subseteq inbound[p] /\ outbound_pending'[p] \subseteq outbound_pending[p]
    BY <1>1, <1>a DEF FetchBegin, Unexpired, Pending, Queued
  <2>2. /\ fetch'[p].pc = "flush" /\ fetch'[p].mem = contact[p]
        /\ fetch'[p].todo = pending_receipts[p] /\ fetch'[p].queue = {}
    BY <1>1, <1>a DEF FetchBegin, IdleFetch, Pending, Queued
  <2> QED
    BY <2>1, <2>2, <1>c DEF Quiet, CountersAbove, Receipting
<1>2. CASE FlushCommand(p)
  <2>1. UNCHANGED <<store, relay, cmd, texts, delivered, acked>>
    BY <1>2 DEF FlushCommand, Queued
  <2>2. /\ fetch'[p].pc = "flush" /\ fetch'[p].back = "idle"
        /\ fetch'[p].todo = pending_receipts[p] /\ fetch'[p].queue = {}
    BY <1>2, <1>a DEF FlushCommand, IdleFetch, Queued
  <2> QED
    BY <2>1, <2>2, <1>c DEF Quiet, CountersAbove, Receipting
<1>3. CASE FlushNext(p)
  <2>1. PICK d \in fetch[p].todo :
          fetch' = [fetch EXCEPT ![p].pc = "rload", ![p].rid = d, ![p].todo = @ \ {d}]
    BY <1>3 DEF FlushNext
  <2>2. /\ fetch'[p].pc = "rload" /\ fetch'[p].rid = d /\ fetch'[p].todo \subseteq fetch[p].todo
        /\ fetch'[p].mem = fetch[p].mem /\ fetch'[p].back = fetch[p].back
        /\ fetch'[p].queue = fetch[p].queue
    BY <2>1, <1>a DEF FetchProcess
  <2>3. UNCHANGED <<store, relay, cmd, texts, delivered, acked>>
    BY <1>3 DEF FlushNext
  <2> QED
    BY <2>2, <2>3, <1>c DEF Quiet, CountersAbove, Receipting
<1>4. CASE FlushEnd(p)
  <2>1. /\ UNCHANGED <<store, relay, cmd, texts, delivered, acked>>
        /\ fetch'[p] = IF fetch[p].back = "idle" THEN IdleFetch
                       ELSE [fetch[p] EXCEPT !.pc = "collect"]
    BY <1>4, <1>a DEF FlushEnd
  <2>2. /\ fetch'[p].pc \in {"idle", "collect"}
        /\ fetch'[p].back # "idle" =>
             fetch[p].back # "idle" /\ fetch'[p].mem = fetch[p].mem
        /\ fetch'[p].todo \subseteq fetch[p].todo /\ fetch'[p].queue \subseteq fetch[p].queue
    BY <2>1, <1>a DEF FetchProcess, IdleFetch
  <2> QED
    BY <2>1, <2>2, <1>c DEF Quiet, CountersAbove, Receipting
<1>5. CASE SendReceipt(p)
  BY <1>5, ReceiptQuiet
<1>6. CASE Collect(p)
  <2>1. PICK q \in SUBSET {m \in relay : m.from = Other(p)} :
          fetch' = [fetch EXCEPT ![p].pc = "drain", ![p].queue = q]
    BY <1>6 DEF Collect
  <2>2. /\ fetch'[p].pc = "drain" /\ fetch'[p].queue = q /\ fetch'[p].todo = fetch[p].todo
        /\ fetch'[p].mem = fetch[p].mem /\ fetch'[p].back = fetch[p].back
    BY <2>1, <1>a DEF FetchProcess
  <2>3. UNCHANGED <<store, relay, cmd, texts, delivered, acked>>
    BY <1>6 DEF Collect
  <2> QED
    BY <2>2, <2>3, <1>c DEF Quiet, CountersAbove, Receipting
<1>7. CASE AcceptReceipt(p)
  <2>1. PICK m \in Acceptable(p) :
          /\ m.kind = "receipt"
          /\ outbound_pending' = [outbound_pending EXCEPT ![p] = {t \in @ : t.id # m.id}]
          /\ acked' = [acked EXCEPT ![p] = @ \cup {m.id}]
          /\ fetch' = [fetch EXCEPT ![p].pc = "save", ![p].mem = Accepted(fetch[p].mem),
                                    ![p].queue = @ \ {m}]
    BY <1>7 DEF AcceptReceipt
  <2>2. /\ fetch'[p].pc = "save" /\ fetch'[p].queue \subseteq fetch[p].queue
        /\ fetch'[p].todo = fetch[p].todo /\ fetch'[p].back = fetch[p].back
        /\ fetch'[p].mem = Accepted(fetch[p].mem)
    BY <2>1, <1>a DEF FetchProcess
  <2>3. Stored(Other(p), m.id)
    BY <2>1, <1>c DEF Acceptable
  <2>4. /\ outbound_pending'[p] \subseteq outbound_pending[p]
        /\ acked'[p] = acked[p] \cup {m.id}
        /\ UNCHANGED <<contact, pending_receipts, inbound, relay, cmd, texts, delivered>>
    BY <2>1, <1>a, <1>7 DEF AcceptReceipt
  <2> QED
    BY <2>2, <2>3, <2>4, <1>b, <1>c DEF Quiet, CountersAbove, Receipting
<1>8. CASE AcceptAux(p)
  <2>1. PICK m \in Acceptable(p), pc \in {"save", "drain"} :
          fetch' = [fetch EXCEPT ![p].pc = pc, ![p].mem = Accepted(fetch[p].mem),
                                 ![p].queue = @ \ {m}]
    BY <1>8 DEF AcceptAux
  <2>2. /\ fetch'[p].pc \in {"save", "drain"} /\ fetch'[p].queue \subseteq fetch[p].queue
        /\ fetch'[p].todo = fetch[p].todo /\ fetch'[p].back = fetch[p].back
        /\ fetch'[p].mem = Accepted(fetch[p].mem)
    BY <2>1, <1>a DEF FetchProcess
  <2>3. UNCHANGED <<store, relay, cmd, texts, delivered, acked>>
    BY <1>8 DEF AcceptAux
  <2> QED
    BY <2>2, <2>3, <1>b, <1>c DEF Quiet, CountersAbove, Receipting
<1>9. CASE Merge(p)
  <2>1. /\ fetch'[p].pc = "save" /\ fetch'[p].queue = fetch[p].queue
        /\ fetch'[p].todo = fetch[p].todo /\ fetch'[p].back = fetch[p].back
        /\ fetch'[p].mem.next_send_seq = contact[p].next_send_seq
        /\ UNCHANGED <<store, relay, cmd, texts, delivered, acked>>
    BY <1>9, <1>a DEF Merge, FetchProcess, Contact
  <2> QED
    BY <2>1, <1>c DEF Quiet, CountersAbove, Receipting
<1>10. CASE Save(p)
  <2>1. /\ fetch[p].pc = "save" /\ contact'[p] = fetch[p].mem
        /\ fetch'[p].pc = "drain" /\ fetch'[p].queue = fetch[p].queue
        /\ fetch'[p].todo = fetch[p].todo /\ fetch'[p].back = fetch[p].back
        /\ fetch'[p].mem = fetch[p].mem
        /\ UNCHANGED <<outbound_pending, pending_receipts, inbound, relay, cmd, history>>
    BY <1>10, <1>a DEF Save, FetchProcess
  <2> QED
    BY <2>1, <1>c, <1>d DEF Quiet, CountersAbove, Receipting, FetchAhead
<1>11. CASE NextTag(p)
  <2>1. /\ fetch'[p].pc = "collect" /\ fetch'[p].queue = {}
        /\ fetch'[p].todo = fetch[p].todo /\ fetch'[p].back = fetch[p].back
        /\ fetch'[p].mem = fetch[p].mem
        /\ UNCHANGED <<store, relay, cmd, texts, delivered, acked>>
    BY <1>11, <1>a DEF NextTag, FetchProcess
  <2> QED
    BY <2>1, <1>c DEF Quiet, CountersAbove, Receipting
<1>12. CASE FetchEnd(p)
  <2>1. /\ fetch'[p].pc = "idle" /\ fetch'[p].queue = {}
        /\ fetch'[p].todo = {} /\ fetch'[p].back = "idle"
        /\ UNCHANGED <<store, relay, cmd, texts, delivered, acked>>
    BY <1>12, <1>a DEF FetchEnd, IdleFetch
  <2> QED
    BY <2>1, <1>c DEF Quiet, CountersAbove, Receipting
<1> QED
  BY <1>1, <1>2, <1>3, <1>4, <1>5, <1>6, <1>7, <1>8, <1>9, <1>10, <1>11, <1>12 DEF Fetch

LEMMA QuietSides ==
    ASSUME Solo, TypeInv, OrderInv, NEW p \in Peer, Quiet(p), cmd[p].pc = "idle",
           contact'[p].last_recv_seq >= contact[p].last_recv_seq,
           contact' \in [Peer -> Contact], relay \subseteq relay', relay' \subseteq Blob
    PROVE  SendSide(p)' /\ ReadSide(p)' /\ ReceiptSide(p)'
<1> USE DEF Solo
<1>a. /\ contact[p].last_recv_seq \in Nat /\ contact'[p].last_recv_seq \in Nat
      /\ \A r \in inbound[p] : r.seq \in Nat
      /\ \A m \in relay : m.seq \in Nat
  BY DEF TypeInv, TypeOK, Contact, Row, Blob
<1>b. SendSide(p) /\ ReadSide(p) /\ ReceiptSide(p)
  BY DEF OrderInv
<1>c. Texts(p)' \subseteq Texts(p)
  BY DEF Quiet, Texts
<1>d. \A q \in Peer : \A n : Stored(q, n)' <=> Stored(q, n)
  BY DEF Quiet, Stored
<1>1. CommandHolds(p)'
  BY <1>b DEF SendSide, CommandHolds, Quiet
<1>2. CountersAbove(p)'
  BY <1>c DEF CountersAbove, Quiet
<1>3. TextsInOrder(p)'
  BY <1>b, <1>c DEF SendSide, TextsInOrder, Quiet
<1>4. ReadSide(p)'
  <2>1. \A m \in fetch'[p].queue : m \in relay' /\ m.from = Other(p)
    BY DEF Quiet
  <2>2. \A r \in inbound'[p] : r.seq <= contact'[p].last_recv_seq
    BY <1>a, <1>b DEF ReadSide, Quiet
  <2>3. \A n \in Nat : Behind(p, n) => Behind(p, n)'
    BY <1>a DEF Behind
  <2> QED
    BY <1>b, <1>d, <2>1, <2>2, <2>3 DEF ReadSide
<1>5. ReceiptSide(p)'
  <2>1. \A m \in relay' : m.kind = "receipt" /\ m.from = p => Stored(p, m.id)
    BY <1>b DEF ReceiptSide, Quiet
  <2>2. \A n \in acked'[p] : Stored(Other(p), n)'
    BY <1>d, PeerFacts DEF Quiet
  <2>3. /\ \A n \in pending_receipts'[p] \cup fetch'[p].todo : Stored(p, n)'
        /\ fetch'[p].pc \in Receipting => Stored(p, fetch'[p].rid)
    BY <1>d DEF Quiet
  <2> QED
    BY <1>d, <2>1, <2>2, <2>3 DEF ReceiptSide
<1> QED
  BY <1>1, <1>2, <1>3, <1>4, <1>5 DEF SendSide

\* The types of the fields those invariants compare.
LEMMA FieldTypes ==
    ASSUME Solo, TypeInv, NEW p \in Peer
    PROVE  /\ contact[p].last_recv_seq \in Nat /\ fetch[p].mem.last_recv_seq \in Nat
           /\ \A r \in inbound[p] : r.seq \in Nat
           /\ \A x \in relay : x.seq \in Nat /\ x.id \in Nat
           /\ delivered \in [Peer -> Seq(Nat)]
           /\ pending_receipts[p] \in SUBSET Nat /\ fetch[p].todo \in SUBSET Nat
           /\ acked[p] \in SUBSET Nat
<1> USE DEF Solo
<1>1. contact[p].last_recv_seq \in Nat /\ fetch[p].mem.last_recv_seq \in Nat
  BY FetchFields DEF Contact
<1>2. \A r \in inbound[p] : r.seq \in Nat
  BY DEF TypeInv, TypeOK, Row
<1>3. \A x \in relay : x.seq \in Nat /\ x.id \in Nat
  BY DEF TypeInv, TypeOK, Blob
<1>4. /\ delivered \in [Peer -> Seq(Nat)]
      /\ pending_receipts[p] \in SUBSET Nat /\ acked[p] \in SUBSET Nat
  BY DEF TypeInv, TypeOK
<1> QED
  BY <1>1, <1>2, <1>3, <1>4, FetchFields

\* A text of the other peer, next in the receiver's order, is new to it and
\* later than all it read.
LEMMA NextTextIsLater ==
    ASSUME Solo, TypeInv, SerialInv, OrderInv, NEW p \in Peer, fetch[p].pc = "drain",
           NEW m \in Acceptable(p), m.kind = "text"
    PROVE  /\ m \in Texts(Other(p)) /\ m \in relay /\ m.from = Other(p)
           /\ m.id \in 1 .. texts[Other(p)]
           /\ m.seq = fetch[p].mem.last_recv_seq + 1
           /\ m.seq > contact[p].last_recv_seq
           /\ IsNew(p, m)
           /\ \A n \in Nat : Stored(p, n) => n < m.id
<1> USE DEF Solo
<1>a. /\ contact[p].last_recv_seq \in Nat /\ fetch[p].mem.last_recv_seq \in Nat
      /\ \A r \in inbound[p] : r.seq \in Nat
      /\ \A x \in relay : x.seq \in Nat /\ x.id \in Nat
  BY FieldTypes
<1>b. ReadSide(p) /\ TextsInOrder(Other(p)) /\ FetchAhead(p)
  BY PeerFacts DEF OrderInv, SendSide, SerialInv
<1>1. m \in relay /\ m.from = Other(p) /\ m.seq = fetch[p].mem.last_recv_seq + 1
  BY <1>b DEF Acceptable, ReadSide
<1>2. m \in Texts(Other(p))
  BY <1>1 DEF Texts
<1>3. m.seq > contact[p].last_recv_seq
  BY <1>1, <1>a, <1>b DEF FetchAhead
<1>4. IsNew(p, m)
  BY <1>1, <1>3, <1>a, <1>b DEF IsNew, ReadSide
<1>5. ASSUME NEW n \in Nat, Stored(p, n)
      PROVE  n < m.id
  <2>1. Behind(p, n)
    BY <1>b, <1>5 DEF ReadSide
  <2>2. PICK x \in relay : /\ x.kind = "text" /\ x.from = Other(p) /\ x.id = n
                           /\ x.seq <= contact[p].last_recv_seq
    BY <2>1 DEF Behind
  <2>3. x \in Texts(Other(p))
    BY <2>2 DEF Texts
  <2>4. ~ (m.seq <= x.seq)
    BY <1>1, <1>3, <1>a, <2>2
  <2>5. ~ (m.id <= x.id)
    BY <1>2, <1>b, <2>3, <2>4 DEF TextsInOrder
  <2> QED
    BY <2>2, <2>5, <1>1, <1>a
<1> QED
  BY <1>1, <1>2, <1>3, <1>4, <1>5, <1>b DEF TextsInOrder

\* What AcceptText does when p runs nothing else.
LEMMA AcceptTextStores ==
    ASSUME Solo, TypeInv, SerialInv, OrderInv, NEW p \in Peer, AcceptText(p)
    PROVE  \E m \in Acceptable(p) :
             /\ m.kind = "text" /\ m.id \in Nat
             /\ fetch[p].pc = "drain" /\ fetch'[p].pc = "rload" /\ fetch'[p].rid = m.id
             /\ fetch'[p].back # "idle" /\ fetch[p].back # "idle"
             /\ fetch'[p].todo = fetch[p].todo /\ fetch'[p].queue \subseteq fetch[p].queue
             /\ fetch'[p].mem.next_send_seq = fetch[p].mem.next_send_seq
             /\ contact'[p].next_send_seq = fetch[p].mem.next_send_seq
             /\ contact'[p].last_recv_seq = m.seq
             /\ inbound'[p] = inbound[p] \cup {[seq |-> m.seq, id |-> m.id]}
             /\ delivered' = [delivered EXCEPT ![p] = Append(@, m.id)]
             /\ pending_receipts'[p] = pending_receipts[p] \cup {m.id}
             /\ UNCHANGED <<outbound_pending, relay, cmd, texts, acked>>
<1> USE DEF Solo
<1>a. /\ contact \in [Peer -> Contact] /\ fetch \in [Peer -> FetchProcess]
      /\ fetch[p] \in FetchProcess /\ fetch[p].mem \in Contact
      /\ pending_receipts \in [Peer -> SUBSET Nat] /\ inbound \in [Peer -> SUBSET Row]
  BY DEF TypeInv, TypeOK, FetchProcess
<1>b. /\ Accepted(fetch[p].mem).last_recv_seq = fetch[p].mem.last_recv_seq + 1
      /\ Accepted(fetch[p].mem).next_send_seq = fetch[p].mem.next_send_seq
  BY <1>a DEF Accepted, Contact
<1>0. fetch[p].pc = "drain"
  BY DEF AcceptText
<1>1. PICK m \in Acceptable(p) :
        /\ m.kind = "text"
        /\ contact' = [contact EXCEPT ![p] = Accepted(fetch[p].mem)]
        /\ inbound' = IF IsNew(p, m)
              THEN [inbound EXCEPT ![p] = @ \cup {[seq |-> m.seq, id |-> m.id]}]
              ELSE inbound
        /\ delivered' = IF IsNew(p, m)
              THEN [delivered EXCEPT ![p] = Append(@, m.id)]
              ELSE delivered
        /\ pending_receipts' = [pending_receipts EXCEPT ![p] = @ \cup {m.id}]
        /\ fetch' = [fetch EXCEPT ![p].pc = "rload", ![p].rid = m.id,
                       ![p].back = "merge", ![p].mem = Accepted(fetch[p].mem),
                       ![p].queue = @ \ {m}]
  BY DEF AcceptText
<1>2. IsNew(p, m) /\ m.seq = fetch[p].mem.last_recv_seq + 1 /\ m \in relay
  BY <1>0, <1>1, NextTextIsLater
<1>3. m.id \in Nat
  BY <1>2 DEF TypeInv, TypeOK, Blob
<1>4. /\ fetch'[p].pc = "rload" /\ fetch'[p].rid = m.id /\ fetch'[p].back = "merge"
      /\ fetch'[p].todo = fetch[p].todo /\ fetch'[p].queue \subseteq fetch[p].queue
      /\ fetch'[p].mem = Accepted(fetch[p].mem)
  BY <1>1, <1>a DEF FetchProcess
<1>5. fetch[p].back # "idle"
  BY <1>0 DEF SerialInv, FetchAhead
<1>6. UNCHANGED <<outbound_pending, relay, cmd, texts, acked>>
  BY DEF AcceptText, network
<1> QED
  BY <1>0, <1>1, <1>2, <1>3, <1>4, <1>5, <1>6, <1>a, <1>b

LEMMA AcceptTextSides ==
    ASSUME Solo, TypeInv, SerialInv, OrderInv, NEW p \in Peer, AcceptText(p)
    PROVE  SendSide(p)' /\ ReadSide(p)' /\ ReceiptSide(p)'
<1> USE DEF Solo
<1>1. PICK m \in Acceptable(p) :
             /\ m.kind = "text" /\ m.id \in Nat
             /\ fetch[p].pc = "drain" /\ fetch'[p].pc = "rload" /\ fetch'[p].rid = m.id
             /\ fetch'[p].back # "idle" /\ fetch[p].back # "idle"
             /\ fetch'[p].todo = fetch[p].todo /\ fetch'[p].queue \subseteq fetch[p].queue
             /\ fetch'[p].mem.next_send_seq = fetch[p].mem.next_send_seq
             /\ contact'[p].next_send_seq = fetch[p].mem.next_send_seq
             /\ contact'[p].last_recv_seq = m.seq
             /\ inbound'[p] = inbound[p] \cup {[seq |-> m.seq, id |-> m.id]}
             /\ delivered' = [delivered EXCEPT ![p] = Append(@, m.id)]
             /\ pending_receipts'[p] = pending_receipts[p] \cup {m.id}
             /\ UNCHANGED <<outbound_pending, relay, cmd, texts, acked>>
  BY AcceptTextStores
<1>2. /\ m \in relay /\ m.from = Other(p) /\ m.seq > contact[p].last_recv_seq
  BY <1>1, NextTextIsLater
<1>a. /\ contact[p].last_recv_seq \in Nat /\ m.seq \in Nat
      /\ \A r \in inbound[p] : r.seq \in Nat
      /\ \A x \in relay : x.seq \in Nat
      /\ delivered \in [Peer -> Seq(Nat)]
      /\ pending_receipts[p] \in SUBSET Nat /\ fetch[p].todo \in SUBSET Nat
      /\ acked[p] \in SUBSET Nat /\ \A x \in relay : x.id \in Nat
  BY <1>2, FieldTypes
<1>b. SendSide(p) /\ ReadSide(p) /\ ReceiptSide(p)
  BY DEF OrderInv
<1>c. Texts(p)' = Texts(p)
  BY <1>1 DEF Texts
<1>d. /\ \A q \in Peer : \A n \in Nat : Stored(q, n) => Stored(q, n)'
      /\ Stored(p, m.id)'
      /\ \A n \in Nat : Stored(p, n)' => Stored(p, n) \/ n = m.id
  <2>1. /\ m.id \in Nat /\ delivered \in [Peer -> Seq(Nat)]
        /\ delivered' = [delivered EXCEPT ![p] = Append(@, m.id)]
    BY <1>1, <1>a
  <2> DEFINE k == m.id
  <2> HIDE DEF k
  <2>2. k \in Nat /\ delivered' = [delivered EXCEPT ![p] = Append(@, k)]
    BY <2>1 DEF k
  <2>3. /\ \A q \in Peer : \A n \in Nat : Stored(q, n) => Stored(q, n)'
        /\ Stored(p, k)'
        /\ \A q \in Peer : \A n \in Nat : Stored(q, n)' => Stored(q, n) \/ (q = p /\ n = k)
    BY <2>1, <2>2, StoredAppend
  <2> QED
    BY <2>3 DEF k
<1>3. SendSide(p)'
  <2>1. CommandHolds(p)'
    BY <1>1, <1>b DEF SendSide, CommandHolds
  <2>2. CountersAbove(p)' 
    <3>1. cmd[p].pc = "idle"
      BY <1>1 DEF SerialInv, Exclusive
    <3> QED
      BY <1>1, <1>b, <1>c, <3>1 DEF SendSide, CountersAbove
  <2>3. TextsInOrder(p)'
    BY <1>1, <1>b, <1>c DEF SendSide, TextsInOrder
  <2> QED
    BY <2>1, <2>2, <2>3 DEF SendSide
<1>4. ReadSide(p)'
  <2>1. \A x \in fetch'[p].queue : x \in relay' /\ x.from = Other(p)
    BY <1>1, <1>b DEF ReadSide
  <2>2. \A r \in inbound'[p] : r.seq <= contact'[p].last_recv_seq
    BY <1>1, <1>2, <1>a, <1>b DEF ReadSide
  <2>3. \A n \in Nat : Behind(p, n) => Behind(p, n)'
    BY <1>1, <1>2, <1>a DEF Behind
  <2>4. Behind(p, m.id)'
    BY <1>1, <1>2, <1>a DEF Behind
  <2> QED
    BY <1>b, <1>d, <2>1, <2>2, <2>3, <2>4 DEF ReadSide
<1>5. ReceiptSide(p)'
  <2>1. \A n \in pending_receipts'[p] \cup fetch'[p].todo : Stored(p, n)'
    BY <1>1, <1>a, <1>b, <1>d DEF ReceiptSide
  <2>2. Stored(p, fetch[p].rid)'
    BY <1>1, <1>d DEF Stored
  <2>3. \A x \in relay' : x.kind = "receipt" /\ x.from = p => Stored(p, x.id)'
    BY <1>1, <1>a, <1>b, <1>d DEF ReceiptSide
  <2>4. \A n \in acked'[p] : Stored(Other(p), n)'
    BY <1>1, <1>a, <1>b, <1>d, PeerFacts DEF ReceiptSide
  <2> QED
    BY <2>1, <2>2, <2>3, <2>4, <1>1 DEF ReceiptSide
<1> QED
  BY <1>3, <1>4, <1>5

LEMMA SendCommitSides ==
    ASSUME Solo, TypeInv, SerialInv, OrderInv, NEW p \in Peer, SendCommit(p)
    PROVE  SendSide(p)'
<1> USE DEF Solo
<1> DEFINE t == Text(p, cmd[p].mem.next_send_seq, texts[p] + 1)
<1>a. /\ cmd[p] \in CommandProcess /\ cmd[p].mem \in Contact /\ texts[p] \in Nat
      /\ contact \in [Peer -> Contact] /\ outbound_pending \in [Peer -> SUBSET Blob]
      /\ texts \in [Peer -> Nat] /\ cmd \in [Peer -> CommandProcess]
      /\ cmd[p].mem.next_send_seq \in Nat
  BY DEF TypeInv, TypeOK, CommandProcess, Contact
<1>b. SendSide(p)
  BY DEF OrderInv
<1>c. Taken(cmd[p].mem).next_send_seq = cmd[p].mem.next_send_seq + 1
  BY <1>a, CounterTypes
<1>1. /\ cmd[p].pc = "send" /\ contact'[p] = Taken(cmd[p].mem)
      /\ outbound_pending'[p] = outbound_pending[p] \cup {t} /\ texts'[p] = texts[p] + 1
      /\ cmd'[p].mem = Taken(cmd[p].mem) /\ relay' = relay /\ fetch' = fetch
  BY <1>a DEF SendCommit, CommandProcess, network
<1>2. t.kind = "text" /\ t.from = p /\ t.seq = cmd[p].mem.next_send_seq /\ t.id = texts[p] + 1
  BY DEF Text
<1> HIDE DEF t
<1>3. Texts(p)' = Texts(p) \cup {t}
  BY <1>1, <1>2 DEF Texts
<1>4. \A m \in Texts(p) : /\ m.seq \in Nat /\ m.id \in 1 .. texts[p]
                          /\ m.seq < cmd[p].mem.next_send_seq
  BY <1>b, <1>1 DEF SendSide, CountersAbove, TextsInOrder, Texts, TypeInv, TypeOK, Blob
<1>5. CommandHolds(p)'
  BY <1>b, CommandOrder DEF Command
<1>6. CountersAbove(p)'
  <2>1. fetch[p].pc = "idle" /\ fetch[p].back = "idle"
    BY <1>1 DEF SerialInv, Exclusive, FetchAhead
  <2>2. \A m \in Texts(p)' : m.seq < cmd[p].mem.next_send_seq + 1
    BY <1>2, <1>3, <1>4, <1>a
  <2> QED
    BY <1>1, <1>c, <2>1, <2>2 DEF CountersAbove
<1>7. TextsInOrder(p)'
  <2>1. \A m \in Texts(p)' : m.id \in 1 .. texts'[p]
    BY <1>1, <1>2, <1>3, <1>4, <1>a
  <2>2. ASSUME NEW m \in Texts(p)', NEW x \in Texts(p)', m.id <= x.id
        PROVE  m.seq <= x.seq
    <3>1. CASE m \in Texts(p) /\ x \in Texts(p)
      BY <3>1, <2>2, <1>b DEF SendSide, TextsInOrder
    <3>2. CASE x = t
      BY <3>2, <1>2, <1>3, <1>4, <1>a
    <3>3. CASE m = t /\ x \in Texts(p)
      BY <3>3, <2>2, <1>2, <1>4, <1>a
    <3> QED
      BY <3>1, <3>2, <3>3, <1>3
  <2> QED
    BY <2>1, <2>2 DEF TextsInOrder
<1> QED
  BY <1>5, <1>6, <1>7 DEF SendSide

LEMMA CommandSides ==
    ASSUME Solo, TypeInv, SerialInv, OrderInv, NEW p \in Peer, Command(p),
           contact' \in [Peer -> Contact], relay \subseteq relay', relay' \subseteq Blob
    PROVE  SendSide(p)' /\ ReadSide(p)' /\ ReceiptSide(p)'
<1> USE DEF Solo
<1>b. SendSide(p) /\ ReadSide(p) /\ ReceiptSide(p)
  BY DEF OrderInv
<1>1. /\ UNCHANGED <<pending_receipts, inbound, delivered, acked>>
      /\ \A m \in relay' \ relay : m \in outbound_pending[p] \/ m.kind = "aux"
      /\ CommandHolds(p)'
      /\ SendCommit(p) \/ (texts' = texts /\ outbound_pending'[p] \subseteq outbound_pending[p])
      /\ ~ SendCommit(p) => CountersAbove(p)'
  BY <1>b, CommandOrder
<1>2. fetch' = fetch /\ contact'[p].last_recv_seq = contact[p].last_recv_seq
  BY SerialCommand
<1>3. SendSide(p)'
  <2>1. CASE SendCommit(p)
    BY <2>1, SendCommitSides
  <2>2. CASE ~ SendCommit(p)
    <3>1. Texts(p)' \subseteq Texts(p)
      BY <1>1, <2>2 DEF Texts
    <3> QED
      BY <1>1, <1>b, <2>2, <3>1 DEF SendSide, TextsInOrder
  <2> QED
    BY <2>1, <2>2
<1>4. ReadSide(p)'
  <2>1. \A n \in Nat : Behind(p, n) => Behind(p, n)'
    BY <1>2 DEF Behind
  <2> QED
    BY <1>1, <1>2, <1>b, <2>1 DEF ReadSide, Stored
<1>5. ReceiptSide(p)'
  <2>1. \A m \in relay' : m.kind = "receipt" => m \in relay
    BY <1>1, <1>b DEF SendSide, CommandHolds
  <2> QED
    BY <1>1, <1>2, <1>b, <2>1 DEF ReceiptSide, Stored
<1> QED
  BY <1>3, <1>4, <1>5

\* A step of p leaves the parts of its peer alone.
LEMMA PeerSides ==
    ASSUME Solo, TypeInv, OrderInv, NEW p \in Peer, NEW q \in Peer, q # p,
           Command(p) \/ Fetch(p) \/ KillFetch(p) \/ KillCommand(p),
           relay \subseteq relay',
           \A m \in relay' \ relay :
              m \in outbound_pending[p] \/ m.kind = "aux" \/ (m.kind = "receipt" /\ m.from = p),
           \A n \in Nat : Stored(p, n) => Stored(p, n)'
    PROVE  SendSide(q)' /\ ReadSide(q)' /\ ReceiptSide(q)'
<1> USE DEF Solo
<1>a. /\ contact'[q] = contact[q] /\ outbound_pending'[q] = outbound_pending[q]
      /\ pending_receipts'[q] = pending_receipts[q] /\ inbound'[q] = inbound[q]
      /\ fetch'[q] = fetch[q] /\ cmd'[q] = cmd[q]
      /\ texts'[q] = texts[q] /\ delivered'[q] = delivered[q] /\ acked'[q] = acked[q]
  BY StepOfOne
<1>b. SendSide(q) /\ ReadSide(q) /\ ReceiptSide(q) /\ CommandHolds(p)
  BY DEF OrderInv, SendSide
<1>c. Other(q) = p /\ acked[q] \in SUBSET Nat
  BY PeersDiffer DEF Peer, Other, TypeInv, TypeOK
<1>1. \A m \in relay' \ relay : ~(m.from = q /\ m.kind \in {"text", "receipt"})
  BY <1>b DEF CommandHolds
<1>2. Texts(q)' \subseteq Texts(q)
  BY <1>a, <1>1 DEF Texts
<1>3. SendSide(q)'
  <2>1. CommandHolds(q)'
    BY <1>a, <1>b DEF SendSide, CommandHolds
  <2>2. CountersAbove(q)'
    BY <1>a, <1>b, <1>2 DEF SendSide, CountersAbove
  <2>3. TextsInOrder(q)'
    BY <1>a, <1>b, <1>2 DEF SendSide, TextsInOrder
  <2> QED
    BY <2>1, <2>2, <2>3 DEF SendSide
<1>4. ReadSide(q)'
  <2>1. \A n \in Nat : Behind(q, n) => Behind(q, n)'
    BY <1>a DEF Behind
  <2>2. \A n \in Nat : Stored(q, n)' => Stored(q, n)
    BY <1>a DEF Stored
  <2> QED
    BY <1>a, <1>b, <2>1, <2>2 DEF ReadSide
<1>5. ReceiptSide(q)'
  <2>1. \A n : Stored(q, n) => Stored(q, n)'
    BY <1>a DEF Stored
  <2>2. \A m \in relay' : m.kind = "receipt" /\ m.from = q => Stored(q, m.id)
    BY <1>1, <1>b DEF ReceiptSide
  <2>3. \A n \in acked'[q] : Stored(Other(q), n)'
    BY <1>a, <1>b, <1>c DEF ReceiptSide
  <2> QED
    BY <1>a, <1>b, <2>1, <2>2, <2>3 DEF ReceiptSide
<1> QED
  BY <1>3, <1>4, <1>5

LEMMA NextOrder ==
    ASSUME Solo, TypeInv, SerialInv, OrderInv, [Next]_vars
    PROVE  OrderInv'
<1> USE DEF Solo
<1>a. /\ contact' \in [Peer -> Contact] /\ relay' \subseteq Blob /\ relay \subseteq relay'
      /\ contact \in [Peer -> Contact]
  BY NextTypeInv, RelayGrows DEF TypeInv, TypeOK
<1>m. \A p \in Peer : contact'[p].last_recv_seq >= contact[p].last_recv_seq
  BY NextSerial DEF Monotone
<1>b. \A p \in Peer : SendSide(p) /\ ReadSide(p) /\ ReceiptSide(p)
  BY DEF OrderInv
\* Both peers keep their parts.
<1>o. ASSUME NEW p \in Peer,
             Command(p) \/ Fetch(p) \/ KillFetch(p) \/ KillCommand(p),
             SendSide(p)' /\ ReadSide(p)' /\ ReceiptSide(p)',
             \A m \in relay' \ relay :
                m \in outbound_pending[p] \/ m.kind = "aux" \/ (m.kind = "receipt" /\ m.from = p),
             \A n \in Nat : Stored(p, n) => Stored(p, n)'
      PROVE  OrderInv'
  BY <1>o, <1>a, PeerSides DEF OrderInv
<1>1. CASE UNCHANGED vars
  BY <1>1, <1>b DEF vars, store, network, counts, history, OrderInv, SendSide, ReadSide,
                    ReceiptSide, CommandHolds, CountersAbove, TextsInOrder, Texts, Behind,
                    Stored
<1>2. ASSUME NEW p \in Peer, Command(p)
      PROVE  OrderInv'
  <2>1. SendSide(p)' /\ ReadSide(p)' /\ ReceiptSide(p)'
    BY <1>2, <1>a, CommandSides
  <2>2. /\ delivered' = delivered
        /\ \A m \in relay' \ relay : m \in outbound_pending[p] \/ m.kind = "aux"
    BY <1>2, <1>b, CommandOrder
  <2>3. \A n \in Nat : Stored(p, n) => Stored(p, n)'
    BY <2>2 DEF Stored
  <2> QED
    BY <1>o, <1>2, <2>1, <2>2, <2>3
<1>3. ASSUME NEW p \in Peer, Fetch(p), ~ AcceptText(p)
      PROVE  OrderInv'
  <2>1. Quiet(p)
    BY <1>3, FetchQuiet
  <2>2. cmd[p].pc = "idle"
    BY <1>3, SerialFetch
  <2>3. SendSide(p)' /\ ReadSide(p)' /\ ReceiptSide(p)'
    BY <1>a, <1>m, <2>1, <2>2, QuietSides
  <2>4. /\ \A n \in Nat : Stored(p, n) => Stored(p, n)'
        /\ \A m \in relay' \ relay : m.kind = "receipt" /\ m.from = p
    BY <2>1 DEF Quiet, Stored
  <2> QED
    BY <1>o, <1>3, <2>3, <2>4
<1>4. ASSUME NEW p \in Peer, AcceptText(p)
      PROVE  OrderInv'
  <2>1. SendSide(p)' /\ ReadSide(p)' /\ ReceiptSide(p)'
    BY <1>4, AcceptTextSides
  <2>2. PICK k \in Nat : /\ delivered' = [delivered EXCEPT ![p] = Append(@, k)]
                         /\ relay' = relay
    BY <1>4, AcceptTextStores
  <2>3. \A n \in Nat : Stored(p, n) => Stored(p, n)'
    BY <2>2, FieldTypes, StoredAppend
  <2> QED
    BY <1>o, <1>4, <2>1, <2>2, <2>3 DEF Fetch
<1>5. ASSUME NEW p \in Peer, KillFetch(p)
      PROVE  OrderInv'
  <2>1. /\ UNCHANGED <<store, relay, cmd, texts, delivered, acked>> /\ fetch'[p] = IdleFetch
        /\ fetch[p].pc # "idle"
    BY <1>5 DEF KillFetch, network, TypeInv, TypeOK
  <2>2. Quiet(p)
    BY <1>b, <2>1 DEF Quiet, IdleFetch, SendSide, CountersAbove, ReceiptSide, Receipting,
                      store, history
  <2>3. cmd[p].pc = "idle"
    BY <2>1 DEF SerialInv, Exclusive
  <2>4. SendSide(p)' /\ ReadSide(p)' /\ ReceiptSide(p)'
    BY <1>a, <1>m, <2>2, <2>3, QuietSides
  <2>5. \A n \in Nat : Stored(p, n) => Stored(p, n)'
    BY <2>1 DEF Stored, history
  <2> QED
    BY <1>o, <1>5, <2>1, <2>4, <2>5
<1>6. ASSUME NEW p \in Peer, KillCommand(p)
      PROVE  OrderInv'
  <2>1. /\ UNCHANGED <<store, relay, fetch, texts, delivered, acked>> /\ cmd'[p] = IdleCmd
    BY <1>6 DEF KillCommand, network, TypeInv, TypeOK
  <2>2. Texts(p)' = Texts(p) /\ \A n : Stored(p, n)' <=> Stored(p, n)
    BY <2>1 DEF Texts, Stored, store, history
  <2>3. SendSide(p)'
    BY <1>b, <2>1, <2>2 DEF SendSide, CommandHolds, CountersAbove, TextsInOrder, IdleCmd,
                            store, history
  <2>4. ReadSide(p)'
    BY <1>b, <2>1, <2>2 DEF ReadSide, Behind, store, history
  <2>5. ReceiptSide(p)'
    BY <1>b, <2>1 DEF ReceiptSide, Stored, store, history
  <2> QED
    BY <1>o, <1>6, <2>1, <2>2, <2>3, <2>4, <2>5
<1>7. CASE Expire
  <2>1. UNCHANGED <<store, relay, fetch, cmd, history>>
    BY <1>7 DEF Expire
  <2> QED
    BY <2>1, <1>b DEF store, history, OrderInv, SendSide, ReadSide, ReceiptSide, CommandHolds,
                      CountersAbove, TextsInOrder, Texts, Behind, Stored
<1> QED
  BY <1>1, <1>2, <1>3, <1>4, <1>5, <1>6, <1>7 DEF Next

LEMMA InitOrder ==
    ASSUME Solo
    PROVE  Init => OrderInv
<1> USE DEF Solo
<1> SUFFICES ASSUME Init, NEW p \in Peer
             PROVE  SendSide(p) /\ ReadSide(p) /\ ReceiptSide(p)
  BY DEF OrderInv
<1>1. /\ relay = {} /\ outbound_pending[p] = {} /\ inbound[p] = {}
      /\ pending_receipts[p] = {} /\ acked[p] = {}
      /\ fetch[p] = IdleFetch /\ cmd[p] = IdleCmd
  BY DEF Init
<1>2. \A n : ~ Stored(p, n)
  BY DEF Init, Stored
<1>3. SendSide(p)
  BY <1>1 DEF SendSide, CommandHolds, CountersAbove, TextsInOrder, Texts, IdleCmd
<1>4. ReadSide(p)
  BY <1>1, <1>2 DEF ReadSide, IdleFetch
<1>5. ReceiptSide(p)
  BY <1>1 DEF ReceiptSide, Receipting, IdleFetch
<1> QED
  BY <1>3, <1>4, <1>5

\* The inductive invariant of the peers that run one process at a time.
LEMMA SerialOrder == ASSUME Solo PROVE Spec => [](TypeInv /\ SerialInv /\ OrderInv)
<1> USE DEF Solo
<1>1. Init => TypeInv /\ SerialInv /\ OrderInv
  BY InitTypeInv, InitOrder
     DEF Init, SerialInv, Exclusive, CommandCurrent, ReceiptCurrent, FetchAhead, IdleFetch, IdleCmd
<1>2. TypeInv /\ SerialInv /\ OrderInv /\ [Next]_vars => (TypeInv /\ SerialInv /\ OrderInv)'
  BY NextTypeInv, NextSerial, NextOrder
<1> QED
  BY <1>1, <1>2, PTL DEF Spec

\* With one process at a time, no delivery receipt clears a pending row whose
\* body the peer never wrote: every acknowledged text is one that
\* atomic_commit_receive_text stored, whatever is killed, lost or expired.
THEOREM NothingAckedUnread == ASSUME Solo PROVE Spec => []AckedWasStored
<1> USE DEF Solo
<1>1. OrderInv => AckedWasStored
  BY DEF OrderInv, ReceiptSide, AckedWasStored
<1> QED
  BY <1>1, SerialOrder, PTL

-----------------------------------------------------------------------------
(* One process at a time: Delivery implements TextChannel *)

LEMMA SubmitStep ==
    ASSUME Solo, TypeInv, NEW p \in Peer, SendCommit(p)
    PROVE  Channel!Submit(p)
BY DEF Solo, SendCommit, Channel!Submit

LEMMA DeliverStep ==
    ASSUME Solo, TypeInv, SerialInv, OrderInv, NEW p \in Peer, AcceptText(p)
    PROVE  Channel!Deliver(p)
<1> USE DEF Solo
<1>1. PICK m \in Acceptable(p) :
        /\ m.kind = "text" /\ fetch[p].pc = "drain"
        /\ delivered' = [delivered EXCEPT ![p] = Append(@, m.id)]
        /\ UNCHANGED <<texts, acked>>
  BY AcceptTextStores
<1>2. /\ m.id \in 1 .. texts[Other(p)]
      /\ \A n \in Nat : Stored(p, n) => n < m.id
  BY <1>1, NextTextIsLater
<1>3. ASSUME NEW i \in 1 .. Len(delivered[p])
      PROVE  delivered[p][i] < m.id
  <2>1. Stored(p, delivered[p][i])
    BY DEF Stored
  <2>2. delivered[p][i] \in Nat
    BY DEF TypeInv, TypeOK
  <2> QED
    BY <1>2, <2>1, <2>2
<1>4. Channel!Other(p) = Other(p)
  BY DEF Channel!Other, Other
<1> QED
  BY <1>1, <1>2, <1>3, <1>4 DEF Channel!Deliver

LEMMA AcknowledgeStep ==
    ASSUME Solo, TypeInv, OrderInv, NEW p \in Peer, AcceptReceipt(p)
    PROVE  Channel!Acknowledge(p)
<1> USE DEF Solo
<1>1. PICK m \in Acceptable(p) : m.kind = "receipt" /\ acked' = [acked EXCEPT ![p] = @ \cup {m.id}]
  BY DEF AcceptReceipt
<1>2. m \in relay /\ m.from = Other(p)
  BY DEF OrderInv, ReadSide, Acceptable
<1>3. Stored(Other(p), m.id)
  BY <1>1, <1>2, PeerFacts DEF OrderInv, ReceiptSide
<1>4. Channel!Other(p) = Other(p)
  BY DEF Channel!Other, Other
<1>5. UNCHANGED <<texts, delivered>>
  BY DEF AcceptReceipt
<1> QED
  BY <1>1, <1>3, <1>4, <1>5 DEF Stored, Channel!Acknowledge

LEMMA ChannelStep ==
    ASSUME Solo, TypeInv, SerialInv, OrderInv, [Next]_vars
    PROVE  [Channel!Next]_(Channel!channel)
<1> USE DEF Solo
<1>e. \A p \in Peer : p \in Channel!End
  BY DEF Peer, Channel!End
<1>u. ASSUME UNCHANGED <<texts, delivered, acked>>
      PROVE  [Channel!Next]_(Channel!channel)
  BY <1>u DEF Channel!channel
<1>1. CASE UNCHANGED vars
  BY <1>1, <1>u DEF vars, history
<1>2. ASSUME NEW p \in Peer, Command(p)
      PROVE  [Channel!Next]_(Channel!channel)
  <2>1. CASE SendCommit(p)
    BY <2>1, <1>e, SubmitStep DEF Channel!Next
  <2>2. CASE ~ SendCommit(p)
    <3>1. SendSide(p)
      BY DEF OrderInv
    <3> QED
      BY <1>2, <1>u, <2>2, <3>1, CommandOrder
  <2> QED
    BY <2>1, <2>2
<1>3. ASSUME NEW p \in Peer, Fetch(p)
      PROVE  [Channel!Next]_(Channel!channel)
  <2>1. CASE AcceptText(p)
    BY <2>1, <1>e, DeliverStep DEF Channel!Next
  <2>2. CASE AcceptReceipt(p)
    BY <2>2, <1>e, AcknowledgeStep DEF Channel!Next
  <2>3. CASE ~ AcceptText(p) /\ ~ AcceptReceipt(p)
    <3>1. UNCHANGED <<texts, delivered, acked>>
      BY <1>3, <2>3
         DEF Fetch, SendReceipt, FetchBegin, FlushCommand, FlushNext, FlushEnd, ReceiptLoad,
             ReceiptSave, ReceiptRefresh, ReceiptPost, ReceiptFailover, ReceiptDone, ReceiptUndo,
             ReceiptQueue, Collect, AcceptAux, Merge, Save, NextTag, FetchEnd, history,
             Pending, Queued
    <3> QED
      BY <1>u, <3>1
  <2> QED
    BY <2>1, <2>2, <2>3
<1>4. ASSUME NEW p \in Peer, KillFetch(p) \/ KillCommand(p)
      PROVE  [Channel!Next]_(Channel!channel)
  BY <1>4, <1>u DEF KillFetch, KillCommand, history
<1>5. CASE Expire
  BY <1>5, <1>u DEF Expire, history
<1> QED
  BY <1>1, <1>2, <1>3, <1>4, <1>5 DEF Next

\* With one process at a time, the two stores, the relays and the receipts are
\* a channel that loses texts at most: what atomic_commit_receive_text appends
\* is later than all before it, and a receipt is accepted only for a stored text.
THEOREM ChannelImplemented == ASSUME Solo PROVE Spec => ImplementsChannel
<1> USE DEF Solo
<1>1. Init => Channel!Init
  BY DEF Init, Channel!Init, Peer, Channel!End
<1>2. TypeInv /\ SerialInv /\ OrderInv /\ [Next]_vars => [Channel!Next]_(Channel!channel)
  BY ChannelStep
<1> QED
  BY <1>1, <1>2, SerialOrder, PTL DEF Spec, ImplementsChannel, Channel!Spec

-----------------------------------------------------------------------------
(* One process at a time: no number is taken and left without a message *)

\* Accounted for a peer with one terminal.
Carried(p, s) ==
    \/ s \in dropped[p]
    \/ \E m \in relay \cup expired \cup outbound_pending[p] : m.from = p /\ m.seq = s
    \/ cmd[p].pc = "post" /\ cmd[p].msg.seq = s
    \/ fetch[p].pc \in {"rpost", "rundo"} /\ fetch[p].rmem.next_send_seq - 1 = s

\* No copy of the contact that will be stored has taken more numbers than the
\* stored one; the copy of a receipt has taken as many, the last for the receipt.
CopiesBehind(p) ==
    /\ cmd[p].pc # "idle" => cmd[p].mem.next_send_seq <= contact[p].next_send_seq
    /\ fetch[p].back # "idle" => fetch[p].mem.next_send_seq <= contact[p].next_send_seq
    /\ fetch[p].pc \in {"rsave", "rpost", "rundo"} =>
         fetch[p].rmem.next_send_seq = contact[p].next_send_seq
    /\ fetch[p].pc \in {"rpost", "rundo"} /\ fetch[p].back # "idle" =>
         fetch[p].mem.next_send_seq < contact[p].next_send_seq

\* Every number taken is carried, and a row that resend clears was posted.
HoleFree(p) ==
    /\ \A s \in 1 .. (contact[p].next_send_seq - 1) : Carried(p, s)
    /\ CopiesBehind(p)
    /\ cmd[p].pc = "post" => cmd[p].msg.from = p
    /\ cmd[p].pc = "mark" => cmd[p].msg \in relay

HoleInv == \A p \in Peer : HoleFree(p)

LEMMA CarriedAccounted ==
    ASSUME Solo, NEW p \in Peer, NEW s \in Nat, HoleFree(p), Carried(p, s)
    PROVE  Accounted(p, s)
<1> USE DEF Solo
<1>1. CASE s \in dropped[p]
  BY <1>1 DEF Accounted
<1>2. ASSUME NEW m \in relay \cup expired \cup outbound_pending[p], m.from = p, m.seq = s
      PROVE  Accounted(p, s)
  BY <1>2 DEF Accounted, Reachable
<1>3. CASE cmd[p].pc = "post" /\ cmd[p].msg.seq = s
  <2>1. cmd[p].msg \in Reachable(p) /\ cmd[p].msg.from = p
    BY <1>3 DEF Reachable, HoleFree
  <2> QED
    BY <1>3, <2>1 DEF Accounted
<1>4. CASE fetch[p].pc \in {"rpost", "rundo"} /\ fetch[p].rmem.next_send_seq - 1 = s
  <2>1. ReceiptOf(p) \in Reachable(p)
    BY <1>4 DEF Reachable
  <2>2. ReceiptOf(p).from = p /\ ReceiptOf(p).seq = s
    BY <1>4 DEF ReceiptOf, Receipt
  <2> QED
    BY <2>1, <2>2 DEF Accounted
<1> QED
  BY <1>1, <1>2, <1>3, <1>4 DEF Carried

\* Only a message that a relay gets again loses its expiry.
LEMMA ExpiredCovered == [Next]_vars => expired \subseteq expired' \cup relay'
<1> SUFFICES ASSUME [Next]_vars PROVE expired \subseteq expired' \cup relay'
  OBVIOUS
<1> USE DEF store, network, counts, history
<1>1. ASSUME NEW y \in Terminal, ReceiptPost(y) \/ ReceiptFailover(y)
      PROVE  expired \subseteq expired' \cup relay'
  BY <1>1 DEF ReceiptPost, ReceiptFailover
<1>2. ASSUME NEW y \in Terminal, Fetch(y), ~(ReceiptPost(y) \/ ReceiptFailover(y))
      PROVE  expired' = expired
  BY <1>2 DEF Fetch, SendReceipt, FetchBegin, FlushCommand, FlushNext, FlushEnd,
       ReceiptLoad, ReceiptSave, ReceiptRefresh, ReceiptDone, ReceiptUndo, ReceiptQueue,
       Collect, AcceptText, AcceptReceipt, AcceptAux, Merge, Save, NextTag, FetchEnd,
       Pending, Queued
<1>3. ASSUME NEW y \in Terminal, Command(y)
      PROVE  expired' = expired
  BY <1>3 DEF Command, SendLoad, SendCommit, PushLoad, PushCommit, CommandRefresh,
              CommandPost, CommandFailover, ResendLoad, ResendNext, ResendAnew,
              ResendMark, ResendEnd, Pending, HasOuter
<1>4. CASE Expire \/ UNCHANGED vars \/ \E y \in Terminal : KillCommand(y) \/ KillFetch(y)
  BY <1>4 DEF Expire, KillCommand, KillFetch, vars
<1> QED
  BY <1>1, <1>2, <1>3, <1>4 DEF Next

\* A number stays carried when its message stays with its carrier or goes on.
LEMMA StillCarried ==
    ASSUME [Next]_vars, NEW p \in Peer, NEW s, Carried(p, s),
           dropped[p] \subseteq dropped'[p],
           \A t \in outbound_pending[p] : t.from = p =>
             t \in outbound_pending'[p] \/ Carried(p, t.seq)',
           cmd[p].pc = "post" /\ cmd[p].msg.seq = s => Carried(p, s)',
           fetch[p].pc \in {"rpost", "rundo"} /\ fetch[p].rmem.next_send_seq - 1 = s
             => Carried(p, s)'
    PROVE  Carried(p, s)'
<1>1. relay \subseteq relay' /\ expired \subseteq expired' \cup relay'
  BY RelayGrows, ExpiredCovered
<1>2. ASSUME NEW m \in relay \cup expired \cup outbound_pending[p], m.from = p, m.seq = s
      PROVE  Carried(p, s)'
  <2>1. CASE m \in relay' \cup expired' \cup outbound_pending'[p]
    BY <1>2, <2>1 DEF Carried
  <2>2. CASE m \notin relay' \cup expired' \cup outbound_pending'[p]
    BY <1>1, <1>2, <2>2
  <2> QED
    BY <2>1, <2>2
<1>3. CASE s \in dropped[p]
  BY <1>3 DEF Carried
<1> QED
  BY <1>2, <1>3 DEF Carried

\* A command leaves no number behind: what it takes it commits with its message,
\* and a row goes only after a relay answered for it.
LEMMA CommandFillsNumbers ==
    ASSUME Solo, TypeInv, SerialInv, NEW p \in Peer, SendSide(p), HoleFree(p), Command(p),
           [Next]_vars
    PROVE  HoleFree(p)'
<1> USE DEF Solo, store, network, counts, history
<1>a. /\ contact \in [Peer -> Contact] /\ cmd \in [Peer -> CommandProcess]
      /\ outbound_pending \in [Peer -> SUBSET Blob] /\ dropped \in [Peer -> SUBSET Nat]
      /\ cmd[p] \in CommandProcess /\ cmd[p].mem \in Contact
      /\ cmd[p].mem.next_send_seq \in Nat /\ contact[p].next_send_seq \in Nat
      /\ cmd[p].msg \in Blob
  BY DEF TypeInv, TypeOK, CommandProcess, Contact
<1>b. Taken(cmd[p].mem).next_send_seq = cmd[p].mem.next_send_seq + 1
  BY <1>a, CounterTypes
<1>c. CommandHolds(p)
  BY DEF SendSide
<1>f. fetch' = fetch /\ fetch[p].pc = "idle" /\ fetch[p].back = "idle"
  BY SerialCommand DEF SerialInv, FetchAhead
<1>h. /\ \A s \in 1 .. (contact[p].next_send_seq - 1) : Carried(p, s)
      /\ cmd[p].pc # "idle" => cmd[p].mem.next_send_seq <= contact[p].next_send_seq
      /\ cmd[p].pc = "post" => cmd[p].msg.from = p
      /\ cmd[p].pc = "mark" => cmd[p].msg \in relay
  BY DEF HoleFree, CopiesBehind
<1>k. ASSUME dropped[p] \subseteq dropped'[p],
             \A t \in outbound_pending[p] : t.from = p =>
               t \in outbound_pending'[p] \/ Carried(p, t.seq)',
             cmd[p].pc = "post" => \A s : s = cmd[p].msg.seq => Carried(p, s)',
             contact'[p].next_send_seq \in Nat,
             \/ contact'[p].next_send_seq <= contact[p].next_send_seq
             \/ /\ contact'[p].next_send_seq = contact[p].next_send_seq + 1
                /\ \A s : s = contact[p].next_send_seq => Carried(p, s)',
             cmd'[p].pc # "idle" =>
               cmd'[p].mem.next_send_seq <= contact'[p].next_send_seq,
             cmd'[p].pc = "post" => cmd'[p].msg.from = p,
             cmd'[p].pc = "mark" => cmd'[p].msg \in relay'
      PROVE  HoleFree(p)'
  <2>1. ASSUME NEW s \in 1 .. (contact'[p].next_send_seq - 1)
        PROVE  Carried(p, s)'
    <3>1. CASE s \in 1 .. (contact[p].next_send_seq - 1)
      BY <1>f, <1>h, <1>k, <3>1, StillCarried
    <3>2. CASE s \notin 1 .. (contact[p].next_send_seq - 1)
      <4>1. s = contact[p].next_send_seq
        BY <1>a, <1>k, <3>2
      <4> QED
        BY <1>a, <1>k, <4>1
    <3> QED
      BY <3>1, <3>2
  <2> QED
    BY <1>f, <1>k, <2>1 DEF HoleFree, CopiesBehind
<1>1. CASE SendLoad(p) \/ PushLoad(p)
  <2>1. /\ cmd[p].pc = "idle" /\ UNCHANGED <<store, network, history>>
        /\ cmd'[p].pc \in {"send", "push"} /\ cmd'[p].mem = contact[p]
    BY <1>1, <1>a DEF SendLoad, PushLoad, Free, CommandProcess
  <2> QED
    BY <1>a, <1>k, <2>1
<1>2. CASE ResendLoad(p)
  <2>1. /\ cmd[p].pc = "idle" /\ UNCHANGED <<store, network, history>>
        /\ cmd'[p].pc = "resend" /\ cmd'[p].mem = contact[p]
    BY <1>2, <1>a DEF ResendLoad, Free, IdleCmd, Pending
  <2> QED
    BY <1>a, <1>k, <2>1
<1>3. CASE SendCommit(p)
  <2> DEFINE t == Text(p, cmd[p].mem.next_send_seq, texts[p] + 1)
  <2>1. /\ cmd[p].pc = "send" /\ cmd'[p].pc = "post" /\ cmd'[p].msg = t
        /\ cmd'[p].mem = Taken(cmd[p].mem) /\ contact'[p] = Taken(cmd[p].mem)
        /\ outbound_pending'[p] = outbound_pending[p] \cup {t}
        /\ UNCHANGED <<network, dropped>>
    BY <1>3, <1>a DEF SendCommit, CommandProcess
  <2>2. t.from = p /\ t.seq = cmd[p].mem.next_send_seq
    BY DEF Text
  <2> HIDE DEF t
  <2>3. \A s : s = cmd[p].mem.next_send_seq => Carried(p, s)'
    BY <2>1, <2>2 DEF Carried
  <2>4. contact'[p].next_send_seq = cmd[p].mem.next_send_seq + 1
        /\ cmd'[p].mem.next_send_seq = cmd[p].mem.next_send_seq + 1
        /\ cmd[p].mem.next_send_seq <= contact[p].next_send_seq
    BY <1>b, <1>h, <2>1
  <2>5. \/ contact'[p].next_send_seq <= contact[p].next_send_seq
        \/ /\ contact'[p].next_send_seq = contact[p].next_send_seq + 1
           /\ \A s : s = contact[p].next_send_seq => Carried(p, s)'
    BY <1>a, <2>3, <2>4
  <2>6. \A t1 \in outbound_pending[p] : t1.from = p => t1 \in outbound_pending'[p]
    BY <2>1
  <2> QED
    BY <1>a, <1>k, <2>1, <2>2, <2>4, <2>5, <2>6
<1>4. CASE PushCommit(p)
  <2> DEFINE t == Aux(p, cmd[p].mem.next_send_seq)
  <2>1. /\ cmd[p].pc = "push" /\ cmd'[p].pc = "post" /\ cmd'[p].msg = t
        /\ cmd'[p].mem = Taken(cmd[p].mem) /\ contact'[p] = Taken(cmd[p].mem)
        /\ UNCHANGED <<outbound_pending, network, dropped>>
    BY <1>4, <1>a DEF PushCommit, CommandProcess
  <2>2. t.from = p /\ t.seq = cmd[p].mem.next_send_seq
    BY DEF Aux
  <2> HIDE DEF t
  <2>3. \A s : s = cmd[p].mem.next_send_seq => Carried(p, s)'
    BY <2>1, <2>2 DEF Carried
  <2>4. contact'[p].next_send_seq = cmd[p].mem.next_send_seq + 1
        /\ cmd'[p].mem.next_send_seq = cmd[p].mem.next_send_seq + 1
        /\ cmd[p].mem.next_send_seq <= contact[p].next_send_seq
    BY <1>b, <1>h, <2>1
  <2>5. \/ contact'[p].next_send_seq <= contact[p].next_send_seq
        \/ /\ contact'[p].next_send_seq = contact[p].next_send_seq + 1
           /\ \A s : s = contact[p].next_send_seq => Carried(p, s)'
    BY <1>a, <2>3, <2>4
  <2>6. \A t1 \in outbound_pending[p] : t1.from = p => t1 \in outbound_pending'[p]
    BY <2>1
  <2> QED
    BY <1>a, <1>k, <2>1, <2>2, <2>4, <2>5, <2>6
<1>5. CASE CommandRefresh(p)
  <2>1. /\ cmd[p].pc = "post" /\ cmd' = cmd /\ contact'[p] = cmd[p].mem
        /\ UNCHANGED <<outbound_pending, network, dropped>>
    BY <1>5, <1>a DEF CommandRefresh
  <2>2. \A s : s = cmd[p].msg.seq => Carried(p, s)'
    BY <2>1 DEF Carried
  <2> QED
    BY <1>a, <1>h, <1>k, <2>1, <2>2
<1>6. CASE CommandPost(p)
  <2>p. PICK o \in CommandPosts : \E c \in AfterPost(p, o) :
          /\ relay' = IF o = "fail" THEN relay ELSE relay \cup {cmd[p].msg}
          /\ dropped' = [dropped EXCEPT ![p] = IF o = "fail" THEN @ \cup LostWith(cmd[p].msg)
                                                           ELSE @]
          /\ cmd' = [cmd EXCEPT ![p] = c]
    BY <1>6 DEF CommandPost
  <2>o. PICK c \in AfterPost(p, o) : cmd' = [cmd EXCEPT ![p] = c]
    BY <2>p
  <2>1. cmd[p].pc = "post" /\ cmd'[p] = c /\ UNCHANGED <<store, expired>>
    BY <1>6, <1>a, <2>o DEF CommandPost
  <2>2. \/ c = IdleCmd
        \/ /\ c.pc = AfterResend(o) /\ c.mem = cmd[p].mem /\ c.msg = cmd[p].msg
        \/ /\ c.pc = "push" /\ c.mem = cmd[p].mem
    <3>1. /\ [cmd[p] EXCEPT !.pc = AfterResend(o)].mem = cmd[p].mem
          /\ [cmd[p] EXCEPT !.pc = AfterResend(o)].msg = cmd[p].msg
          /\ [cmd[p] EXCEPT !.pc = AfterResend(o)].pc = AfterResend(o)
      BY <1>a DEF CommandProcess
    <3>2. /\ [cmd[p] EXCEPT !.pc = "push", !.msg = NoBlob].mem = cmd[p].mem
          /\ [cmd[p] EXCEPT !.pc = "push", !.msg = NoBlob].pc = "push"
      BY <1>a DEF CommandProcess
    <3>3. CASE cmd[p].again
      BY <3>1, <3>3 DEF AfterPost
    <3>4. CASE ~cmd[p].again
      BY <3>2, <3>4 DEF AfterPost
    <3> QED
      BY <3>3, <3>4
  <2>3. AfterResend(o) = IF o = "ok" THEN "mark" ELSE "resend"
    BY DEF AfterResend
  <2>4. IdleCmd.pc = "idle"
    BY DEF IdleCmd
  <2>5. /\ cmd'[p].pc # "idle" => cmd'[p].mem = cmd[p].mem
        /\ cmd'[p].pc # "post"
        /\ cmd'[p].pc = "mark" => cmd'[p].msg \in relay'
    BY <2>1, <2>2, <2>3, <2>4, <2>p
  <2>6. dropped[p] \subseteq dropped'[p]
    BY <1>a, <2>p
  <2>7. ASSUME NEW s, s = cmd[p].msg.seq
        PROVE  Carried(p, s)'
    <3>1. CASE o # "fail"
      BY <1>h, <2>1, <2>7, <2>p, <3>1 DEF Carried
    <3>2. CASE o = "fail" /\ cmd[p].msg \in outbound_pending[p]
      BY <1>h, <2>1, <2>7, <3>2 DEF Carried
    <3>3. CASE o = "fail" /\ cmd[p].msg \in relay
      BY <1>h, <2>1, <2>7, <2>p, <3>3 DEF Carried
    <3>4. CASE o = "fail" /\ cmd[p].msg.kind = "aux" /\ cmd[p].msg \notin relay
      <4>1. cmd[p].msg.seq \in dropped'[p]
        BY <1>a, <2>p, <3>4 DEF LostWith
      <4> QED
        BY <2>7, <4>1 DEF Carried
    <3> QED
      BY <1>c, <2>1, <3>1, <3>2, <3>3, <3>4 DEF CommandHolds
  <2> QED
    BY <1>a, <1>h, <1>k, <2>1, <2>5, <2>6, <2>7
<1>7. CASE ResendNext(p)
  <2>1. PICK m \in outbound_pending[p] :
          cmd' = [cmd EXCEPT ![p].pc = "post", ![p].msg = m, ![p].todo = @ \ {m}]
    BY <1>7 DEF ResendNext, HasOuter
  <2>2. /\ cmd[p].pc = "resend" /\ UNCHANGED <<store, network, history>>
        /\ cmd'[p].pc = "post" /\ cmd'[p].msg = m /\ cmd'[p].mem = cmd[p].mem
    BY <1>7, <1>a, <2>1 DEF ResendNext, CommandProcess, HasOuter
  <2>3. m.from = p
    BY <1>c DEF CommandHolds
  <2> QED
    BY <1>a, <1>h, <1>k, <2>2, <2>3
<1>8. CASE ResendAnew(p)
  <2>1. cmd[p].todo \ outbound_pending[p] # {}
    BY <1>8 DEF ResendAnew, HasOuter
  <2> QED
    BY <1>c, <2>1 DEF CommandHolds
<1>9. CASE ResendMark(p)
  <2>1. /\ cmd[p].pc = "mark" /\ UNCHANGED <<contact, network, dropped>>
        /\ outbound_pending'[p] = outbound_pending[p] \ {cmd[p].msg}
        /\ cmd'[p].pc = "resend" /\ cmd'[p].mem = cmd[p].mem
    BY <1>9, <1>a DEF ResendMark, CommandProcess
  <2>2. \A t \in outbound_pending[p] : t.from = p =>
          t \in outbound_pending'[p] \/ Carried(p, t.seq)'
    BY <1>h, <2>1 DEF Carried
  <2> QED
    BY <1>a, <1>h, <1>k, <2>1, <2>2
<1>10. CASE ResendEnd(p)
  <2>1. /\ UNCHANGED <<store, network, history>> /\ cmd'[p].pc = "idle" /\ cmd[p].pc = "resend"
    BY <1>10, <1>a DEF ResendEnd, IdleCmd
  <2> QED
    BY <1>a, <1>k, <2>1
<1>11. CASE CommandFailover(p)
  <2>1. /\ cmd[p].pc = "post" /\ UNCHANGED <<store, cmd, dropped>>
        /\ relay' = relay \cup {cmd[p].msg}
    BY <1>11 DEF CommandFailover
  <2>2. \A s : s = cmd[p].msg.seq => Carried(p, s)'
    BY <1>h, <2>1 DEF Carried
  <2> QED
    BY <1>a, <1>h, <1>k, <2>1, <2>2
<1> QED
  BY <1>1, <1>2, <1>3, <1>4, <1>5, <1>6, <1>7, <1>8, <1>9, <1>10, <1>11 DEF Command

\* Nor does a receipt: the number it gives back is the last one taken.
LEMMA ReceiptFillsNumbers ==
    ASSUME Solo, TypeInv, SerialInv, NEW p \in Peer, HoleFree(p), SendReceipt(p), [Next]_vars
    PROVE  HoleFree(p)'
<1> USE DEF Solo, store, network, counts, history
<1>a. /\ contact \in [Peer -> Contact] /\ fetch \in [Peer -> FetchProcess]
      /\ fetch[p] \in FetchProcess /\ fetch[p].mem.next_send_seq \in Nat
      /\ fetch[p].rmem \in Contact /\ fetch[p].rmem.next_send_seq \in Nat
      /\ contact[p].next_send_seq \in Nat
  BY DEF TypeInv, TypeOK, FetchProcess, Contact
<1>b. Taken(fetch[p].rmem).next_send_seq = fetch[p].rmem.next_send_seq + 1
  BY <1>a, CounterTypes
<1>f. cmd' = cmd /\ cmd[p].pc = "idle"
  BY SerialReceipt DEF SerialInv, Exclusive
<1>h. /\ \A s \in 1 .. (contact[p].next_send_seq - 1) : Carried(p, s)
      /\ CopiesBehind(p)
  BY DEF HoleFree
<1>k. ASSUME UNCHANGED <<outbound_pending, dropped>>, contact'[p].next_send_seq \in Nat,
             \A s \in 1 .. (contact'[p].next_send_seq - 1) :
               (\/ s > contact[p].next_send_seq - 1
                \/ fetch[p].pc \in {"rpost", "rundo"} /\ fetch[p].rmem.next_send_seq - 1 = s)
               => Carried(p, s)',
             CopiesBehind(p)'
      PROVE  HoleFree(p)'
  <2>1. ASSUME NEW s \in 1 .. (contact'[p].next_send_seq - 1)
        PROVE  Carried(p, s)'
    <3>1. CASE s \in 1 .. (contact[p].next_send_seq - 1)
      BY <1>f, <1>h, <1>k, <3>1, StillCarried
    <3>2. CASE s \notin 1 .. (contact[p].next_send_seq - 1)
      BY <1>a, <1>k, <3>2
    <3> QED
      BY <3>1, <3>2
  <2> QED
    BY <1>f, <1>k, <2>1 DEF HoleFree
<1>1. CASE ReceiptLoad(p)
  <2>1. /\ fetch[p].pc = "rload"
        /\ fetch'[p] = [fetch[p] EXCEPT !.pc = "rsave", !.rmem = contact[p]]
        /\ UNCHANGED <<store, network, dropped>>
    BY <1>1, <1>a DEF ReceiptLoad
  <2>2. /\ fetch'[p].pc = "rsave" /\ fetch'[p].rmem = contact[p]
        /\ fetch'[p].back = fetch[p].back /\ fetch'[p].mem = fetch[p].mem
    BY <2>1, <1>a DEF FetchProcess
  <2>3. CopiesBehind(p)'
    BY <1>f, <1>h, <2>1, <2>2 DEF CopiesBehind
  <2> QED
    BY <1>a, <1>k, <2>1, <2>3
<1>2. CASE ReceiptSave(p)
  <2>1. /\ fetch[p].pc = "rsave"
        /\ fetch'[p] = [fetch[p] EXCEPT !.pc = "rpost", !.rmem = Taken(fetch[p].rmem)]
        /\ contact'[p] = Taken(fetch[p].rmem)
        /\ UNCHANGED <<outbound_pending, network, dropped>>
    BY <1>2, <1>a DEF ReceiptSave
  <2>2. /\ fetch'[p].pc = "rpost" /\ fetch'[p].rmem = Taken(fetch[p].rmem)
        /\ fetch'[p].back = fetch[p].back /\ fetch'[p].mem = fetch[p].mem
    BY <2>1, <1>a DEF FetchProcess
  <2>3. /\ contact[p].next_send_seq = fetch[p].rmem.next_send_seq
        /\ contact'[p].next_send_seq = contact[p].next_send_seq + 1
    BY <1>b, <1>h, <2>1 DEF CopiesBehind
  <2>4. CopiesBehind(p)'
    BY <1>a, <1>f, <1>h, <2>1, <2>2, <2>3 DEF CopiesBehind
  <2>5. ASSUME NEW s, s = contact[p].next_send_seq
        PROVE  Carried(p, s)'
    BY <1>a, <1>b, <2>2, <2>3, <2>5 DEF Carried
  <2> QED
    BY <1>a, <1>k, <2>1, <2>3, <2>4, <2>5
<1>3. CASE ReceiptRefresh(p)
  <2>1. /\ fetch[p].pc = "rpost" /\ fetch' = fetch /\ contact'[p] = fetch[p].rmem
        /\ UNCHANGED <<outbound_pending, network, dropped>>
    BY <1>3, <1>a DEF ReceiptRefresh
  <2>2. contact'[p].next_send_seq = contact[p].next_send_seq
    BY <1>h, <2>1 DEF CopiesBehind
  <2>3. CopiesBehind(p)'
    BY <1>f, <1>h, <2>1, <2>2 DEF CopiesBehind
  <2>4. \A s : fetch[p].rmem.next_send_seq - 1 = s => Carried(p, s)'
    BY <2>1 DEF Carried
  <2> QED
    BY <1>a, <1>k, <2>1, <2>2, <2>3, <2>4
<1>4. CASE ReceiptPost(p)
  <2>1. PICK o \in ReceiptPosts :
          /\ relay' = IF o = "fail" THEN relay ELSE relay \cup {ReceiptOf(p)}
          /\ fetch' = [fetch EXCEPT ![p].pc = AfterReceiptPost(o)]
    BY <1>4 DEF ReceiptPost
  <2>2. fetch[p].pc = "rpost" /\ UNCHANGED <<store, dropped>>
    BY <1>4 DEF ReceiptPost
  <2>3. /\ fetch'[p].pc = AfterReceiptPost(o) /\ fetch'[p].rmem = fetch[p].rmem
        /\ fetch'[p].back = fetch[p].back /\ fetch'[p].mem = fetch[p].mem
    BY <2>1, <1>a DEF FetchProcess
  <2>4. CopiesBehind(p)'
    BY <1>f, <1>h, <2>2, <2>3 DEF CopiesBehind, AfterReceiptPost
  <2>5. ReceiptOf(p).from = p /\ ReceiptOf(p).seq = fetch[p].rmem.next_send_seq - 1
    BY DEF ReceiptOf, Receipt
  <2>6. \A s : fetch[p].rmem.next_send_seq - 1 = s => Carried(p, s)'
    <3>1. CASE o = "fail"
      BY <2>3, <3>1 DEF Carried, AfterReceiptPost
    <3>2. CASE o # "fail"
      BY <2>1, <2>5, <3>2 DEF Carried
    <3> QED
      BY <3>1, <3>2
  <2> QED
    BY <1>a, <1>k, <2>2, <2>4, <2>6
<1>5. CASE ReceiptFailover(p)
  <2>1. /\ fetch[p].pc = "rpost" /\ UNCHANGED <<store, fetch, dropped>>
    BY <1>5 DEF ReceiptFailover
  <2>2. CopiesBehind(p)'
    BY <1>f, <1>h, <2>1 DEF CopiesBehind
  <2>3. \A s : fetch[p].rmem.next_send_seq - 1 = s => Carried(p, s)'
    BY <2>1 DEF Carried
  <2> QED
    BY <1>a, <1>k, <2>1, <2>2, <2>3
<1>6. CASE ReceiptDone(p) \/ ReceiptQueue(p)
  <2>1. /\ fetch[p].pc \in {"rdone", "rqueue"} /\ fetch'[p] = Returned(fetch[p])
        /\ UNCHANGED <<contact, outbound_pending, network, dropped>>
    BY <1>6, <1>a DEF ReceiptDone, ReceiptQueue
  <2>2. /\ fetch'[p].pc \in {"merge", "flush"}
        /\ fetch'[p].back = fetch[p].back /\ fetch'[p].mem = fetch[p].mem
    BY <2>1, <1>a DEF Returned, FetchProcess
  <2>3. CopiesBehind(p)'
    BY <1>f, <1>h, <2>1, <2>2 DEF CopiesBehind
  <2> QED
    BY <1>a, <1>k, <2>1, <2>3
<1>7. CASE ReceiptUndo(p)
  <2>1. /\ fetch[p].pc = "rundo" /\ contact'[p] = Untaken(fetch[p].rmem)
        /\ fetch'[p] = [fetch[p] EXCEPT !.pc = "rqueue"]
        /\ UNCHANGED <<outbound_pending, network, dropped>>
    BY <1>7, <1>a DEF ReceiptUndo
  <2>2. /\ fetch'[p].pc = "rqueue" /\ fetch'[p].back = fetch[p].back
        /\ fetch'[p].mem = fetch[p].mem
    BY <2>1, <1>a DEF FetchProcess
  <2>3. /\ contact'[p].next_send_seq = fetch[p].rmem.next_send_seq - 1
        /\ fetch[p].rmem.next_send_seq = contact[p].next_send_seq
        /\ contact'[p].next_send_seq \in Nat
    <3>1. fetch[p].rmem.next_send_seq \in Nat \ {0, 1}
      BY <2>1 DEF TypeInv, ReceiptTookSeq
    <3> QED
      BY <1>a, <1>h, <2>1, <3>1 DEF Untaken, Contact, CopiesBehind
  <2>4. CopiesBehind(p)'
    BY <1>a, <1>f, <1>h, <2>1, <2>2, <2>3 DEF CopiesBehind
  <2> QED
    BY <1>a, <1>k, <2>1, <2>3, <2>4
<1> QED
  BY <1>1, <1>2, <1>3, <1>4, <1>5, <1>6, <1>7 DEF SendReceipt

\* A receipt that arrives clears rows of a text that a relay has.
LEMMA ClearedWasPosted ==
    ASSUME Solo, TypeInv, OrderInv, NEW p \in Peer, NEW m \in relay, m.from = Other(p),
           m.kind = "receipt", NEW t \in outbound_pending[p], t.id = m.id
    PROVE  \E y \in relay : y.from = p /\ y.seq = t.seq
<1>1. Other(p) \in Peer /\ Other(Other(p)) = p
  BY PeersDiffer DEF Peer, Other
<1>2. m.id \in Nat /\ relay \subseteq Blob /\ outbound_pending[p] \subseteq Blob
  BY DEF TypeInv, TypeOK, Blob
<1>3. Behind(Other(p), m.id)
  BY <1>1, <1>2 DEF OrderInv, ReceiptSide, ReadSide
<1>4. PICK y \in relay : y.kind = "text" /\ y.from = p /\ y.id = m.id
  BY <1>1, <1>3 DEF Behind
<1>5. t \in Texts(p) /\ y \in Texts(p)
  BY <1>4 DEF Texts, OrderInv, SendSide, CommandHolds
<1>6. t.seq \in Nat /\ y.seq \in Nat /\ t.id \in Nat
  BY <1>2 DEF Blob
<1>7. t.seq <= y.seq /\ y.seq <= t.seq
  BY <1>4, <1>5, <1>6 DEF OrderInv, SendSide, TextsInOrder
<1> QED
  BY <1>4, <1>6, <1>7

LEMMA FetchFillsNumbers ==
    ASSUME Solo, TypeInv, SerialInv, OrderInv, NEW p \in Peer, HoleFree(p), Fetch(p),
           [Next]_vars
    PROVE  HoleFree(p)'
<1> USE DEF Solo, store, network, counts, history
<1>a. /\ contact \in [Peer -> Contact] /\ fetch \in [Peer -> FetchProcess]
      /\ fetch[p] \in FetchProcess /\ fetch[p].mem.next_send_seq \in Nat
      /\ fetch[p].mem \in Contact /\ contact[p].next_send_seq \in Nat
      /\ outbound_pending \in [Peer -> SUBSET Blob]
  BY DEF TypeInv, TypeOK, FetchProcess, Contact
<1>b. Accepted(fetch[p].mem).next_send_seq = fetch[p].mem.next_send_seq
  BY <1>a DEF Accepted, Contact
<1>f. cmd' = cmd /\ cmd[p].pc = "idle" /\ FetchAhead(p)
  BY SerialFetch DEF SerialInv
<1>h. /\ \A s \in 1 .. (contact[p].next_send_seq - 1) : Carried(p, s)
      /\ CopiesBehind(p)
  BY DEF HoleFree
\* No number is taken, and no receipt is under way.
<1>k. ASSUME \A t \in outbound_pending[p] : t.from = p =>
               t \in outbound_pending'[p] \/ Carried(p, t.seq)',
             UNCHANGED dropped,
             contact'[p].next_send_seq \in Nat,
             contact'[p].next_send_seq <= contact[p].next_send_seq,
             fetch[p].pc \notin {"rsave", "rpost", "rundo"},
             fetch'[p].pc \notin {"rsave", "rpost", "rundo"},
             fetch'[p].back # "idle" =>
               fetch'[p].mem.next_send_seq <= contact'[p].next_send_seq
      PROVE  HoleFree(p)'
  <2>1. ASSUME NEW s \in 1 .. (contact'[p].next_send_seq - 1)
        PROVE  Carried(p, s)'
    <3>1. s \in 1 .. (contact[p].next_send_seq - 1)
      BY <1>a, <1>k
    <3> QED
      BY <1>f, <1>h, <1>k, <3>1, StillCarried
  <2> QED
    BY <1>f, <1>k, <2>1 DEF HoleFree, CopiesBehind
<1>1. CASE FetchBegin(p)
  <2>1. /\ fetch[p].pc = "idle" /\ UNCHANGED <<contact, network, dropped>>
        /\ outbound_pending'[p] = outbound_pending[p] \ expired
        /\ fetch'[p].pc = "flush" /\ fetch'[p].mem = contact[p]
    BY <1>1, <1>a DEF FetchBegin, Free, IdleFetch, Pending, Queued
  <2>2. ASSUME NEW t \in outbound_pending[p], t.from = p
        PROVE  t \in outbound_pending'[p] \/ Carried(p, t.seq)'
    BY <2>1, <2>2 DEF Carried
  <2> QED
    BY <1>a, <1>k, <2>1, <2>2
<1>2. CASE FlushCommand(p)
  <2>1. /\ fetch[p].pc = "idle" /\ UNCHANGED <<store, network, history>>
        /\ fetch'[p].pc = "flush" /\ fetch'[p].back = "idle"
    BY <1>2, <1>a DEF FlushCommand, Free, IdleFetch, Queued
  <2> QED
    BY <1>a, <1>k, <2>1
<1>3. CASE FlushNext(p)
  <2>1. PICK d : fetch' = [fetch EXCEPT ![p].pc = "rload", ![p].rid = d, ![p].todo = @ \ {d}]
    BY <1>3 DEF FlushNext
  <2>2. /\ fetch[p].pc = "flush" /\ UNCHANGED <<store, network, history>>
        /\ fetch'[p].pc = "rload" /\ fetch'[p].back = fetch[p].back
        /\ fetch'[p].mem = fetch[p].mem
    BY <1>3, <1>a, <2>1 DEF FlushNext, FetchProcess
  <2> QED
    BY <1>a, <1>h, <1>k, <2>2 DEF CopiesBehind
<1>4. CASE FlushEnd(p)
  <2>1. /\ UNCHANGED <<store, network, history>> /\ fetch[p].pc = "flush"
        /\ fetch'[p] = IF fetch[p].back = "idle" THEN IdleFetch
                       ELSE [fetch[p] EXCEPT !.pc = "collect"]
    BY <1>4, <1>a DEF FlushEnd
  <2>2. \/ fetch'[p].pc = "idle" /\ fetch'[p].back = "idle"
        \/ fetch'[p].pc = "collect" /\ fetch'[p].mem = fetch[p].mem
           /\ fetch'[p].back = fetch[p].back
    BY <2>1, <1>a DEF FetchProcess, IdleFetch
  <2> QED
    BY <1>a, <1>h, <1>k, <2>1, <2>2 DEF CopiesBehind
<1>5. CASE SendReceipt(p)
  BY <1>5, ReceiptFillsNumbers
<1>6. CASE Collect(p)
  <2>1. PICK q : fetch' = [fetch EXCEPT ![p].pc = "drain", ![p].queue = q]
    BY <1>6 DEF Collect
  <2>2. /\ fetch'[p].pc = "drain" /\ fetch'[p].mem = fetch[p].mem
        /\ fetch'[p].back = fetch[p].back
    BY <2>1, <1>a DEF FetchProcess
  <2>3. fetch[p].pc = "collect" /\ UNCHANGED <<store, network, history>>
    BY <1>6 DEF Collect
  <2> QED
    BY <1>a, <1>h, <1>k, <2>2, <2>3 DEF CopiesBehind
<1>7. CASE AcceptText(p)
  <2>1. PICK m : /\ contact' = [contact EXCEPT ![p] = Accepted(fetch[p].mem)]
                 /\ fetch' = [fetch EXCEPT ![p].pc = "rload", ![p].rid = m.id,
                                ![p].back = "merge", ![p].mem = Accepted(fetch[p].mem),
                                ![p].queue = @ \ {m}]
    BY <1>7 DEF AcceptText
  <2>2. fetch'[p].pc = "rload" /\ fetch'[p].mem = Accepted(fetch[p].mem)
    BY <2>1, <1>a DEF FetchProcess
  <2>3. fetch[p].pc = "drain" /\ UNCHANGED <<outbound_pending, network, dropped>>
    BY <1>7 DEF AcceptText
  <2>4. contact'[p] = Accepted(fetch[p].mem) /\ fetch[p].back # "idle"
    BY <1>a, <1>f, <2>1, <2>3 DEF FetchAhead
  <2> QED
    BY <1>a, <1>b, <1>h, <1>k, <2>2, <2>3, <2>4 DEF CopiesBehind
<1>8. CASE AcceptReceipt(p)
  <2>1. PICK m \in Acceptable(p) :
          /\ m.kind = "receipt"
          /\ outbound_pending' = [outbound_pending EXCEPT ![p] = {t \in @ : t.id # m.id}]
          /\ fetch' = [fetch EXCEPT ![p].pc = "save", ![p].mem = Accepted(fetch[p].mem),
                                    ![p].queue = @ \ {m}]
    BY <1>8 DEF AcceptReceipt
  <2>2. /\ fetch'[p].pc = "save" /\ fetch'[p].back = fetch[p].back
        /\ fetch'[p].mem = Accepted(fetch[p].mem)
    BY <2>1, <1>a DEF FetchProcess
  <2>3. /\ fetch[p].pc = "drain" /\ UNCHANGED <<contact, network, dropped>>
        /\ outbound_pending'[p] = {t \in outbound_pending[p] : t.id # m.id}
    BY <1>8, <1>a, <2>1 DEF AcceptReceipt
  <2>4. m \in relay /\ m.from = Other(p)
    BY <2>1 DEF Acceptable, OrderInv, ReadSide
  <2>5. ASSUME NEW t \in outbound_pending[p], t.from = p
        PROVE  t \in outbound_pending'[p] \/ Carried(p, t.seq)'
    <3>1. CASE t.id # m.id
      BY <2>3, <3>1
    <3>2. CASE t.id = m.id
      BY <2>1, <2>3, <2>4, <3>2, ClearedWasPosted DEF Carried
    <3> QED
      BY <3>1, <3>2
  <2> QED
    BY <1>a, <1>b, <1>h, <1>k, <2>2, <2>3, <2>5 DEF CopiesBehind
<1>9. CASE AcceptAux(p)
  <2>1. PICK m \in Acceptable(p), pc \in {"save", "drain"} :
          fetch' = [fetch EXCEPT ![p].pc = pc, ![p].mem = Accepted(fetch[p].mem),
                                 ![p].queue = @ \ {m}]
    BY <1>9 DEF AcceptAux
  <2>2. /\ fetch'[p].pc \in {"save", "drain"} /\ fetch'[p].back = fetch[p].back
        /\ fetch'[p].mem = Accepted(fetch[p].mem)
    BY <2>1, <1>a DEF FetchProcess
  <2>3. fetch[p].pc = "drain" /\ UNCHANGED <<store, network, history>>
    BY <1>9 DEF AcceptAux
  <2> QED
    BY <1>a, <1>b, <1>h, <1>k, <2>2, <2>3 DEF CopiesBehind
<1>10. CASE Merge(p)
  <2>1. /\ fetch[p].pc = "merge" /\ fetch'[p].pc = "save"
        /\ fetch'[p].mem.next_send_seq = contact[p].next_send_seq
        /\ UNCHANGED <<store, network, history>>
    BY <1>10, <1>a DEF Merge, FetchProcess, Contact
  <2> QED
    BY <1>a, <1>k, <2>1
<1>11. CASE Save(p)
  <2>1. /\ fetch[p].pc = "save" /\ contact'[p] = fetch[p].mem
        /\ fetch'[p].pc = "drain" /\ fetch'[p].mem = fetch[p].mem
        /\ UNCHANGED <<outbound_pending, network, dropped>>
    BY <1>11, <1>a DEF Save, FetchProcess
  <2>2. fetch[p].back # "idle"
    BY <1>f, <2>1 DEF FetchAhead
  <2> QED
    BY <1>a, <1>h, <1>k, <2>1, <2>2 DEF CopiesBehind
<1>12. CASE NextTag(p)
  <2>1. /\ fetch[p].pc = "drain" /\ fetch'[p].pc = "collect" /\ fetch'[p].back = fetch[p].back
        /\ fetch'[p].mem = fetch[p].mem /\ UNCHANGED <<store, network, history>>
    BY <1>12, <1>a DEF NextTag, FetchProcess
  <2> QED
    BY <1>a, <1>h, <1>k, <2>1 DEF CopiesBehind
<1>13. CASE FetchEnd(p)
  <2>1. /\ fetch[p].pc = "drain" /\ fetch'[p].pc = "idle" /\ fetch'[p].back = "idle"
        /\ UNCHANGED <<store, network, history>>
    BY <1>13, <1>a DEF FetchEnd, IdleFetch
  <2> QED
    BY <1>a, <1>k, <2>1
<1> QED
  BY <1>1, <1>2, <1>3, <1>4, <1>5, <1>6, <1>7, <1>8, <1>9, <1>10, <1>11, <1>12, <1>13 DEF Fetch

\* A killed process drops at most the number it had for a message of its own.
LEMMA KillFillsNumbers ==
    ASSUME Solo, TypeInv, SerialInv, NEW p \in Peer, SendSide(p), HoleFree(p),
           KillFetch(p) \/ KillCommand(p), [Next]_vars
    PROVE  HoleFree(p)'
<1> USE DEF Solo, store, network, counts, history
<1>a. /\ fetch \in [Peer -> FetchProcess] /\ cmd \in [Peer -> CommandProcess]
      /\ dropped \in [Peer -> SUBSET Nat] /\ CommandHolds(p)
      /\ fetch[p].pc = "idle" \/ cmd[p].pc = "idle"
  BY DEF TypeInv, TypeOK, SendSide, SerialInv, Exclusive
<1>h. HoleFree(p)
  OBVIOUS
<1>k. ASSUME UNCHANGED <<contact, outbound_pending>>, dropped[p] \subseteq dropped'[p],
             \A s : cmd[p].pc = "post" /\ cmd[p].msg.seq = s => Carried(p, s)',
             \A s : fetch[p].pc \in {"rpost", "rundo"} /\ fetch[p].rmem.next_send_seq - 1 = s
               => Carried(p, s)',
             CopiesBehind(p)', cmd'[p].pc \in {"post", "mark"} => cmd' = cmd
      PROVE  HoleFree(p)'
  <2>1. ASSUME NEW s \in 1 .. (contact[p].next_send_seq - 1)
        PROVE  Carried(p, s)'
    BY <1>h, <1>k, StillCarried DEF HoleFree
  <2> QED
    BY <1>h, <1>k, <2>1, RelayGrows DEF HoleFree
<1>1. CASE KillFetch(p)
  <2>1. /\ fetch[p].pc # "idle" /\ UNCHANGED <<contact, outbound_pending, network, cmd>>
        /\ fetch'[p].pc = "idle" /\ fetch'[p].back = "idle"
        /\ dropped'[p] = IF fetch[p].pc \in {"rpost", "rundo"}
                         THEN dropped[p] \cup LostWith(ReceiptOf(p)) ELSE dropped[p]
    BY <1>1, <1>a DEF KillFetch, IdleFetch
  <2>2. CopiesBehind(p)'
    BY <1>a, <2>1 DEF CopiesBehind
  <2>3. ASSUME NEW s, fetch[p].pc \in {"rpost", "rundo"}, fetch[p].rmem.next_send_seq - 1 = s
        PROVE  Carried(p, s)'
    <3>1. /\ ReceiptOf(p).from = p /\ ReceiptOf(p).seq = s /\ ReceiptOf(p).kind = "receipt"
      BY <2>3 DEF ReceiptOf, Receipt
    <3>2. CASE ReceiptOf(p) \in relay
      BY <2>1, <3>1, <3>2 DEF Carried
    <3>3. CASE ReceiptOf(p) \notin relay
      BY <2>1, <2>3, <3>1, <3>3 DEF Carried, LostWith
    <3> QED
      BY <3>2, <3>3
  <2> QED
    BY <1>a, <1>k, <2>1, <2>2, <2>3
<1>2. CASE KillCommand(p)
  <2>1. /\ cmd[p].pc # "idle" /\ UNCHANGED <<contact, outbound_pending, network, fetch>>
        /\ cmd'[p].pc = "idle"
        /\ dropped'[p] = IF cmd[p].pc = "post"
                         THEN dropped[p] \cup LostWith(cmd[p].msg) ELSE dropped[p]
    BY <1>2, <1>a DEF KillCommand, IdleCmd
  <2>2. CopiesBehind(p)'
    BY <1>h, <2>1 DEF HoleFree, CopiesBehind
  <2>3. ASSUME NEW s, cmd[p].pc = "post", cmd[p].msg.seq = s
        PROVE  Carried(p, s)'
    <3>1. CASE cmd[p].msg \in outbound_pending[p] \cup relay
      BY <1>h, <2>1, <2>3, <3>1 DEF Carried, HoleFree
    <3>2. CASE cmd[p].msg \notin outbound_pending[p] \cup relay
      BY <1>a, <2>1, <2>3, <3>2 DEF Carried, LostWith, CommandHolds
    <3> QED
      BY <3>1, <3>2
  <2> QED
    BY <1>a, <1>k, <2>1, <2>2, <2>3
<1> QED
  BY <1>1, <1>2

\* What a peer carries is not disturbed by the other one.
LEMMA OthersKeepNumbers ==
    ASSUME Solo, TypeInv, NEW p \in Peer, NEW q \in Peer, q # p, HoleFree(q), [Next]_vars,
           Command(p) \/ Fetch(p) \/ KillFetch(p) \/ KillCommand(p)
    PROVE  HoleFree(q)'
<1>1. /\ contact'[q] = contact[q] /\ outbound_pending'[q] = outbound_pending[q]
      /\ fetch'[q] = fetch[q] /\ cmd'[q] = cmd[q] /\ dropped'[q] = dropped[q]
  BY StepOfOne
<1>2. CopiesBehind(q)'
  BY <1>1 DEF HoleFree, CopiesBehind
<1>3. ASSUME NEW s \in 1 .. (contact[q].next_send_seq - 1)
      PROVE  Carried(q, s)'
  <2>1. Carried(q, s)
    BY DEF HoleFree
  <2>2. cmd[q].pc = "post" /\ cmd[q].msg.seq = s => Carried(q, s)'
    BY <1>1 DEF Carried
  <2>3. fetch[q].pc \in {"rpost", "rundo"} /\ fetch[q].rmem.next_send_seq - 1 = s
          => Carried(q, s)'
    BY <1>1 DEF Carried
  <2> QED
    BY <1>1, <2>1, <2>2, <2>3, StillCarried
<1> QED
  BY <1>1, <1>2, <1>3, RelayGrows DEF HoleFree

LEMMA NextHoles ==
    ASSUME Solo, TypeInv, SerialInv, OrderInv, HoleInv, [Next]_vars
    PROVE  HoleInv'
<1> USE DEF Solo
<1>1. ASSUME NEW p \in Peer, Command(p) \/ Fetch(p) \/ KillFetch(p) \/ KillCommand(p)
      PROVE  HoleInv'
  <2>1. SendSide(p) /\ \A q \in Peer : HoleFree(q)
    BY DEF OrderInv, HoleInv
  <2>2. HoleFree(p)'
    BY <1>1, <2>1, CommandFillsNumbers, FetchFillsNumbers, KillFillsNumbers
  <2>3. \A q \in Peer : q # p => HoleFree(q)'
    BY <1>1, <2>1, OthersKeepNumbers
  <2> QED
    BY <2>2, <2>3 DEF HoleInv
<1>2. CASE Expire \/ UNCHANGED vars
  <2>1. /\ UNCHANGED <<contact, outbound_pending, fetch, cmd, dropped, relay>>
        /\ expired \subseteq expired'
    BY <1>2 DEF Expire, vars, store, network, history
  <2>2. ASSUME NEW p \in Peer, NEW s, Carried(p, s)
        PROVE  Carried(p, s)'
    BY <2>1, <2>2 DEF Carried
  <2> QED
    BY <2>1, <2>2 DEF HoleInv, HoleFree, CopiesBehind
<1> QED
  BY <1>1, <1>2 DEF Next

LEMMA InitHoles ==
    ASSUME Solo
    PROVE  Init => HoleInv
<1> SUFFICES ASSUME Init, NEW p \in Peer
             PROVE  HoleFree(p)
  BY DEF HoleInv
<1>1. contact[p] = FreshContact /\ fetch[p] = IdleFetch /\ cmd[p] = IdleCmd
  BY DEF Init, Solo
<1> QED
  BY <1>1 DEF HoleFree, CopiesBehind, FreshContact, IdleFetch, IdleCmd

\* For peers that run one process at a time, whatever is refused, killed, lost or
\* expires: the number the other side waits for, if it was taken, is that of a
\* message on a relay, retained for resend or being posted, unless the message
\* expired, was a presence the relays refused, or its process was killed.  A
\* pending row goes only when a relay has its text, a stale save of the contact
\* gives numbers back but takes none, and a receipt gives back the last one.
THEOREM NoNumberIsLost == ASSUME Solo PROVE Spec => []NoSequenceHole
<1>1. Init => TypeInv /\ SerialInv /\ OrderInv /\ HoleInv
  BY InitTypeInv, InitOrder, InitHoles
     DEF Init, Solo, SerialInv, Exclusive, CommandCurrent, ReceiptCurrent, FetchAhead,
         IdleFetch, IdleCmd
<1>2. TypeInv /\ SerialInv /\ OrderInv /\ HoleInv /\ [Next]_vars =>
        (TypeInv /\ SerialInv /\ OrderInv /\ HoleInv)'
  BY NextTypeInv, NextSerial, NextOrder, NextHoles
<1>3. TypeInv /\ HoleInv => NoSequenceHole
  <2> SUFFICES ASSUME TypeInv, HoleInv, NEW p \in Peer,
                      contact[p].next_send_seq > contact[Other(p)].last_recv_seq + 1
               PROVE  Accounted(p, contact[Other(p)].last_recv_seq + 1)
    BY DEF NoSequenceHole
  <2>1. contact[p].next_send_seq \in Nat /\ contact[Other(p)].last_recv_seq \in Nat
    BY PeerFacts DEF TypeInv, TypeOK, Contact
  <2>2. Carried(p, contact[Other(p)].last_recv_seq + 1) /\ HoleFree(p)
    BY <2>1 DEF HoleInv, HoleFree
  <2> QED
    BY <2>1, <2>2, CarriedAccounted
<1> QED
  BY <1>1, <1>2, <1>3, PTL DEF Spec

-----------------------------------------------------------------------------
(* One process at a time, receipts answered or refused, and flushed by a      *)
(* command of their own: the counters of the two peers never part             *)

\* No fetch begins with queued receipts; `yakr receipts flush` sent them before.
FlushedApart == \A x \in Terminal : fetch[x].back # "idle" => fetch[x].todo = {}

\* No receipt is stored by a relay whose answer is lost.
ReceiptsAnswered == ReceiptPosts \subseteq {"ok", "fail"}

\* The messages of p that have a sequence number for good.
Used(p) ==
    {m \in relay : m.from = p} \cup outbound_pending[p]
      \cup (IF cmd[p].pc \in {"post", "mark"} THEN {cmd[p].msg} ELSE {})

\* The first number of p that is not used: a receipt that is being posted may
\* give its number back.
Top(p) == IF fetch[p].pc \in {"rpost", "rundo"} THEN contact[p].next_send_seq - 1
          ELSE contact[p].next_send_seq

\* No copy of the contact that will be stored counts differently from the stored one.
SameCount(p) ==
    /\ cmd[p].pc # "idle" => cmd[p].mem.next_send_seq = contact[p].next_send_seq
    /\ fetch[p].pc \in {"flush", "collect", "drain", "save"} /\ fetch[p].back # "idle" =>
         fetch[p].mem.next_send_seq = contact[p].next_send_seq
    /\ fetch[p].pc \in {"rsave", "rpost", "rundo"} =>
         fetch[p].rmem.next_send_seq = contact[p].next_send_seq
    /\ fetch[p].pc \in Receipting => fetch[p].back # "collect"

OwnNumbers(p) ==
    /\ \A m \in Used(p) : m.from = p /\ m.seq < Top(p)
    /\ \A m, x \in Used(p) : m.seq = x.seq => m = x

\* The receiver consumed only numbers that its peer has used.
ReadsSent(p) ==
    /\ contact[p].last_recv_seq < Top(Other(p))
    /\ fetch[p].back # "idle" => fetch[p].mem.last_recv_seq < Top(Other(p))

NumberInv == \A p \in Peer : SameCount(p) /\ OwnNumbers(p) /\ ReadsSent(p)

\* A step of p uses no number, or the next one for one message.
Counts(p) ==
    \/ Top(p)' >= Top(p) /\ Used(p)' \subseteq Used(p)
    \/ /\ Top(p)' = Top(p) + 1
       /\ \E b \in Used(p)' : /\ b.from = p /\ b.seq = Top(p)
                              /\ Used(p)' \subseteq Used(p) \cup {b}

\* The numbers are numbers.
LEMMA NumberTypes ==
    ASSUME TypeInv, Solo, NEW p \in Peer
    PROVE  /\ Used(p) \subseteq Blob /\ \A m \in Used(p) : m.seq \in Nat
           /\ Top(p) \in Nat
           /\ contact[p].next_send_seq \in Nat \ {0} /\ contact[p].last_recv_seq \in Nat
           /\ fetch[p].mem.next_send_seq \in Nat /\ fetch[p].mem.last_recv_seq \in Nat
           /\ fetch[p].rmem.next_send_seq \in Nat
<1> USE DEF Solo
<1>1. /\ outbound_pending[p] \subseteq Blob /\ relay \subseteq Blob /\ cmd[p].msg \in Blob
  BY DEF TypeInv, TypeOK, CommandProcess
<1>2. Used(p) \subseteq Blob
  BY <1>1 DEF Used
<1>3. contact[p] \in Contact /\ fetch[p].mem \in Contact /\ fetch[p].rmem \in Contact
  BY FetchFields
<1>4. contact[p].next_send_seq \in Nat \ {0}
  BY <1>3 DEF Contact
<1>5. Top(p) \in Nat
  BY <1>4 DEF Top
<1> QED
  BY <1>2, <1>3, <1>4, <1>5 DEF Blob, Contact

\* And after a step as well.
LEMMA NextCounters ==
    ASSUME TypeInv', Solo, NEW p \in Peer
    PROVE  Top(p)' \in Nat
<1>1. contact'[p].next_send_seq \in Nat \ {0}
  BY DEF TypeInv, TypeOK, Contact
<1> QED
  BY <1>1 DEF Top

\* What a command's step does to its sender's numbers.
LEMMA CommandNumbers ==
    ASSUME Solo, TypeInv, SerialInv, NEW p \in Peer, SendSide(p), SameCount(p),
           OwnNumbers(p), Command(p)
    PROVE  /\ Counts(p) /\ SameCount(p)'
           /\ \A m \in relay' \ relay : m.from = p
<1> USE DEF Solo, store, network, counts, history
<1>a. /\ contact \in [Peer -> Contact] /\ cmd \in [Peer -> CommandProcess]
      /\ outbound_pending \in [Peer -> SUBSET Blob]
      /\ cmd[p] \in CommandProcess /\ cmd[p].mem \in Contact
      /\ contact[p].next_send_seq \in Nat
  BY DEF TypeInv, TypeOK, CommandProcess, Contact
<1>b. Taken(cmd[p].mem).next_send_seq = cmd[p].mem.next_send_seq + 1
  BY <1>a, CounterTypes
<1>c. CommandHolds(p)
  BY DEF SendSide
<1>f. fetch' = fetch /\ fetch[p].pc = "idle"
  BY SerialCommand
<1>t. Top(p) = contact[p].next_send_seq /\ Top(p)' = contact'[p].next_send_seq
  BY <1>f DEF Top
<1>n. /\ \A m : m \in Used(p) <=>
             \/ m \in relay /\ m.from = p
             \/ m \in outbound_pending[p]
             \/ cmd[p].pc \in {"post", "mark"} /\ m = cmd[p].msg
      /\ \A m : m \in Used(p)' <=>
             \/ m \in relay' /\ m.from = p
             \/ m \in outbound_pending'[p]
             \/ cmd'[p].pc \in {"post", "mark"} /\ m = cmd'[p].msg
  BY DEF Used
<1>s. cmd[p].pc # "idle" => cmd[p].mem.next_send_seq = contact[p].next_send_seq
  BY DEF SameCount
<1>o. \A m \in Used(p) : m.from = p
  BY DEF OwnNumbers
\* No number is taken.
<1>k. ASSUME contact'[p].next_send_seq = contact[p].next_send_seq,
             Used(p)' \subseteq Used(p),
             cmd'[p].pc # "idle" => cmd'[p].mem.next_send_seq = contact[p].next_send_seq,
             \A m \in relay' \ relay : m \in Used(p)
      PROVE  /\ Counts(p) /\ SameCount(p)'
             /\ \A m \in relay' \ relay : m.from = p
  BY <1>a, <1>f, <1>k, <1>o, <1>t DEF Counts, SameCount, Receipting
\* The next one is taken for b.
<1>l. ASSUME NEW b \in Used(p)', b.from = p, b.seq = contact[p].next_send_seq,
             Used(p)' \subseteq Used(p) \cup {b}, relay' = relay,
             contact'[p].next_send_seq = contact[p].next_send_seq + 1,
             cmd'[p].mem.next_send_seq = contact'[p].next_send_seq
      PROVE  /\ Counts(p) /\ SameCount(p)'
             /\ \A m \in relay' \ relay : m.from = p
  BY <1>f, <1>l, <1>t DEF Counts, SameCount, Receipting
<1>1. CASE SendLoad(p) \/ PushLoad(p)
  <2>1. /\ cmd[p].pc = "idle" /\ UNCHANGED <<store, network>>
        /\ cmd'[p].pc \in {"send", "push"} /\ cmd'[p].mem = contact[p]
    BY <1>1, <1>a DEF SendLoad, PushLoad, Free, CommandProcess
  <2>2. Used(p)' \subseteq Used(p)
    BY <1>n, <2>1
  <2> QED
    BY <1>k, <2>1, <2>2
<1>2. CASE ResendLoad(p)
  <2>1. /\ cmd[p].pc = "idle" /\ UNCHANGED <<store, network>>
        /\ cmd'[p].pc = "resend" /\ cmd'[p].mem = contact[p]
    BY <1>2, <1>a DEF ResendLoad, Free, IdleCmd, Pending
  <2>2. Used(p)' \subseteq Used(p)
    BY <1>n, <2>1
  <2> QED
    BY <1>k, <2>1, <2>2
<1>3. CASE SendCommit(p)
  <2> DEFINE t == Text(p, cmd[p].mem.next_send_seq, texts[p] + 1)
  <2>1. /\ cmd[p].pc = "send" /\ cmd'[p].pc = "post" /\ cmd'[p].msg = t
        /\ cmd'[p].mem = Taken(cmd[p].mem) /\ contact'[p] = Taken(cmd[p].mem)
        /\ outbound_pending'[p] = outbound_pending[p] \cup {t}
        /\ UNCHANGED network
    BY <1>3, <1>a DEF SendCommit, CommandProcess
  <2>2. t.from = p /\ t.seq = contact[p].next_send_seq
    BY <1>s, <2>1 DEF Text
  <2> HIDE DEF t
  <2>3. t \in Used(p)' /\ Used(p)' \subseteq Used(p) \cup {t}
    BY <1>n, <2>1
  <2> QED
    BY <1>b, <1>l, <1>s, <2>1, <2>2, <2>3
<1>4. CASE PushCommit(p)
  <2> DEFINE t == Aux(p, cmd[p].mem.next_send_seq)
  <2>1. /\ cmd[p].pc = "push" /\ cmd'[p].pc = "post" /\ cmd'[p].msg = t
        /\ cmd'[p].mem = Taken(cmd[p].mem) /\ contact'[p] = Taken(cmd[p].mem)
        /\ UNCHANGED <<outbound_pending, network>>
    BY <1>4, <1>a DEF PushCommit, CommandProcess
  <2>2. t.from = p /\ t.seq = contact[p].next_send_seq
    BY <1>s, <2>1 DEF Aux
  <2> HIDE DEF t
  <2>3. t \in Used(p)' /\ Used(p)' \subseteq Used(p) \cup {t}
    BY <1>n, <2>1
  <2> QED
    BY <1>b, <1>l, <1>s, <2>1, <2>2, <2>3
<1>5. CASE CommandRefresh(p)
  <2>1. /\ cmd[p].pc = "post" /\ cmd' = cmd /\ contact'[p] = cmd[p].mem
        /\ UNCHANGED <<outbound_pending, network>>
    BY <1>5, <1>a DEF CommandRefresh
  <2>2. Used(p)' \subseteq Used(p)
    BY <1>n, <2>1
  <2> QED
    BY <1>k, <1>s, <2>1, <2>2
<1>6. CASE CommandPost(p)
  <2>p. PICK o \in CommandPosts : \E c \in AfterPost(p, o) :
          /\ relay' = IF o = "fail" THEN relay ELSE relay \cup {cmd[p].msg}
          /\ cmd' = [cmd EXCEPT ![p] = c]
    BY <1>6 DEF CommandPost
  <2>o. PICK c \in AfterPost(p, o) : cmd' = [cmd EXCEPT ![p] = c]
    BY <2>p
  <2>1. cmd[p].pc = "post" /\ cmd'[p] = c /\ UNCHANGED <<store, expired>>
    BY <1>6, <1>a, <2>o DEF CommandPost
  <2>2. \/ c = IdleCmd
        \/ /\ c.pc = AfterResend(o) /\ c.mem = cmd[p].mem /\ c.msg = cmd[p].msg
        \/ /\ c.pc = "push" /\ c.mem = cmd[p].mem
    <3>1. /\ [cmd[p] EXCEPT !.pc = AfterResend(o)].mem = cmd[p].mem
          /\ [cmd[p] EXCEPT !.pc = AfterResend(o)].msg = cmd[p].msg
          /\ [cmd[p] EXCEPT !.pc = AfterResend(o)].pc = AfterResend(o)
      BY <1>a DEF CommandProcess
    <3>2. /\ [cmd[p] EXCEPT !.pc = "push", !.msg = NoBlob].mem = cmd[p].mem
          /\ [cmd[p] EXCEPT !.pc = "push", !.msg = NoBlob].pc = "push"
      BY <1>a DEF CommandProcess
    <3>3. CASE cmd[p].again
      BY <3>1, <3>3 DEF AfterPost
    <3>4. CASE ~cmd[p].again
      BY <3>2, <3>4 DEF AfterPost
    <3> QED
      BY <3>3, <3>4
  <2>3. cmd[p].msg \in Used(p)
    BY <1>n, <2>1
  <2>4. AfterResend(o) = IF o = "ok" THEN "mark" ELSE "resend"
    BY DEF AfterResend
  <2>5. IdleCmd.pc = "idle"
    BY DEF IdleCmd
  <2>6. Used(p)' \subseteq Used(p)
    BY <1>n, <2>p, <2>1, <2>2, <2>3, <2>4, <2>5
  <2>7. cmd'[p].pc # "idle" => cmd'[p].mem = cmd[p].mem
    BY <2>1, <2>2, <2>5
  <2> QED
    BY <1>k, <1>s, <2>p, <2>1, <2>3, <2>6, <2>7
<1>7. CASE ResendNext(p)
  <2>1. PICK m \in outbound_pending[p] :
          cmd' = [cmd EXCEPT ![p].pc = "post", ![p].msg = m, ![p].todo = @ \ {m}]
    BY <1>7 DEF ResendNext, HasOuter
  <2>2. /\ cmd[p].pc = "resend" /\ UNCHANGED <<store, network>>
        /\ cmd'[p].pc = "post" /\ cmd'[p].msg = m /\ cmd'[p].mem = cmd[p].mem
    BY <1>7, <1>a, <2>1 DEF ResendNext, CommandProcess, HasOuter
  <2>3. Used(p)' \subseteq Used(p)
    BY <1>n, <2>2
  <2> QED
    BY <1>k, <1>s, <2>2, <2>3
<1>8. CASE ResendAnew(p)
  <2>1. cmd[p].todo \ outbound_pending[p] # {}
    BY <1>8 DEF ResendAnew, HasOuter
  <2> QED
    BY <1>c, <2>1 DEF CommandHolds
<1>9. CASE ResendMark(p)
  <2>1. /\ cmd[p].pc = "mark" /\ UNCHANGED <<contact, network>>
        /\ outbound_pending'[p] = outbound_pending[p] \ {cmd[p].msg}
        /\ cmd'[p].pc = "resend" /\ cmd'[p].mem = cmd[p].mem
    BY <1>9, <1>a DEF ResendMark, CommandProcess
  <2>2. Used(p)' \subseteq Used(p)
    BY <1>n, <2>1
  <2> QED
    BY <1>k, <1>s, <2>1, <2>2
<1>10. CASE ResendEnd(p)
  <2>1. /\ UNCHANGED <<store, network>> /\ cmd'[p].pc = "idle" /\ cmd[p].pc = "resend"
    BY <1>10, <1>a DEF ResendEnd, IdleCmd
  <2>2. Used(p)' \subseteq Used(p)
    BY <1>n, <2>1
  <2> QED
    BY <1>k, <2>1, <2>2
<1>11. CASE CommandFailover(p)
  <2>1. /\ cmd[p].pc = "post" /\ UNCHANGED <<store, expired, cmd>>
        /\ relay' = relay \cup {cmd[p].msg}
    BY <1>11 DEF CommandFailover
  <2>2. cmd[p].msg \in Used(p)
    BY <1>n, <2>1
  <2>3. Used(p)' \subseteq Used(p)
    BY <1>n, <2>1, <2>2
  <2> QED
    BY <1>k, <1>s, <2>1, <2>2, <2>3
<1> QED
  BY <1>1, <1>2, <1>3, <1>4, <1>5, <1>6, <1>7, <1>8, <1>9, <1>10, <1>11 DEF Command

\* What a step of the fetch of p does to the numbers of p.
FetchCounts(p) == Counts(p) /\ SameCount(p)' /\ \A m \in relay' \ relay : m.from = p

LEMMA ReceiptNumbers ==
    ASSUME Solo, ReceiptsAnswered, TypeInv, NEW p \in Peer, SameCount(p),
           cmd' = cmd, cmd[p].pc = "idle", SendReceipt(p)
    PROVE  FetchCounts(p)
<1> USE DEF Solo, store, network, counts, history
<1>a. /\ contact \in [Peer -> Contact] /\ fetch \in [Peer -> FetchProcess]
      /\ fetch[p] \in FetchProcess /\ fetch[p].rmem \in Contact /\ contact[p] \in Contact
      /\ fetch[p].rmem.next_send_seq \in Nat /\ contact[p].next_send_seq \in Nat
  BY DEF TypeInv, TypeOK, FetchProcess, Contact
<1>b. /\ Taken(fetch[p].rmem).next_send_seq = fetch[p].rmem.next_send_seq + 1
      /\ Untaken(fetch[p].rmem).next_send_seq = fetch[p].rmem.next_send_seq - 1
  BY <1>a DEF Taken, Untaken, Contact
<1>n. /\ \A m : m \in Used(p) <=> (m \in relay /\ m.from = p) \/ m \in outbound_pending[p]
      /\ \A m : m \in Used(p)' <=> (m \in relay' /\ m.from = p) \/ m \in outbound_pending'[p]
  BY DEF Used
<1>r. fetch[p].pc \in Receipting => fetch[p].back # "collect"
  BY DEF SameCount
\* Nothing is used by a step that posts nothing.
<1>q. ASSUME UNCHANGED <<outbound_pending, network>>, Top(p)' = Top(p), SameCount(p)'
      PROVE  FetchCounts(p)
  <2>1. Used(p)' \subseteq Used(p)
    BY <1>n, <1>q
  <2>2. Top(p) \in Nat \/ Top(p) = contact[p].next_send_seq - 1
    BY <1>a DEF Top
  <2>3. Top(p)' >= Top(p)
    BY <1>a, <1>q, <2>2
  <2> QED
    BY <1>q, <2>1, <2>3 DEF FetchCounts, Counts
<1>1. CASE ReceiptLoad(p)
  <2>1. /\ fetch[p].pc = "rload"
        /\ fetch'[p] = [fetch[p] EXCEPT !.pc = "rsave", !.rmem = contact[p]]
        /\ UNCHANGED <<store, network>>
    BY <1>1, <1>a DEF ReceiptLoad
  <2>2. /\ fetch'[p].pc = "rsave" /\ fetch'[p].rmem = contact[p]
        /\ fetch'[p].back = fetch[p].back
    BY <2>1, <1>a DEF FetchProcess
  <2>3. Top(p)' = Top(p) /\ SameCount(p)'
    BY <1>r, <2>1, <2>2 DEF Top, SameCount, Receipting
  <2> QED
    BY <1>q, <2>1, <2>3
<1>2. CASE ReceiptSave(p)
  <2>1. /\ fetch[p].pc = "rsave"
        /\ fetch'[p] = [fetch[p] EXCEPT !.pc = "rpost", !.rmem = Taken(fetch[p].rmem)]
        /\ contact'[p] = Taken(fetch[p].rmem)
        /\ UNCHANGED <<outbound_pending, network>>
    BY <1>2, <1>a DEF ReceiptSave
  <2>2. /\ fetch'[p].pc = "rpost" /\ fetch'[p].rmem = Taken(fetch[p].rmem)
        /\ fetch'[p].back = fetch[p].back
    BY <2>1, <1>a DEF FetchProcess
  <2>3. fetch[p].rmem.next_send_seq = contact[p].next_send_seq
    BY <2>1 DEF SameCount
  <2>4. Top(p)' = Top(p)
    BY <1>a, <1>b, <2>1, <2>2, <2>3 DEF Top
  <2>5. SameCount(p)'
    BY <1>r, <2>1, <2>2 DEF SameCount, Receipting
  <2> QED
    BY <1>q, <2>1, <2>4, <2>5
<1>3. CASE ReceiptRefresh(p)
  <2>1. /\ fetch[p].pc = "rpost" /\ fetch' = fetch /\ contact'[p] = fetch[p].rmem
        /\ UNCHANGED <<outbound_pending, network>>
    BY <1>3, <1>a DEF ReceiptRefresh
  <2>2. fetch[p].rmem.next_send_seq = contact[p].next_send_seq
    BY <2>1 DEF SameCount
  <2>3. Top(p)' = Top(p) /\ SameCount(p)'
    BY <1>r, <2>1, <2>2 DEF Top, SameCount, Receipting
  <2> QED
    BY <1>q, <2>1, <2>3
<1>4. CASE ReceiptPost(p)
  <2>1. PICK o \in {"ok", "fail"} :
          /\ relay' = IF o = "fail" THEN relay ELSE relay \cup {ReceiptOf(p)}
          /\ fetch' = [fetch EXCEPT ![p].pc = AfterReceiptPost(o)]
    BY <1>4 DEF ReceiptPost, ReceiptsAnswered
  <2>2. fetch[p].pc = "rpost" /\ UNCHANGED store
    BY <1>4 DEF ReceiptPost
  <2>3. /\ fetch'[p].pc = IF o = "ok" THEN "rdone" ELSE "rundo"
        /\ fetch'[p].rmem = fetch[p].rmem /\ fetch'[p].back = fetch[p].back
    BY <2>1, <1>a DEF FetchProcess, AfterReceiptPost
  <2>4. fetch[p].rmem.next_send_seq = contact[p].next_send_seq
    BY <2>2 DEF SameCount
  <2>5. SameCount(p)'
    BY <1>r, <2>2, <2>3, <2>4 DEF SameCount, Receipting
  <2>6. ReceiptOf(p).from = p /\ ReceiptOf(p).seq = Top(p)
    BY <2>2, <2>4 DEF ReceiptOf, Receipt, Top
  <2>7. CASE o = "fail"
    <3>1. Used(p)' \subseteq Used(p) /\ relay' = relay
      BY <1>n, <2>1, <2>2, <2>7
    <3>2. Top(p)' >= Top(p)
      BY <1>a, <2>2, <2>3, <2>7 DEF Top
    <3> QED
      BY <2>5, <3>1, <3>2 DEF FetchCounts, Counts
  <2>8. CASE o = "ok"
    <3>1. relay' = relay \cup {ReceiptOf(p)}
      BY <2>1, <2>8
    <3>2. /\ ReceiptOf(p) \in Used(p)'
          /\ Used(p)' \subseteq Used(p) \cup {ReceiptOf(p)}
      BY <1>n, <2>2, <2>6, <3>1
    <3>3. Top(p)' = Top(p) + 1
      BY <1>a, <2>2, <2>3, <2>8 DEF Top
    <3> QED
      BY <2>5, <2>6, <3>1, <3>2, <3>3 DEF FetchCounts, Counts
  <2> QED
    BY <2>7, <2>8
<1>5. CASE ReceiptDone(p) \/ ReceiptQueue(p)
  <2>1. /\ fetch[p].pc \in {"rdone", "rqueue"} /\ fetch'[p] = Returned(fetch[p])
        /\ UNCHANGED <<contact, outbound_pending, network>>
    BY <1>5, <1>a DEF ReceiptDone, ReceiptQueue
  <2>2. fetch[p].back \in {"idle", "merge"}
    BY <1>a, <1>r, <2>1 DEF Receipting, FetchProcess
  <2>3. /\ fetch'[p].back = fetch[p].back
        /\ fetch'[p].pc = IF fetch[p].back = "merge" THEN "merge" ELSE "flush"
    BY <2>1, <1>a DEF Returned, FetchProcess
  <2>4. Top(p)' = Top(p)
    BY <2>1, <2>3 DEF Top
  <2>5. SameCount(p)'
    BY <2>2, <2>3 DEF SameCount, Receipting
  <2> QED
    BY <1>q, <2>1, <2>4, <2>5
<1>6. CASE ReceiptUndo(p)
  <2>1. /\ fetch[p].pc = "rundo" /\ contact'[p] = Untaken(fetch[p].rmem)
        /\ fetch'[p] = [fetch[p] EXCEPT !.pc = "rqueue"]
        /\ UNCHANGED <<outbound_pending, network>>
    BY <1>6, <1>a DEF ReceiptUndo
  <2>2. fetch'[p].pc = "rqueue" /\ fetch'[p].back = fetch[p].back
    BY <2>1, <1>a DEF FetchProcess
  <2>3. fetch[p].rmem.next_send_seq = contact[p].next_send_seq
    BY <2>1 DEF SameCount
  <2>4. Top(p)' = Top(p)
    BY <1>b, <2>1, <2>2, <2>3 DEF Top
  <2>5. SameCount(p)'
    BY <1>r, <2>1, <2>2 DEF SameCount, Receipting
  <2> QED
    BY <1>q, <2>1, <2>4, <2>5
<1>7. ~ ReceiptFailover(p)
  BY DEF ReceiptFailover, ReceiptsAnswered
<1> QED
  BY <1>1, <1>2, <1>3, <1>4, <1>5, <1>6, <1>7 DEF SendReceipt

LEMMA FetchNumbers ==
    ASSUME Solo, ReceiptsAnswered, FlushedApart, TypeInv, SerialInv, NEW p \in Peer,
           SameCount(p), Fetch(p)
    PROVE  FetchCounts(p)
<1> USE DEF Solo, store, network, counts, history
<1> DEFINE Apart == {"idle", "flush", "collect", "drain", "merge", "save"}
<1>a. /\ contact \in [Peer -> Contact] /\ fetch \in [Peer -> FetchProcess]
      /\ fetch[p] \in FetchProcess /\ fetch[p].mem \in Contact /\ contact[p] \in Contact
      /\ outbound_pending \in [Peer -> SUBSET Blob] /\ contact[p].next_send_seq \in Nat
  BY DEF TypeInv, TypeOK, FetchProcess, Contact
<1>b. Accepted(fetch[p].mem).next_send_seq = fetch[p].mem.next_send_seq
  BY <1>a DEF Accepted, Contact
<1>c. cmd' = cmd /\ cmd[p].pc = "idle"
  BY SerialFetch
<1>d. fetch[p].pc \in {"collect", "drain", "merge", "save"} => fetch[p].back # "idle"
  BY DEF SerialInv, FetchAhead
<1>n. /\ \A m : m \in Used(p) <=> (m \in relay /\ m.from = p) \/ m \in outbound_pending[p]
      /\ \A m : m \in Used(p)' <=> (m \in relay' /\ m.from = p) \/ m \in outbound_pending'[p]
  BY <1>c DEF Used
\* A step between receipts that stores no other count, and may clear rows.
<1>q. ASSUME contact'[p].next_send_seq = contact[p].next_send_seq,
             relay' = relay, outbound_pending'[p] \subseteq outbound_pending[p],
             fetch[p].pc \in Apart,
             \/ fetch'[p].pc \in Apart
             \/ fetch'[p].pc = "rload" /\ fetch'[p].back # "collect",
             fetch'[p].pc \in {"flush", "collect", "drain", "save"} /\ fetch'[p].back # "idle" =>
               fetch'[p].mem.next_send_seq = contact[p].next_send_seq
      PROVE  FetchCounts(p)
  <2>1. Used(p)' \subseteq Used(p)
    BY <1>n, <1>q
  <2>2. Top(p) = contact[p].next_send_seq /\ Top(p)' = contact'[p].next_send_seq
    BY <1>q DEF Top, Receipting
  <2>3. SameCount(p)'
    BY <1>c, <1>q DEF SameCount, Receipting
  <2> QED
    BY <1>a, <1>q, <2>1, <2>2, <2>3 DEF FetchCounts, Counts
<1>1. CASE FetchBegin(p)
  <2>1. /\ fetch[p].pc = "idle" /\ UNCHANGED <<contact, relay>>
        /\ outbound_pending'[p] = outbound_pending[p] \ expired
        /\ fetch'[p].pc = "flush" /\ fetch'[p].mem = contact[p]
    BY <1>1, <1>a DEF FetchBegin, Free, IdleFetch, Pending, Queued
  <2> QED
    BY <1>q, <2>1
<1>2. CASE FlushCommand(p)
  <2>1. /\ fetch[p].pc = "idle" /\ UNCHANGED <<contact, relay, outbound_pending>>
        /\ fetch'[p].pc = "flush" /\ fetch'[p].back = "idle"
    BY <1>2, <1>a DEF FlushCommand, Free, IdleFetch, Queued
  <2> QED
    BY <1>q, <2>1
<1>3. CASE FlushNext(p)
  <2>1. PICK d \in fetch[p].todo :
          fetch' = [fetch EXCEPT ![p].pc = "rload", ![p].rid = d, ![p].todo = @ \ {d}]
    BY <1>3 DEF FlushNext
  <2>2. /\ fetch[p].pc = "flush" /\ UNCHANGED <<contact, relay, outbound_pending>>
        /\ fetch'[p].pc = "rload" /\ fetch'[p].back = fetch[p].back
    BY <1>3, <1>a, <2>1 DEF FlushNext, FetchProcess
  <2>3. fetch[p].back = "idle"
    BY <2>1 DEF FlushedApart
  <2> QED
    BY <1>q, <2>2, <2>3
<1>4. CASE FlushEnd(p)
  <2>1. /\ UNCHANGED <<contact, relay, outbound_pending>> /\ fetch[p].pc = "flush"
        /\ fetch'[p] = IF fetch[p].back = "idle" THEN IdleFetch
                       ELSE [fetch[p] EXCEPT !.pc = "collect"]
    BY <1>4, <1>a DEF FlushEnd
  <2>2. \/ fetch'[p].pc = "idle"
        \/ /\ fetch'[p].pc = "collect" /\ fetch'[p].mem = fetch[p].mem
           /\ fetch'[p].back = fetch[p].back
    BY <2>1, <1>a DEF FetchProcess, IdleFetch
  <2> QED
    BY <1>q, <2>1, <2>2 DEF SameCount
<1>5. CASE SendReceipt(p)
  BY <1>c, <1>5, ReceiptNumbers
<1>6. CASE Collect(p)
  <2>1. PICK q : fetch' = [fetch EXCEPT ![p].pc = "drain", ![p].queue = q]
    BY <1>6 DEF Collect
  <2>2. /\ fetch'[p].pc = "drain" /\ fetch'[p].mem = fetch[p].mem
        /\ fetch'[p].back = fetch[p].back
    BY <2>1, <1>a DEF FetchProcess
  <2>3. fetch[p].pc = "collect" /\ UNCHANGED <<store, network>>
    BY <1>6 DEF Collect
  <2> QED
    BY <1>q, <2>2, <2>3 DEF SameCount
<1>7. CASE AcceptText(p)
  <2>1. PICK m : /\ contact' = [contact EXCEPT ![p] = Accepted(fetch[p].mem)]
                 /\ fetch' = [fetch EXCEPT ![p].pc = "rload", ![p].rid = m.id,
                                ![p].back = "merge", ![p].mem = Accepted(fetch[p].mem),
                                ![p].queue = @ \ {m}]
    BY <1>7 DEF AcceptText
  <2>2. /\ fetch'[p].pc = "rload" /\ fetch'[p].back = "merge"
        /\ contact'[p] = Accepted(fetch[p].mem)
    BY <2>1, <1>a DEF FetchProcess
  <2>3. fetch[p].pc = "drain" /\ UNCHANGED <<outbound_pending, network>>
    BY <1>7 DEF AcceptText
  <2>4. fetch[p].mem.next_send_seq = contact[p].next_send_seq
    BY <1>d, <2>3 DEF SameCount
  <2> QED
    BY <1>b, <1>q, <2>2, <2>3, <2>4
<1>8. CASE AcceptReceipt(p)
  <2>1. PICK m \in Acceptable(p) :
          /\ outbound_pending' = [outbound_pending EXCEPT ![p] = {t \in @ : t.id # m.id}]
          /\ fetch' = [fetch EXCEPT ![p].pc = "save", ![p].mem = Accepted(fetch[p].mem),
                                    ![p].queue = @ \ {m}]
    BY <1>8 DEF AcceptReceipt
  <2>2. fetch'[p].pc = "save" /\ fetch'[p].mem = Accepted(fetch[p].mem)
    BY <2>1, <1>a DEF FetchProcess
  <2>3. /\ fetch[p].pc = "drain" /\ UNCHANGED <<contact, network>>
        /\ outbound_pending'[p] = {t \in outbound_pending[p] : t.id # m.id}
    BY <1>8, <1>a, <2>1 DEF AcceptReceipt
  <2>4. fetch[p].mem.next_send_seq = contact[p].next_send_seq
    BY <1>d, <2>3 DEF SameCount
  <2> QED
    BY <1>b, <1>q, <2>2, <2>3, <2>4
<1>9. CASE AcceptAux(p)
  <2>1. PICK m \in Acceptable(p), pc \in {"save", "drain"} :
          fetch' = [fetch EXCEPT ![p].pc = pc, ![p].mem = Accepted(fetch[p].mem),
                                 ![p].queue = @ \ {m}]
    BY <1>9 DEF AcceptAux
  <2>2. fetch'[p].pc \in {"save", "drain"} /\ fetch'[p].mem = Accepted(fetch[p].mem)
    BY <2>1, <1>a DEF FetchProcess
  <2>3. fetch[p].pc = "drain" /\ UNCHANGED <<store, network>>
    BY <1>9 DEF AcceptAux
  <2>4. fetch[p].mem.next_send_seq = contact[p].next_send_seq
    BY <1>d, <2>3 DEF SameCount
  <2> QED
    BY <1>b, <1>q, <2>2, <2>3, <2>4
<1>10. CASE Merge(p)
  <2>1. /\ fetch[p].pc = "merge" /\ fetch'[p].pc = "save"
        /\ fetch'[p].mem.next_send_seq = contact[p].next_send_seq
        /\ UNCHANGED <<store, network>>
    BY <1>10, <1>a DEF Merge, FetchProcess, Contact
  <2> QED
    BY <1>q, <2>1
<1>11. CASE Save(p)
  <2>1. /\ fetch[p].pc = "save" /\ contact'[p] = fetch[p].mem
        /\ fetch'[p].pc = "drain" /\ fetch'[p].mem = fetch[p].mem
        /\ UNCHANGED <<outbound_pending, network>>
    BY <1>11, <1>a DEF Save, FetchProcess
  <2>2. fetch[p].mem.next_send_seq = contact[p].next_send_seq
    BY <1>d, <2>1 DEF SameCount
  <2> QED
    BY <1>q, <2>1, <2>2
<1>12. CASE NextTag(p)
  <2>1. /\ fetch[p].pc = "drain" /\ fetch'[p].pc = "collect"
        /\ fetch'[p].mem = fetch[p].mem /\ UNCHANGED <<store, network>>
    BY <1>12, <1>a DEF NextTag, FetchProcess
  <2>2. fetch[p].mem.next_send_seq = contact[p].next_send_seq
    BY <1>d, <2>1 DEF SameCount
  <2> QED
    BY <1>q, <2>1, <2>2
<1>13. CASE FetchEnd(p)
  <2>1. fetch[p].pc = "drain" /\ fetch'[p].pc = "idle" /\ UNCHANGED <<store, network>>
    BY <1>13, <1>a DEF FetchEnd, IdleFetch
  <2> QED
    BY <1>q, <2>1
<1> QED
  BY <1>1, <1>2, <1>3, <1>4, <1>5, <1>6, <1>7, <1>8, <1>9, <1>10, <1>11, <1>12, <1>13 DEF Fetch

\* A kill uses no number: that of a receipt that was being posted is left out.
LEMMA KillNumbers ==
    ASSUME Solo, TypeInv, SerialInv, NEW p \in Peer, SameCount(p), KillFetch(p) \/ KillCommand(p)
    PROVE  FetchCounts(p)
<1> USE DEF Solo, store, network, counts, history
<1>a. /\ fetch \in [Peer -> FetchProcess] /\ cmd \in [Peer -> CommandProcess]
      /\ contact[p].next_send_seq \in Nat
  BY DEF TypeInv, TypeOK, Contact
<1>1. UNCHANGED <<store, network>>
  BY DEF KillFetch, KillCommand
<1>2. /\ fetch'[p] = fetch[p] \/ fetch'[p] = IdleFetch
      /\ cmd'[p] = cmd[p] \/ cmd'[p] = IdleCmd
  BY <1>a DEF KillFetch, KillCommand
<1>3. IdleFetch.pc = "idle" /\ IdleCmd.pc = "idle"
  BY DEF IdleFetch, IdleCmd
<1>4. Used(p)' \subseteq Used(p)
  BY <1>1, <1>2, <1>3 DEF Used
<1>5. Top(p)' >= Top(p)
  BY <1>a, <1>1, <1>2, <1>3 DEF Top
<1>6. SameCount(p)'
  BY <1>1, <1>2, <1>3 DEF SameCount, Receipting
<1> QED
  BY <1>1, <1>4, <1>5, <1>6 DEF FetchCounts, Counts

\* Sending a receipt leaves the fetch's own copy of the contact alone.
LEMMA ReceiptKeepsCopy ==
    ASSUME Solo, NEW p \in Peer, fetch \in [Peer -> FetchProcess], SendReceipt(p)
    PROVE  fetch'[p].mem = fetch[p].mem /\ fetch'[p].back = fetch[p].back
<1> USE DEF Solo
<1>1. CASE ReceiptPost(p)
  <2>1. PICK pc : fetch' = [fetch EXCEPT ![p].pc = pc]
    BY <1>1 DEF ReceiptPost
  <2> QED
    BY <2>1 DEF FetchProcess
<1>2. CASE ReceiptDone(p) \/ ReceiptQueue(p)
  <2>1. fetch'[p] = Returned(fetch[p])
    BY <1>2 DEF ReceiptDone, ReceiptQueue
  <2>2. /\ Returned(fetch[p]).mem = fetch[p].mem
        /\ Returned(fetch[p]).back = fetch[p].back
    BY DEF Returned, FetchProcess
  <2> QED
    BY <2>1, <2>2
<1>3. CASE ReceiptRefresh(p) \/ ReceiptFailover(p)
  BY <1>3 DEF ReceiptRefresh, ReceiptFailover
<1>4. CASE ReceiptLoad(p)
  BY <1>4 DEF ReceiptLoad, FetchProcess
<1>5. CASE ReceiptSave(p)
  BY <1>5 DEF ReceiptSave, FetchProcess
<1>6. CASE ReceiptUndo(p)
  BY <1>6 DEF ReceiptUndo, FetchProcess
<1> QED
  BY <1>1, <1>2, <1>3, <1>4, <1>5, <1>6 DEF SendReceipt

\* What a fetch of p stores as received, its peer has sent.
LEMMA FetchReads ==
    ASSUME Solo, TypeInv, SerialInv, OrderInv, NEW p \in Peer, ReadsSent(p),
           OwnNumbers(Other(p)), Fetch(p)
    PROVE  /\ contact'[p].last_recv_seq < Top(Other(p))
           /\ fetch'[p].back # "idle" =>
                fetch'[p].mem.last_recv_seq < Top(Other(p))
<1> USE DEF Solo, store, network, counts, history
<1>a. /\ contact \in [Peer -> Contact] /\ fetch \in [Peer -> FetchProcess]
      /\ fetch[p] \in FetchProcess /\ fetch[p].mem \in Contact /\ contact[p] \in Contact
  BY DEF TypeInv, TypeOK, FetchProcess
<1>b. Accepted(fetch[p].mem).last_recv_seq = fetch[p].mem.last_recv_seq + 1
  BY <1>a, CounterTypes
<1>s. /\ contact[p].last_recv_seq < Top(Other(p))
      /\ fetch[p].back # "idle" => fetch[p].mem.last_recv_seq < Top(Other(p))
  BY DEF ReadsSent
<1>f. FetchAhead(p)
  BY DEF SerialInv
<1>1. CASE FetchBegin(p) \/ FlushCommand(p)
  <2>1. contact' = contact /\ (fetch'[p].back # "idle" => fetch'[p].mem = contact[p])
    <3>1. CASE FetchBegin(p)
      <4>1. contact' = contact /\ fetch'[p].mem = contact[p]
        BY <1>a, <3>1 DEF FetchBegin, IdleFetch, Pending, Queued
      <4> QED
        BY <4>1
    <3>2. CASE FlushCommand(p)
      <4>1. contact' = contact /\ fetch'[p].back = "idle"
        BY <1>a, <3>2 DEF FlushCommand, IdleFetch, Queued
      <4> QED
        BY <4>1
    <3> QED
      BY <1>1, <3>1, <3>2
  <2> QED
    BY <1>s, <2>1
<1>2. CASE SendReceipt(p)
  <2>1. /\ contact'[p].last_recv_seq = contact[p].last_recv_seq
    BY <1>2, SerialReceipt
  <2>2. fetch'[p].mem = fetch[p].mem /\ fetch'[p].back = fetch[p].back
    BY <1>2, <1>a, ReceiptKeepsCopy
  <2> QED
    BY <1>s, <2>1, <2>2
<1>3. CASE FlushNext(p) \/ Collect(p) \/ NextTag(p)
  <2>1. contact' = contact
    BY <1>3 DEF FlushNext, Collect, NextTag
  <2>2. CASE FlushNext(p)
    <3>1. PICK d : fetch' = [fetch EXCEPT ![p].pc = "rload", ![p].rid = d, ![p].todo = @ \ {d}]
      BY <2>2 DEF FlushNext
    <3> QED
      BY <1>a, <1>s, <2>1, <3>1 DEF FetchProcess
  <2>3. CASE Collect(p)
    <3>1. PICK q : fetch' = [fetch EXCEPT ![p].pc = "drain", ![p].queue = q]
      BY <2>3 DEF Collect
    <3> QED
      BY <1>a, <1>s, <2>1, <3>1 DEF FetchProcess
  <2>4. CASE NextTag(p)
    BY <1>a, <1>s, <2>1, <2>4 DEF NextTag, FetchProcess
  <2> QED
    BY <1>3, <2>2, <2>3, <2>4
<1>4. CASE FlushEnd(p) \/ FetchEnd(p)
  <2>1. /\ contact' = contact
        /\ fetch'[p] \in {IdleFetch, [fetch[p] EXCEPT !.pc = "collect"]}
    BY <1>4, <1>a DEF FlushEnd, FetchEnd
  <2>2. fetch'[p].back # "idle" => fetch'[p].mem = fetch[p].mem /\ fetch[p].back # "idle"
    BY <1>a, <2>1 DEF IdleFetch, FetchProcess
  <2> QED
    BY <1>s, <2>1, <2>2
<1>5. CASE AcceptText(p) \/ AcceptReceipt(p) \/ AcceptAux(p)
  <2>1. PICK m \in Acceptable(p) : /\ fetch'[p].mem = Accepted(fetch[p].mem)
                                   /\ contact'[p] \in {contact[p], Accepted(fetch[p].mem)}
    <3>1. CASE AcceptText(p)
      BY <1>a, <3>1 DEF AcceptText, FetchProcess
    <3>2. CASE AcceptReceipt(p)
      BY <1>a, <3>2 DEF AcceptReceipt, FetchProcess
    <3>3. CASE AcceptAux(p)
      BY <1>a, <3>3 DEF AcceptAux, FetchProcess
    <3> QED
      BY <1>5, <3>1, <3>2, <3>3
  <2>2. m \in relay /\ m.from = Other(p) /\ m.seq = fetch[p].mem.last_recv_seq + 1
    BY DEF Acceptable, OrderInv, ReadSide
  <2>3. m \in Used(Other(p))
    BY <2>2 DEF Used
  <2>4. m.seq < Top(Other(p))
    BY <2>3 DEF OwnNumbers
  <2> QED
    BY <1>b, <1>s, <2>1, <2>2, <2>4
<1>6. CASE Merge(p)
  <2>1. contact' = contact /\ fetch'[p].back = fetch[p].back
        /\ fetch'[p].mem.last_recv_seq = fetch[p].mem.last_recv_seq
    BY <1>6, <1>a DEF Merge, FetchProcess, Contact
  <2> QED
    BY <1>s, <2>1
<1>7. CASE Save(p)
  <2>1. contact'[p] = fetch[p].mem /\ fetch[p].pc = "save" /\ fetch'[p].back = fetch[p].back
        /\ fetch'[p].mem = fetch[p].mem
    BY <1>7, <1>a DEF Save, FetchProcess
  <2> QED
    BY <1>f, <1>s, <2>1 DEF FetchAhead
<1> QED
  BY <1>1, <1>2, <1>3, <1>4, <1>5, <1>6, <1>7 DEF Fetch

\* The next number is new to p.
LEMMA OwnNumbersStep ==
    ASSUME Solo, TypeInv, TypeInv', NEW p \in Peer, OwnNumbers(p), Counts(p)
    PROVE  OwnNumbers(p)' /\ Top(p)' >= Top(p)
<1>1. /\ \A m \in Used(p) : m.seq \in Nat /\ m.seq < Top(p) /\ m.from = p
      /\ Top(p) \in Nat /\ Top(p)' \in Nat
  BY NumberTypes, NextCounters DEF OwnNumbers
<1>2. \A m, x \in Used(p) : m.seq = x.seq => m = x
  BY DEF OwnNumbers
<1>3. CASE Top(p)' >= Top(p) /\ Used(p)' \subseteq Used(p)
  <2>1. \A m \in Used(p)' : m.from = p /\ m.seq < Top(p)'
    BY <1>1, <1>3
  <2>2. \A m, x \in Used(p)' : m.seq = x.seq => m = x
    BY <1>2, <1>3
  <2> QED
    BY <1>3, <2>1, <2>2 DEF OwnNumbers
<1>4. ASSUME Top(p)' = Top(p) + 1,
             NEW b \in Used(p)', b.from = p, b.seq = Top(p),
             Used(p)' \subseteq Used(p) \cup {b}
      PROVE  OwnNumbers(p)' /\ Top(p)' >= Top(p)
  <2>1. \A m \in Used(p)' : m = b \/ m \in Used(p)
    BY <1>4
  <2>2. \A m \in Used(p)' : m.from = p /\ m.seq < Top(p)'
    BY <1>1, <1>4, <2>1
  <2>3. \A m \in Used(p) : m.seq # b.seq
    BY <1>1, <1>4
  <2>4. \A m, x \in Used(p)' : m.seq = x.seq => m = x
    BY <1>2, <2>1, <2>3
  <2>5. Top(p)' >= Top(p)
    BY <1>1, <1>4
  <2> QED
    BY <2>2, <2>4, <2>5 DEF OwnNumbers
<1> QED
  BY <1>3, <1>4 DEF Counts

\* The numbers of the other peer stay as they are.
LEMMA PeerNumbers ==
    ASSUME Solo, TypeInv, NEW p \in Peer, NEW q \in Peer, q # p,
           Command(p) \/ Fetch(p) \/ KillFetch(p) \/ KillCommand(p),
           relay \subseteq relay', \A m \in relay' \ relay : m.from = p
    PROVE  Used(q)' = Used(q) /\ Top(q)' = Top(q)
<1>1. /\ contact'[q] = contact[q] /\ outbound_pending'[q] = outbound_pending[q]
      /\ fetch'[q] = fetch[q] /\ cmd'[q] = cmd[q]
  BY StepOfOne
<1>2. \A m : m \in relay' /\ m.from = q <=> m \in relay /\ m.from = q
  OBVIOUS
<1>3. Used(q)' = Used(q)
  BY <1>1, <1>2 DEF Used
<1> QED
  BY <1>1, <1>3 DEF Top

\* What a step of p has to do to keep the invariants of both peers.
LEMMA NumbersOfBoth ==
    ASSUME Solo, TypeInv, TypeInv', NumberInv, [Next]_vars, NEW p \in Peer,
           Command(p) \/ Fetch(p) \/ KillFetch(p) \/ KillCommand(p), FetchCounts(p),
           contact'[p].last_recv_seq < Top(Other(p)),
           fetch'[p].back # "idle" => fetch'[p].mem.last_recv_seq < Top(Other(p))
    PROVE  NumberInv'
<1> DEFINE q == Other(p)
<1>1. q \in Peer /\ q # p /\ Other(q) = p /\ \A r \in Peer : r = p \/ r = q
  BY PeersDiffer DEF Peer, Other
<1>2. contact'[q] = contact[q] /\ fetch'[q] = fetch[q] /\ cmd'[q] = cmd[q]
  BY <1>1, StepOfOne
<1>3. /\ SameCount(q) /\ OwnNumbers(q) /\ ReadsSent(q) /\ OwnNumbers(p)
      /\ relay \subseteq relay' /\ Counts(p) /\ SameCount(p)'
      /\ \A m \in relay' \ relay : m.from = p
  BY <1>1, RelayGrows DEF NumberInv, FetchCounts
<1>4. OwnNumbers(p)' /\ Top(p)' >= Top(p)
  BY <1>3, OwnNumbersStep
<1>5. Used(q)' = Used(q) /\ Top(q)' = Top(q)
  BY <1>1, <1>3, PeerNumbers
<1>6. SameCount(q)'
  BY <1>2, <1>3 DEF SameCount
<1>7. OwnNumbers(q)'
  BY <1>3, <1>5 DEF OwnNumbers
<1>8. ReadsSent(p)'
  BY <1>5 DEF ReadsSent
<1>9. ReadsSent(q)'
  <2>1. /\ contact[q].last_recv_seq \in Nat /\ fetch[q].mem.last_recv_seq \in Nat
        /\ Top(p) \in Nat /\ Top(p)' \in Nat
    BY <1>1, NumberTypes, NextCounters
  <2>2. /\ contact[q].last_recv_seq < Top(p)
        /\ fetch[q].back # "idle" => fetch[q].mem.last_recv_seq < Top(p)
    BY <1>1, <1>3 DEF ReadsSent
  <2>3. /\ contact'[q].last_recv_seq < Top(p)'
        /\ fetch'[q].back # "idle" => fetch'[q].mem.last_recv_seq < Top(p)'
    BY <1>2, <1>4, <2>1, <2>2
  <2> QED
    BY <1>1, <2>3 DEF ReadsSent
<1> QED
  BY <1>1, <1>3, <1>4, <1>6, <1>7, <1>8, <1>9 DEF NumberInv

LEMMA NextNumbers ==
    ASSUME Solo, ReceiptsAnswered, FlushedApart, TypeInv, TypeInv', SerialInv, OrderInv,
           NumberInv, [Next]_vars
    PROVE  NumberInv'
<1> USE DEF Solo, store, network, counts, history
<1>1. ASSUME NEW p \in Peer, Command(p) PROVE NumberInv'
  <2>1. SendSide(p) /\ SameCount(p) /\ OwnNumbers(p) /\ ReadsSent(p)
    BY DEF OrderInv, NumberInv
  <2>2. FetchCounts(p)
    BY <1>1, <2>1, CommandNumbers DEF FetchCounts
  <2>3. /\ fetch' = fetch
        /\ contact'[p].last_recv_seq = contact[p].last_recv_seq
    BY <1>1, SerialCommand
  <2> QED
    BY <1>1, <2>1, <2>2, <2>3, NumbersOfBoth DEF ReadsSent
<1>2. ASSUME NEW p \in Peer, Fetch(p) PROVE NumberInv'
  <2>1. SameCount(p) /\ ReadsSent(p) /\ OwnNumbers(Other(p))
    BY PeerFacts DEF NumberInv
  <2>2. FetchCounts(p)
    BY <1>2, <2>1, FetchNumbers
  <2>3. /\ contact'[p].last_recv_seq < Top(Other(p))
        /\ fetch'[p].back # "idle" => fetch'[p].mem.last_recv_seq < Top(Other(p))
    BY <1>2, <2>1, FetchReads
  <2> QED
    BY <1>2, <2>2, <2>3, NumbersOfBoth
<1>3. ASSUME NEW p \in Peer, KillFetch(p) \/ KillCommand(p) PROVE NumberInv'
  <2>1. SameCount(p) /\ ReadsSent(p)
    BY DEF NumberInv
  <2>2. FetchCounts(p)
    BY <1>3, <2>1, KillNumbers
  <2>3. contact' = contact /\ (fetch'[p] = fetch[p] \/ fetch'[p].back = "idle")
    BY <1>3 DEF KillFetch, KillCommand, IdleFetch, TypeInv, TypeOK
  <2> QED
    BY <1>3, <2>1, <2>2, <2>3, NumbersOfBoth DEF ReadsSent
<1>4. CASE Expire \/ UNCHANGED vars
  <2>1. UNCHANGED <<contact, outbound_pending, relay, fetch, cmd>>
    BY <1>4 DEF Expire, vars
  <2>2. \A p \in Peer : Used(p)' = Used(p) /\ Top(p)' = Top(p)
    BY <2>1 DEF Used, Top
  <2>3. \A p \in Peer : Top(Other(p))' = Top(Other(p))
    BY <2>1 DEF Top
  <2> QED
    BY <2>1, <2>2, <2>3 DEF NumberInv, SameCount, OwnNumbers, ReadsSent
<1> QED
  BY <1>1, <1>2, <1>3, <1>4 DEF Next

LEMMA NumbersAtInit == ASSUME Solo PROVE Init => NumberInv
<1> SUFFICES ASSUME Init PROVE NumberInv
  OBVIOUS
<1>1. \A p \in Peer : /\ contact[p] = FreshContact /\ contact[Other(p)] = FreshContact
                      /\ fetch[p] = IdleFetch /\ fetch[Other(p)] = IdleFetch
                      /\ cmd[p] = IdleCmd /\ outbound_pending[p] = {}
  BY PeerFacts DEF Init, Solo
<1>0. IdleFetch.pc = "idle" /\ IdleCmd.pc = "idle" /\ FreshContact.next_send_seq = 1
  BY DEF IdleFetch, IdleCmd, FreshContact
<1>2. \A p \in Peer : Used(p) = {} /\ Top(p) = 1 /\ Top(Other(p)) = 1
  <2> SUFFICES ASSUME NEW p \in Peer
               PROVE  Used(p) = {} /\ Top(p) = 1 /\ Top(Other(p)) = 1
    OBVIOUS
  <2>1. Top(p) = 1 /\ Top(Other(p)) = 1
    BY <1>0, <1>1 DEF Top
  <2>2. relay = {}
    BY DEF Init
  <2>3. Used(p) = {}
    BY <1>0, <1>1, <2>2 DEF Used
  <2> QED
    BY <2>1, <2>3
<1>3. \A p \in Peer : SameCount(p)
  BY <1>1 DEF SameCount, IdleFetch, IdleCmd, Receipting
<1>4. \A p \in Peer : OwnNumbers(p) /\ ReadsSent(p)
  BY <1>1, <1>2 DEF OwnNumbers, ReadsSent, IdleFetch, FreshContact
<1> QED
  BY <1>3, <1>4 DEF NumberInv

\* The inductive invariant, as long as no fetch flushes a receipt itself.
LEMMA Numbering ==
    ASSUME Solo, ReceiptsAnswered
    PROVE  Spec /\ []FlushedApart => [](TypeInv /\ NumberInv)
<1>1. TypeInv /\ SerialInv /\ OrderInv /\ NumberInv /\ FlushedApart /\ TypeInv' /\ [Next]_vars
        => NumberInv'
  BY NextNumbers
<1> QED
  BY <1>1, NumbersAtInit, SerialOrder, PTL DEF Spec

\* Peers that run one process at a time keep next_send_seq beyond everything the
\* other peer has consumed, whatever is refused, killed or expires and whatever
\* answers of texts and pushes are lost, as long as no relay stores a receipt
\* whose answer is lost (receipt_cmds.py:81 gives its number back) and no fetch
\* sends queued receipts while it holds a copy of the contact (fetch_cmds.py:64);
\* the second alone breaks it, as the run delivery_stale_flush shows.
THEOREM SenderStaysAhead ==
    ASSUME Solo, ReceiptsAnswered
    PROVE  Spec /\ []FlushedApart => []SenderAhead
<1>1. NumberInv /\ TypeInv => SenderAhead
  <2> SUFFICES ASSUME NumberInv, TypeInv, NEW p \in Peer
               PROVE  contact[p].next_send_seq > contact[Other(p)].last_recv_seq
    BY DEF SenderAhead
  <2>1. Other(p) \in Peer /\ Other(Other(p)) = p
    BY PeersDiffer DEF Peer, Other
  <2>2. contact[Other(p)].last_recv_seq < Top(p)
    BY <2>1 DEF NumberInv, ReadsSent
  <2>3. /\ contact[p].next_send_seq \in Nat /\ contact[Other(p)].last_recv_seq \in Nat
        /\ Top(p) \in Nat
    BY <2>1, NumberTypes
  <2>4. Top(p) <= contact[p].next_send_seq
    BY <2>3 DEF Top
  <2> QED
    BY <2>2, <2>3, <2>4
<1> QED
  BY <1>1, Numbering, PTL

\* Under the same two conditions no two different blobs on the relays have one
\* sequence number of one sender: a refused receipt gives back a number that no
\* relay has seen, and a killed process leaves its number unused.
THEOREM NumbersNeverReused ==
    ASSUME Solo, ReceiptsAnswered
    PROVE  Spec /\ []FlushedApart => []DistinctSeqs
<1>1. NumberInv /\ TypeInv => DistinctSeqs
  <2> SUFFICES ASSUME NumberInv, TypeInv, NEW m \in relay, NEW x \in relay,
                      m.from = x.from, m.seq = x.seq
               PROVE  m = x
    BY DEF DistinctSeqs
  <2>1. m.from \in Peer /\ m \in Used(m.from) /\ x \in Used(m.from)
    BY DEF TypeInv, TypeOK, Blob, Used
  <2> QED
    BY <2>1 DEF NumberInv, OwnNumbers
<1> QED
  BY <1>1, Numbering, PTL
=============================================================================
