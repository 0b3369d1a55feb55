--------------------------- MODULE MailboxProofs ---------------------------
(***************************************************************************)
(* Proofs about Mailbox: a request is not let in again as it was sent, an  *)
(* acknowledged blob is kept, and a mailbox is bounded, for every number   *)
(* of requests, every clock of the client and every value of the relay's   *)
(* limits that meets the two assumptions.                                  *)
(***************************************************************************)
EXTENDS Mailbox, FiniteSetTheorems, TLAPS

-----------------------------------------------------------------------------
(* Type correctness *)

\* One request's arrival keeps the types.
LEMMA ArriveTypes ==
    ASSUME TypeOK, NEW n \in Nonce, NEW x \in Spelling, Arrive(n, x)
    PROVE  TypeOK'
<1>1. PICK r \in sent[n], at, done \in now .. now + Handling : Arrive(n, x)!(r, at, done)
    BY DEF Arrive
<1> DEFINE known == [m \in Nonce |-> [y \in Spelling |-> {t \in seen[m][y] : Remembered(t, at)}]]
           b == [tag |-> r.tag, expires |-> r.expires,
                 nonce |-> n, text |-> x, nth |-> Len(passed[n][x]) + 1]
<1>2. /\ now' = done /\ done \in Nat /\ done >= now /\ at \in Int /\ offset' = offset /\ sent' = sent
    BY <1>1, MailboxAssumption DEF TypeOK
<1>3. r \in Request 
    BY DEF TypeOK
<1>4. /\ seen \in [Nonce -> [Spelling -> SUBSET Int]] /\ known \in [Nonce -> [Spelling -> SUBSET Int]]
      /\ passed \in [Nonce -> [Spelling -> Seq(Int)]] /\ passed[n][x] \in Seq(Int)
    BY <1>3 DEF TypeOK
<1>5. seen' \in [Nonce -> [Spelling -> SUBSET Int]] /\ passed' \in [Nonce -> [Spelling -> Seq(Int)]]
    <2>1. CASE known[n][x] = {}
        <3>1. /\ seen' = [known EXCEPT ![n][x] = {at}]
              /\ passed' = [passed EXCEPT ![n][x] = Append(@, at)]
            BY <1>1, <2>1
        <3>2. {at} \in SUBSET Int /\ Append(passed[n][x], at) \in Seq(Int)
            BY <1>2, <1>4
        <3> HIDE DEF known
        <3> QED BY <3>1, <3>2, <1>3, <1>4
    <2>2. CASE known[n][x] # {}
        <3>1. seen' = known /\ passed' = passed
            BY <1>1, <2>2
        <3> QED BY <3>1, <1>4
    <2> QED BY <2>1, <2>2
<1>6. \/ UNCHANGED <<blobs, acked>>
      \/ /\ ExpiryAllowed(r, done)
         /\ blobs' = blobs \cup {b} /\ acked' = acked \cup {b}
    BY <1>1 DEF Store, Serve
<1>7. /\ blobs' \subseteq Blob /\ acked' \subseteq Blob
      /\ \A y \in blobs' : y.expires <= now' + MessageTtl
    <2>1. b \in Blob
        <3>1. Len(passed[n][x]) + 1 \in Nat
            BY <1>4
        <3> QED BY <1>3, <3>1 DEF Request, Blob
    <2>2. \A y \in blobs : y.expires <= done + MessageTtl
        <3> SUFFICES ASSUME NEW y \in blobs PROVE y.expires <= done + MessageTtl
            OBVIOUS
        <3>1. y.expires \in Int /\ y.expires <= now + MessageTtl
            BY DEF TypeOK, Blob
        <3> QED BY <3>1, <1>2, MailboxAssumption DEF TypeOK
    <2>3. ExpiryAllowed(r, done) => b.expires <= done + MessageTtl
        BY DEF ExpiryAllowed
    <2> HIDE DEF b
    <2> QED BY <1>2, <1>6, <2>1, <2>2, <2>3 DEF TypeOK
<1> QED BY <1>2, <1>5, <1>7 DEF TypeOK

\* Every step does.
LEMMA TypesKept == TypeOK /\ [Next]_vars => TypeOK'
<1> SUFFICES ASSUME TypeOK, [Next]_vars PROVE TypeOK'
    OBVIOUS
<1>1. ASSUME NEW n \in Nonce, NEW r \in Request, Sign(n, r) PROVE TypeOK'
    <2>1. sent' \in [Nonce -> SUBSET Request]
        BY <1>1 DEF Sign, TypeOK
    <2> QED BY <1>1, <2>1 DEF Sign, TypeOK
<1>2. ASSUME NEW n \in Nonce, Post(n) PROVE TypeOK'
    <2>1. PICK t \in Tag, lag \in 0 .. Lag :
            Sign(n, [kind |-> "post", ts |-> ClientNow, tag |-> t,
                     expires |-> ClientNow - lag + MessageTtl])
        BY <1>2 DEF Post, Signed
    <2>2. ClientNow \in Int /\ ClientNow - lag + MessageTtl \in Int
        BY MailboxAssumption DEF TypeOK, ClientNow
    <2> QED BY <1>1, <2>1, <2>2 DEF Request
<1>3. ASSUME NEW n \in Nonce, Fetch(n) PROVE TypeOK'
    <2>1. PICK t \in Tag :
            Sign(n, [kind |-> "fetch", ts |-> ClientNow, tag |-> t, expires |-> 0])
        BY <1>3 DEF Fetch, Signed
    <2>2. ClientNow \in Int
        BY MailboxAssumption DEF TypeOK, ClientNow
    <2> QED BY <1>1, <2>1, <2>2 DEF Request
<1>4. ASSUME NEW n \in Nonce, NEW x \in Spelling, Arrive(n, x) PROVE TypeOK'
    BY <1>4, ArriveTypes
<1>5. CASE Sweep
    BY <1>5 DEF Sweep, TypeOK
<1>6. CASE Tick
    <2>1. \A x \in blobs : x.expires <= now' + MessageTtl
        <3> SUFFICES ASSUME NEW x \in blobs PROVE x.expires <= now' + MessageTtl
            OBVIOUS
        <3>1. x.expires \in Int /\ x.expires <= now + MessageTtl
            BY DEF TypeOK, Blob
        <3> QED BY <3>1, <1>6, MailboxAssumption DEF TypeOK, Tick
    <2> QED BY <1>6, <2>1 DEF Tick, TypeOK
<1>7. CASE UNCHANGED vars
    BY <1>7 DEF vars, TypeOK
<1> QED BY <1>2, <1>3, <1>4, <1>5, <1>6, <1>7 DEF Next

\* Every part of the state keeps its type, for every value of the constants.
THEOREM TypeCorrect == Spec => []TypeOK
<1>1. Init => TypeOK
    BY DEF Init, TypeOK
<1> QED BY <1>1, TypesKept, PTL DEF Spec

-----------------------------------------------------------------------------
(* A request is not let in again as it was sent *)

\* It was let in before, and not within Handling of the first time it could be.
LetIn(n, x, r) == passed[n][x] # <<>> /\ passed[n][x][1] >= r.ts - Skew + Handling

\* Its timestamp is too old by now, or its text is remembered from when it was let in.
Spent(n, x, r) == r.ts + Skew < now \/ passed[n][x][1] \in seen[n][x]

\* The inductive invariant.
ReplayInv ==
    /\ \A n \in Nonce : \A r, q \in sent[n] : r = q
    /\ \A n \in Nonce, x \in Spelling :
         /\ passed[n][x] # <<>> => sent[n] # {}
         /\ \A r \in sent[n] :
              LetIn(n, x, r) => Len(passed[n][x]) = 1 /\ Spent(n, x, r)

\* A text outlives the timestamp of the request it was let in with.
LEMMA Outlives ==
    ASSUME NEW ts \in Int, NEW at \in Int, NEW t \in Int, t >= ts - Skew + Handling
    PROVE  Remembered(t, at) \/ ts + Skew + Handling < at
<1>1. Skew \in Int /\ NonceTtl \in Int /\ Handling \in Int /\ NonceTtl >= 2 * Skew
    BY MailboxAssumption, NoncesOutliveTimestamps
<1> QED BY <1>1 DEF Remembered

\* A request that can pass and was let in before is remembered.
LEMMA FreshRemembered ==
    ASSUME TypeOK, NEW n \in Nonce, NEW x \in Spelling, NEW r \in sent[n],
           LetIn(n, x, r), Spent(n, x, r), Fresh(r), NEW at \in now .. now + Handling
    PROVE  \E t \in seen[n][x] : Remembered(t, at)
<1> DEFINE t == passed[n][x][1]
<1>1. /\ r.ts \in Int /\ now \in Int /\ Skew \in Int /\ Handling \in Int
      /\ at \in Int /\ at <= now + Handling
    BY MailboxAssumption DEF TypeOK, Request
<1>2. now <= r.ts + Skew
    BY <1>1 DEF Fresh
<1>3. t \in seen[n][x] /\ t \in Int
    <2>1. t \in seen[n][x]
        BY <1>1, <1>2 DEF Spent
    <2>2. seen[n][x] \subseteq Int
        BY DEF TypeOK
    <2> QED BY <2>1, <2>2
<1>4. t >= r.ts - Skew + Handling
    BY DEF LetIn
<1> HIDE DEF t
<1>5. ~(r.ts + Skew + Handling < at)
    BY <1>1, <1>2
<1>6. Remembered(t, at)
    BY <1>1, <1>3, <1>4, <1>5, Outlives
<1> QED BY <1>3, <1>6

\* A request stays spent, whatever is forgotten at a later time at.
LEMMA SpentStays ==
    ASSUME TypeOK, TypeOK', NEW n \in Nonce, NEW x \in Spelling, NEW r \in sent[n],
           LetIn(n, x, r), Spent(n, x, r), passed'[n][x] = passed[n][x],
           NEW at \in Int, at <= now', now <= now',
           \A t \in seen[n][x] : Remembered(t, at) => t \in seen'[n][x]
    PROVE  Spent(n, x, r)'
<1> DEFINE t == passed[n][x][1]
<1>1. /\ r.ts \in Int /\ now \in Int /\ now' \in Int /\ Skew \in Int /\ Handling \in Nat
      /\ seen[n][x] \subseteq Int
    BY MailboxAssumption DEF TypeOK, Request
<1>2. t >= r.ts - Skew + Handling
    BY DEF LetIn
<1>3. CASE r.ts + Skew < now
    BY <1>1, <1>3 DEF Spent
<1>4. CASE t \in seen[n][x]
    <2> HIDE DEF t
    <2>1. t \in Int
        BY <1>1, <1>4
    <2>2. Remembered(t, at) \/ r.ts + Skew + Handling < at
        BY <1>1, <1>2, <2>1, Outlives
    <2>3. t \in seen'[n][x] \/ r.ts + Skew < now'
        BY <1>1, <1>4, <2>2
    <2> QED BY <2>3 DEF Spent, t
<1> QED BY <1>3, <1>4 DEF Spent

\* A request that is signed has not been let in.
LEMMA ReplaySign ==
    ASSUME TypeOK, ReplayInv, NEW n \in Nonce, NEW r, Sign(n, r)
    PROVE  ReplayInv'
<1>1. /\ sent[n] = {} /\ sent' = [sent EXCEPT ![n] = {r}]
      /\ UNCHANGED <<now, offset, seen, blobs, passed, acked>>
    BY DEF Sign
<1>2. sent'[n] = {r} /\ \A k \in Nonce : k # n => sent'[k] = sent[k]
    BY <1>1 DEF TypeOK
<1>3. \A x \in Spelling : passed[n][x] = <<>>
    BY <1>1 DEF ReplayInv
<1>4. \A k \in Nonce : \A p, q \in sent'[k] : p = q
    BY <1>2 DEF ReplayInv
<1>5. ASSUME NEW k \in Nonce, NEW x \in Spelling
      PROVE  /\ passed'[k][x] # <<>> => sent'[k] # {}
             /\ \A q \in sent'[k] :
                  LetIn(k, x, q)' => Len(passed'[k][x]) = 1 /\ Spent(k, x, q)'
    <2>1. CASE k = n
        BY <1>1, <1>2, <1>3, <2>1 DEF LetIn
    <2>2. CASE k # n
        BY <1>1, <1>2, <2>2 DEF ReplayInv, LetIn, Spent
    <2> QED BY <2>1, <2>2
<1> QED BY <1>4, <1>5 DEF ReplayInv

\* A request that is let in was not let in before, or too early.
LEMMA ReplayArrive ==
    ASSUME TypeOK, TypeOK', ReplayInv, NEW n \in Nonce, NEW x \in Spelling, Arrive(n, x)
    PROVE  ReplayInv'
<1>1. PICK r \in sent[n], at, done \in now .. now + Handling : Arrive(n, x)!(r, at, done)
    BY DEF Arrive
<1> DEFINE known == [m \in Nonce |-> [y \in Spelling |-> {t \in seen[m][y] : Remembered(t, at)}]]
<1>2. /\ now' = done /\ now <= now' /\ at <= now' /\ sent' = sent /\ Fresh(r)
      /\ at \in Int /\ now' \in Int
    BY <1>1, MailboxAssumption DEF TypeOK
<1>3. ASSUME NEW k \in Nonce, NEW y \in Spelling,
             seen'[k][y] = known[k][y], passed'[k][y] = passed[k][y]
      PROVE  /\ passed'[k][y] # <<>> => sent'[k] # {}
             /\ \A q \in sent'[k] :
                  LetIn(k, y, q)' => Len(passed'[k][y]) = 1 /\ Spent(k, y, q)'
    <2>1. passed'[k][y] # <<>> => sent'[k] # {}
        BY <1>2, <1>3 DEF ReplayInv
    <2>2. ASSUME NEW q \in sent'[k], LetIn(k, y, q)'
          PROVE  Len(passed'[k][y]) = 1 /\ Spent(k, y, q)'
        <3>1. q \in sent[k] /\ LetIn(k, y, q)
            BY <1>2, <1>3, <2>2 DEF LetIn
        <3>2. Len(passed[k][y]) = 1 /\ Spent(k, y, q)
            BY <3>1 DEF ReplayInv
        <3>3. \A t \in seen[k][y] : Remembered(t, at) => t \in seen'[k][y]
            BY <1>3
        <3>4. Spent(k, y, q)'
            BY <1>2, <1>3, <3>1, <3>2, <3>3, SpentStays
        <3> QED BY <1>3, <3>2, <3>4
    <2> QED BY <2>1, <2>2
<1>4. CASE known[n][x] = {}
    <2>1. /\ seen' = [known EXCEPT ![n][x] = {at}]
          /\ passed' = [passed EXCEPT ![n][x] = Append(@, at)]
        BY <1>1, <1>4
    <2>2. /\ seen'[n][x] = {at} /\ passed'[n][x] = Append(passed[n][x], at)
          /\ passed[n][x] \in Seq(Int)
        BY <2>1 DEF TypeOK
    <2>3. ASSUME NEW k \in Nonce, NEW y \in Spelling, ~(k = n /\ y = x)
          PROVE  seen'[k][y] = known[k][y] /\ passed'[k][y] = passed[k][y]
        BY <2>1, <2>3 DEF TypeOK
    <2>4. ~LetIn(n, x, r)
        <3> SUFFICES ASSUME LetIn(n, x, r) PROVE FALSE
            OBVIOUS
        <3>1. Spent(n, x, r)
            BY DEF ReplayInv
        <3>2. \E t \in seen[n][x] : Remembered(t, at)
            BY <1>2, <3>1, FreshRemembered
        <3> QED BY <3>2, <1>4
    <2>5. /\ passed'[n][x] # <<>> => sent'[n] # {}
          /\ \A q \in sent'[n] :
               LetIn(n, x, q)' => Len(passed'[n][x]) = 1 /\ Spent(n, x, q)'
        <3>1. CASE passed[n][x] = <<>>
            <4>1. passed'[n][x] = <<at>>
                BY <1>2, <2>2, <3>1
            <4>2. Len(passed'[n][x]) = 1 /\ passed'[n][x][1] \in seen'[n][x]
                BY <2>2, <4>1
            <4> QED BY <1>1, <4>2 DEF Spent
        <3>2. CASE passed[n][x] # <<>>
            <4>1. passed'[n][x][1] = passed[n][x][1]
                BY <1>2, <2>2, <3>2
            <4>2. ~LetIn(n, x, r)'
                BY <2>4, <3>2, <4>1 DEF LetIn
            <4>3. \A q \in sent'[n] : q = r
                BY <1>2 DEF ReplayInv
            <4> QED BY <1>1, <4>2, <4>3
        <3> QED BY <3>1, <3>2
    <2>6. ASSUME NEW k \in Nonce, NEW y \in Spelling
          PROVE  /\ passed'[k][y] # <<>> => sent'[k] # {}
                 /\ \A q \in sent'[k] :
                      LetIn(k, y, q)' => Len(passed'[k][y]) = 1 /\ Spent(k, y, q)'
        <3>1. CASE k = n /\ y = x
            BY <2>5, <3>1
        <3>2. CASE ~(k = n /\ y = x)
            <4>1. seen'[k][y] = known[k][y] /\ passed'[k][y] = passed[k][y]
                BY <2>3, <3>2
            <4> QED BY <4>1, <1>3
        <3> QED BY <3>1, <3>2
    <2> QED BY <1>2, <2>6 DEF ReplayInv
<1>5. CASE known[n][x] # {}
    <2>1. seen' = known /\ passed' = passed
        BY <1>1, <1>5
    <2>2. ASSUME NEW k \in Nonce, NEW y \in Spelling
          PROVE  /\ passed'[k][y] # <<>> => sent'[k] # {}
                 /\ \A q \in sent'[k] :
                      LetIn(k, y, q)' => Len(passed'[k][y]) = 1 /\ Spent(k, y, q)'
        <3>1. seen'[k][y] = known[k][y] /\ passed'[k][y] = passed[k][y]
            BY <2>1
        <3> QED BY <3>1, <1>3
    <2> QED BY <1>2, <2>2 DEF ReplayInv
<1> QED BY <1>4, <1>5

\* Every step keeps ReplayInv.
LEMMA ReplayStep == TypeOK /\ TypeOK' /\ ReplayInv /\ [Next]_vars => ReplayInv'
<1> SUFFICES ASSUME TypeOK, TypeOK', ReplayInv, [Next]_vars PROVE ReplayInv'
    OBVIOUS
<1>1. ASSUME NEW n \in Nonce, Post(n) PROVE ReplayInv'
    BY <1>1, ReplaySign DEF Post, Signed
<1>2. ASSUME NEW n \in Nonce, Fetch(n) PROVE ReplayInv'
    BY <1>2, ReplaySign DEF Fetch, Signed
<1>3. ASSUME NEW n \in Nonce, NEW x \in Spelling, Arrive(n, x) PROVE ReplayInv'
    BY <1>3, ReplayArrive
<1>4. ASSUME UNCHANGED <<sent, seen, passed>>, now <= now' PROVE ReplayInv'
    <2>1. now \in Int /\ now' \in Int
        BY DEF TypeOK
    <2>2. ASSUME NEW n \in Nonce, NEW x \in Spelling, NEW r \in sent[n], Spent(n, x, r)
          PROVE  Spent(n, x, r)'
        <3>1. r.ts + Skew \in Int
            BY MailboxAssumption DEF TypeOK, Request
        <3> QED BY <1>4, <2>1, <2>2, <3>1 DEF Spent
    <2> QED BY <1>4, <2>2 DEF ReplayInv, LetIn
<1>5. CASE Sweep \/ Tick \/ UNCHANGED vars
    <2>1. now <= now' /\ UNCHANGED <<sent, seen, passed>>
        BY <1>5 DEF Sweep, Tick, vars, TypeOK
    <2> QED BY <1>4, <2>1
<1> QED BY <1>1, <1>2, <1>3, <1>5 DEF Next

\* A signed request is not let in again as it was sent, however late and however often
\* it arrives (_check_capability), for every clock of the client: only what was let in
\* within Handling of the first time its timestamp was good can be.
THEOREM RequestsPassOnce == Spec => []NoReplay
<1>1. Init => ReplayInv
    BY DEF Init, ReplayInv
<1>2. TypeOK /\ ReplayInv => NoReplay
    <2> SUFFICES ASSUME TypeOK, ReplayInv, NEW n \in Nonce, NEW x \in Spelling,
                        NEW r \in sent[n], Len(passed[n][x]) > 1
                 PROVE  passed[n][x][1] < r.ts - Skew + Handling
        BY DEF NoReplay
    <2>1. passed[n][x] \in Seq(Int) /\ r.ts \in Int /\ Skew \in Int /\ Handling \in Int
        BY MailboxAssumption DEF TypeOK, Request
    <2>2. passed[n][x] # <<>> /\ passed[n][x][1] \in Int
        BY <2>1
    <2>3. LetIn(n, x, r) => Len(passed[n][x]) = 1
        BY DEF ReplayInv
    <2>4. ~LetIn(n, x, r)
        <3> DEFINE times == Len(passed[n][x])
        <3>1. times \in Nat /\ times > 1
            BY <2>1
        <3> HIDE DEF times
        <3>2. times # 1
            BY <3>1
        <3> QED BY <3>2, <2>3 DEF times
    <2>5. ~(passed[n][x][1] >= r.ts - Skew + Handling)
        BY <2>2, <2>4 DEF LetIn
    <2> QED BY <2>1, <2>2, <2>5
<1> QED BY <1>1, <1>2, ReplayStep, TypeCorrect, PTL DEF Spec

-----------------------------------------------------------------------------
(* What is acknowledged is kept, and the mailbox is bounded *)

\* A request stores one blob or none, and only where there is room.
LEMMA ArriveStores ==
    ASSUME TypeOK, NEW n \in Nonce, NEW x \in Spelling, Arrive(n, x)
    PROVE  /\ now <= now'
           /\ \/ UNCHANGED <<blobs, acked>>
              \/ \E b : /\ HasRoom(b.tag, now')
                       /\ blobs' = blobs \cup {b} /\ acked' = acked \cup {b}
<1>1. PICK r \in sent[n], at, done \in now .. now + Handling : Arrive(n, x)!(r, at, done)
    BY DEF Arrive
<1> DEFINE b == [tag |-> r.tag, expires |-> r.expires,
                 nonce |-> n, text |-> x, nth |-> Len(passed[n][x]) + 1]
<1>2. now' = done /\ now <= now'
    BY <1>1, MailboxAssumption DEF TypeOK
<1>3. UNCHANGED <<blobs, acked>> \/ Store(n, x, r, done)
    BY <1>1 DEF Serve
<1>4. \/ UNCHANGED <<blobs, acked>>
      \/ HasRoom(b.tag, now') /\ blobs' = blobs \cup {b} /\ acked' = acked \cup {b}
    BY <1>2, <1>3 DEF Store
<1> HIDE DEF b
<1> QED BY <1>2, <1>4

\* A blob answered 201 can be fetched until it expires (store, sweep_expired).
THEOREM AckedIsServed == Spec => []AckedBlobServed
<1>1. Init => AckedBlobServed
    BY DEF Init, AckedBlobServed
<1>2. TypeOK /\ TypeOK' /\ AckedBlobServed /\ [Next]_vars => AckedBlobServed'
    <2> SUFFICES ASSUME TypeOK, TypeOK', AckedBlobServed, [Next]_vars,
                        NEW x \in acked', now' < x.expires
                 PROVE  x \in blobs'
        BY DEF AckedBlobServed, Live
    <2>1. now \in Int /\ now' \in Int /\ x.expires \in Int
        BY DEF TypeOK, Blob
    <2>2. ASSUME now <= now', x \in acked PROVE x \in blobs
        BY <2>1, <2>2 DEF AckedBlobServed, Live
    <2>3. ASSUME NEW n \in Nonce, Post(n) \/ Fetch(n) PROVE x \in blobs'
        BY <2>1, <2>2, <2>3 DEF Post, Fetch, Signed, Sign
    <2>4. ASSUME NEW n \in Nonce, NEW k \in Spelling, Arrive(n, k) PROVE x \in blobs'
        BY <2>2, <2>4, ArriveStores
    <2>5. CASE Sweep
        <3>1. x \in blobs
            BY <2>1, <2>2, <2>5 DEF Sweep
        <3> QED BY <2>1, <2>5, <3>1 DEF Sweep, Swept
    <2>6. CASE Tick
        BY <2>1, <2>2, <2>6 DEF Tick
    <2>7. CASE UNCHANGED vars
        BY <2>1, <2>2, <2>7 DEF vars
    <2> QED BY <2>3, <2>4, <2>5, <2>6, <2>7 DEF Next
<1> QED BY <1>1, <1>2, TypeCorrect, PTL DEF Spec

BoundInv == IsFiniteSet(blobs) /\ MailboxBounded

\* Nothing that passes, and no row that goes, makes more blobs live.
LEMMA FewerLive ==
    ASSUME TypeOK, TypeOK', BoundInv, now <= now', blobs' \subseteq blobs
    PROVE  BoundInv'
<1>1. IsFiniteSet(blobs')
    BY FS_Subset DEF BoundInv
<1>2. ASSUME NEW t \in Tag PROVE Cardinality(Live(t, now)') <= MaxBlobs
    <2>1. IsFiniteSet(Live(t, now))
        BY FS_Subset DEF BoundInv, Live
    <2>2. Live(t, now)' \subseteq Live(t, now)
        <3> SUFFICES ASSUME NEW x \in blobs', x.tag = t, now' < x.expires
                     PROVE  x \in blobs /\ now < x.expires
            BY DEF Live
        <3>1. x.expires \in Int /\ now \in Int /\ now' \in Int
            BY DEF TypeOK, Blob
        <3> QED BY <3>1
    <2>3. /\ Cardinality(Live(t, now)') <= Cardinality(Live(t, now))
          /\ Cardinality(Live(t, now)') \in Nat /\ Cardinality(Live(t, now)) \in Nat
        BY <2>1, <2>2, FS_Subset, FS_CardinalityType
    <2>4. Cardinality(Live(t, now)) <= MaxBlobs
        BY DEF BoundInv, MailboxBounded
    <2> QED BY <2>3, <2>4, MailboxAssumption
<1> QED BY <1>1, <1>2 DEF BoundInv, MailboxBounded

\* A blob is stored only where there is room for it.
LEMMA OneMoreLive ==
    ASSUME TypeOK, TypeOK', BoundInv, now <= now',
           NEW b, blobs' = blobs \cup {b}, HasRoom(b.tag, now')
    PROVE  BoundInv'
<1>1. IsFiniteSet(blobs')
    BY FS_AddElement DEF BoundInv
<1>2. ASSUME NEW t \in Tag PROVE Cardinality(Live(t, now)') <= MaxBlobs
    <2>1. IsFiniteSet(Live(t, now)) /\ IsFiniteSet(Live(t, now'))
        BY FS_Subset DEF BoundInv, Live
    <2>2. Live(t, now') \subseteq Live(t, now)
        <3> SUFFICES ASSUME NEW x \in blobs, now' < x.expires PROVE now < x.expires
            BY DEF Live
        <3>1. x.expires \in Int /\ now \in Int /\ now' \in Int
            BY DEF TypeOK, Blob
        <3> QED BY <3>1
    <2>3. /\ Cardinality(Live(t, now')) <= MaxBlobs
          /\ Cardinality(Live(t, now')) \in Nat
        <3>1. Cardinality(Live(t, now)) <= MaxBlobs /\ Cardinality(Live(t, now)) \in Nat
            BY <2>1, FS_CardinalityType DEF BoundInv, MailboxBounded
        <3>2. /\ Cardinality(Live(t, now')) <= Cardinality(Live(t, now))
              /\ Cardinality(Live(t, now')) \in Nat
            BY <2>1, <2>2, FS_Subset, FS_CardinalityType
        <3> QED BY <3>1, <3>2, MailboxAssumption
    <2>4. CASE t # b.tag
        <3>1. Live(t, now)' = Live(t, now')
            BY <2>4 DEF Live
        <3> QED BY <2>3, <3>1
    <2>5. CASE t = b.tag
        <3>1. Live(t, now)' \subseteq Live(t, now') \cup {b}
            BY DEF Live
        <3>2. /\ IsFiniteSet(Live(t, now') \cup {b})
              /\ Cardinality(Live(t, now') \cup {b}) <= Cardinality(Live(t, now')) + 1
            <4>1. CASE b \in Live(t, now')
                <5>1. Live(t, now') \cup {b} = Live(t, now')
                    BY <4>1
                <5> QED BY <2>1, <2>3, <5>1
            <4>2. CASE b \notin Live(t, now')
                <5>1. /\ IsFiniteSet(Live(t, now') \cup {b})
                      /\ Cardinality(Live(t, now') \cup {b}) = Cardinality(Live(t, now')) + 1
                    BY <2>1, <4>2, FS_AddElement
                <5> QED BY <2>3, <5>1
            <4> QED BY <4>1, <4>2
        <3>3. /\ Cardinality(Live(t, now)') <= Cardinality(Live(t, now') \cup {b})
              /\ Cardinality(Live(t, now)') \in Nat
              /\ Cardinality(Live(t, now') \cup {b}) \in Nat
            BY <3>1, <3>2, FS_Subset, FS_CardinalityType
        <3>4. Cardinality(Live(t, now')) < MaxBlobs
            BY <2>5 DEF HasRoom
        <3> QED BY <2>3, <3>2, <3>3, <3>4, MailboxAssumption
    <2> QED BY <2>4, <2>5
<1> QED BY <1>1, <1>2 DEF BoundInv, MailboxBounded

\* What can be fetched of a tag never exceeds max_blobs_per_tag (store).
THEOREM MailboxIsBounded == Spec => []MailboxBounded
<1>1. Init => BoundInv
    <2> SUFFICES ASSUME Init PROVE BoundInv
        OBVIOUS
    <2>1. blobs = {} /\ \A t \in Tag : Live(t, now) = {}
        BY DEF Init, Live
    <2>2. Cardinality({}) = 0 /\ IsFiniteSet({})
        BY FS_EmptySet
    <2> QED BY <2>1, <2>2, MailboxAssumption DEF BoundInv, MailboxBounded
<1>2. TypeOK /\ TypeOK' /\ BoundInv /\ [Next]_vars => BoundInv'
    <2> SUFFICES ASSUME TypeOK, TypeOK', BoundInv, [Next]_vars PROVE BoundInv'
        OBVIOUS
    <2>1. now \in Int /\ now' \in Int
        BY DEF TypeOK
    <2>2. ASSUME NEW n \in Nonce, Post(n) \/ Fetch(n) PROVE BoundInv'
        BY <2>1, <2>2, FewerLive DEF Post, Fetch, Signed, Sign
    <2>3. ASSUME NEW n \in Nonce, NEW x \in Spelling, Arrive(n, x) PROVE BoundInv'
        BY <2>3, ArriveStores, FewerLive, OneMoreLive
    <2>4. CASE Sweep
        BY <2>1, <2>4, FewerLive DEF Sweep
    <2>5. CASE Tick
        BY <2>1, <2>5, FewerLive DEF Tick
    <2>6. CASE UNCHANGED vars
        BY <2>1, <2>6, FewerLive DEF vars
    <2> QED BY <2>2, <2>3, <2>4, <2>5, <2>6 DEF Next
<1>3. BoundInv => MailboxBounded
    BY DEF BoundInv
<1> QED BY <1>1, <1>2, <1>3, TypeCorrect, PTL DEF Spec
=============================================================================
