--------------------------- MODULE PairingProofs ---------------------------
(***************************************************************************)
(* Proofs about Pairing: one answer never splits the two ends, the first   *)
(* answer of a session stands and no end is left alone, for any number of  *)
(* joiners, attempts and waiting commands.                                 *)
(***************************************************************************)
EXTENDS Pairing, FiniteSetTheorems, TLAPS

-----------------------------------------------------------------------------
(* Type correctness *)

LEMMA Records ==
    /\ NoSession \in Session /\ Idle \in WaitState
    /\ \A q \in Request : Opened({q}) \in Session
    /\ Opened({}) \in Session
BY DEF NoSession, Session, Idle, WaitState, Opened

LEMMA NewKeys ==
    ASSUME TypeOK
    PROVE  /\ \A j \in Joiner : NewRequest(j) \in Request /\ NewRequest(j).joiner = j
           /\ \A q \in Request : NewMaster(q) \in Master /\ NewMaster(q).req = q
BY DEF TypeOK, NewRequest, NewMaster, Request, Master

\* The response is to the joiner's request, so the two masters are one.
LEMMA SameMaster ==
    ASSUME NEW q \in Request, NEW m \in Master, TranscriptMatches(q, m)
    PROVE  JoinerMaster(q, m) = m
BY DEF TranscriptMatches, JoinerMaster, Master

LEMMA GoesTyped ==
    ASSUME TypeOK, NEW w \in Waiter, NEW pc, NEW got, Goes(w, pc, got),
           [pc |-> pc, got |-> got] \in WaitState
    PROVE  wait' \in [Waiter -> WaitState]
BY DEF Goes, TypeOK

LEMMA SessionTyped ==
    ASSUME TypeOK
    PROVE  /\ \A q \in Request : RequestStored(q) \in Session
           /\ \A q \in Request : RequestStored(q).consumed = session.consumed
                                 \/ RequestStored(q).consumed = FALSE
           /\ \A q \in Request : ~ session.there => RequestStored(q).response = {}
           /\ \A q \in Request : session.there => RequestStored(q).response = session.response
           /\ \A q \in Request : RequestStored(q).there
           /\ \A m \in Master : /\ ResponseStored(m) \in Session
                                /\ ResponseStored(m).response = {m}
                                /\ ResponseStored(m).consumed
                                /\ ResponseStored(m).there = session.there
BY DEF TypeOK, Session, RequestStored, ResponseStored, Opened, NoSession

LEMMA TypesKept == TypeOK /\ [Next]_vars => TypeOK'
<1> SUFFICES ASSUME TypeOK, [Next]_vars PROVE TypeOK'
    OBVIOUS
<1> USE DEF vars
<1>a. /\ \A j \in Joiner : NewRequest(j) \in Request
      /\ \A q \in Request : NewMaster(q) \in Master
      /\ \A j \in Joiner : polling[j] \subseteq Request /\ pending[j] \subseteq Request
      /\ shown.req \subseteq Request /\ shown.resp \subseteq Master
      /\ session.request \subseteq Request /\ session.response \subseteq Master
      /\ \A w \in Waiter : wait[w] \in WaitState /\ wait[w].got \subseteq Master
      /\ \A m \in Master : m.req \in Request /\ m.req.joiner \in Joiner
      /\ \A q \in Request : q.joiner \in Joiner
    BY NewKeys DEF TypeOK, Session, WaitState, Request, Master
<1>b. \A j \in Joiner, m \in Master : /\ Stored(contact, j, m) \in [Joiner -> SUBSET Master]
                                       /\ Stored(peer, j, m) \in [Joiner -> SUBSET Master]
    BY DEF TypeOK, Stored
<1>1. CASE Age
    BY <1>1 DEF Age, TypeOK, Session
<1>2. CASE Sweep
    BY <1>2, Records DEF Sweep, TypeOK, NoSession
<1>3. CASE InviterRespond
    <2>1. PICK q \in shown.req :
            /\ contact' = Stored(contact, q.joiner, NewMaster(q))
            /\ shown' \in {shown, [shown EXCEPT !.resp = @ \cup {NewMaster(q)}]}
            /\ answered' = answered \cup {NewMaster(q)}
        BY <1>3 DEF InviterRespond, ShownResponse
    <2>2. NewMaster(q) \in Master /\ q.joiner \in Joiner
        BY <1>a
    <2>3. contact' \in [Joiner -> SUBSET Master]
        BY <1>b, <2>1, <2>2
    <2>4. shown' \in [req : SUBSET Request, resp : SUBSET Master] /\ answered' \subseteq Master
        BY <2>1, <2>2 DEF TypeOK
    <2> QED BY <1>3, <2>3, <2>4 DEF InviterRespond, CountReply, TypeOK, ShownResponse
<1>4. ASSUME NEW w \in Waiter, StartWait(w) PROVE TypeOK'
    <2>1. wait' \in [Waiter -> WaitState]
        BY <1>4, GoesTyped DEF StartWait, WaitState
    <2>2. session' \in Session /\ session'.response = {} /\ ~ session'.consumed
        BY <1>4, Records DEF StartWait, Opened, NoSession
    <2> QED BY <1>4, <2>1, <2>2 DEF StartWait, Starts, TypeOK
<1>5. ASSUME NEW w \in Waiter, PollRequest(w) PROVE TypeOK'
    <2>1. PICK q \in PendingRequest : Goes(w, "replying", {NewMaster(q)})
        BY <1>5 DEF PollRequest
    <2>2. NewMaster(q) \in Master
        BY <1>a DEF PendingRequest
    <2>3. wait' \in [Waiter -> WaitState]
        BY <2>1, <2>2, GoesTyped DEF WaitState
    <2> QED BY <1>5, <2>3 DEF PollRequest, CountReply, TypeOK
<1>6. ASSUME NEW w \in Waiter, PollTimeout(w) PROVE TypeOK'
    <2>1. wait' \in [Waiter -> WaitState]
        BY <1>6, GoesTyped DEF PollTimeout, WaitState
    <2> QED BY <1>6, <2>1 DEF PollTimeout, TypeOK
<1>7. ASSUME NEW w \in Waiter, PostResponse(w) PROVE TypeOK'
    <2>1. CASE MayAnswer
        <3>1. PICK m \in wait[w].got : /\ session' = ResponseStored(m)
                                       /\ answered' = answered \cup {m}
                                       /\ Goes(w, "saving", {m})
            BY <1>7, <2>1 DEF PostResponse
        <3>2. m \in Master
            BY <1>a
        <3>3. wait' \in [Waiter -> WaitState]
            BY <3>1, <3>2, GoesTyped DEF WaitState
        <3>4. session' \in Session /\ session'.response = {m} /\ session'.consumed
              /\ session'.there
            BY <2>1, <3>1, <3>2, SessionTyped DEF MayAnswer
        <3> QED BY <1>7, <3>1, <3>2, <3>3, <3>4 DEF PostResponse, TypeOK
    <2>2. CASE ~ MayAnswer
        <3>1. Goes(w, "idle", {}) /\ UNCHANGED <<session, answered>>
            BY <1>7, <2>2 DEF PostResponse
        <3>2. wait' \in [Waiter -> WaitState]
            BY <3>1, GoesTyped DEF WaitState
        <3> QED BY <1>7, <3>1, <3>2 DEF PostResponse, TypeOK
    <2> QED BY <2>1, <2>2
<1>8. ASSUME NEW w \in Waiter, SaveContact(w) PROVE TypeOK'
    <2>1. PICK m \in wait[w].got : contact' = Stored(contact, m.req.joiner, m)
        BY <1>8 DEF SaveContact
    <2>2. contact' \in [Joiner -> SUBSET Master]
        BY <1>a, <1>b, <2>1
    <2>3. wait' \in [Waiter -> WaitState]
        BY <1>8, GoesTyped DEF SaveContact, WaitState
    <2> QED BY <1>8, <2>2, <2>3 DEF SaveContact, TypeOK
<1>9. ASSUME NEW w \in Waiter, Kill(w) PROVE TypeOK'
    <2>1. wait' \in [Waiter -> WaitState]
        BY <1>9, GoesTyped DEF Kill, WaitState
    <2> QED BY <1>9, <2>1 DEF Kill, TypeOK
<1>10. ASSUME NEW w \in Waiter, StartServe(w) PROVE TypeOK'
    <2>1. wait' \in [Waiter -> WaitState]
        BY <1>10, GoesTyped DEF StartServe, WaitState
    <2> QED BY <1>10, <2>1 DEF StartServe, Starts, TypeOK
<1>11. ASSUME NEW w \in Waiter, StopServe(w) PROVE TypeOK'
    <2>1. AfterServe(wait[w].got) \in WaitState
        BY <1>a, Records DEF AfterServe, WaitState
    <2>2. wait' \in [Waiter -> WaitState]
        BY <1>11, <2>1 DEF StopServe, TypeOK
    <2> QED BY <1>11, <2>2 DEF StopServe, TypeOK
<1>12. ASSUME NEW w \in Waiter, NEW j \in Joiner, LocalPair(j, w) PROVE TypeOK'
    <2> DEFINE m == NewMaster(NewRequest(j))
    <2>1. m \in Master
        BY <1>a
    <2>2. /\ Goes(w, "serving", {m}) /\ answered' = answered \cup {m}
          /\ peer' \in {peer, Stored(peer, j, m)}
        BY <1>12 DEF LocalPair
    <2> HIDE DEF m
    <2>3. wait' \in [Waiter -> WaitState] /\ answered' \subseteq Master
        BY <2>1, <2>2, GoesTyped DEF WaitState, TypeOK
    <2>4. peer' \in [Joiner -> SUBSET Master]
        BY <1>b, <2>1, <2>2 DEF TypeOK
    <2>5. /\ attempts' \in [Joiner -> Nat] /\ replies' \in Nat
          /\ UNCHANGED <<mode, session, polling, pending, shown, contact, waits, faults>>
        BY <1>12 DEF LocalPair, CountRequest, CountReply, TypeOK
    <2> QED BY <2>3, <2>4, <2>5 DEF TypeOK
<1>13. ASSUME NEW j \in Joiner, Accept(j) PROVE TypeOK'
    <2>1. session' \in Session /\ session'.there
          /\ (session'.consumed <=> session'.response # {})
        BY <1>13, <1>a, SessionTyped DEF Accept, TypeOK, PostRequest
    <2>2. polling' \in [Joiner -> SUBSET Request]
        BY <1>13, <1>a DEF Accept, TypeOK, PostRequest
    <2> QED BY <1>13, <2>1, <2>2 DEF Accept, CountRequest, TypeOK, PostRequest
<1>14. ASSUME NEW j \in Joiner, PollResponse(j) PROVE TypeOK'
    <2>1. PICK q \in polling[j], m \in Response :
             peer' = IF TranscriptMatches(q, m) THEN Stored(peer, j, JoinerMaster(q, m)) ELSE peer
        BY <1>14 DEF PollResponse, Completed
    <2>2. q \in Request /\ m \in Master
        BY <1>a DEF Response
    <2>3. peer' \in [Joiner -> SUBSET Master]
        <3>1. CASE TranscriptMatches(q, m)
            BY <1>b, <2>1, <2>2, <3>1, SameMaster
        <3>2. CASE ~ TranscriptMatches(q, m)
            BY <2>1, <3>2 DEF TypeOK
        <3> QED BY <3>1, <3>2
    <2>4. polling' \in [Joiner -> SUBSET Request]
        BY <1>14 DEF PollResponse, TypeOK, Completed
    <2> QED BY <1>14, <2>3, <2>4 DEF PollResponse, TypeOK, Completed
<1>15. ASSUME NEW j \in Joiner, StopAccept(j) PROVE TypeOK'
    BY <1>15 DEF StopAccept, TypeOK
<1>16. ASSUME NEW j \in Joiner, JoinerStart(j) PROVE TypeOK'
    <2>1. /\ pending' \in [Joiner -> SUBSET Request]
          /\ shown' \in [req : SUBSET Request, resp : SUBSET Master]
        BY <1>16, <1>a DEF JoinerStart, TypeOK, ShownRequest
    <2> QED BY <1>16, <2>1 DEF JoinerStart, CountRequest, TypeOK, ShownRequest
<1>17. ASSUME NEW j \in Joiner, JoinerFinish(j) PROVE TypeOK'
    <2>1. PICK q \in pending[j], m \in shown.resp :
            TranscriptMatches(q, m) /\ peer' = Stored(peer, j, JoinerMaster(q, m))
        BY <1>17 DEF JoinerFinish, Finished, Completed
    <2>2. peer' \in [Joiner -> SUBSET Master]
        <3>1. q \in Request /\ m \in Master
            BY <1>a
        <3> QED BY <1>b, <2>1, <3>1, SameMaster
    <2>3. pending' \in [Joiner -> SUBSET Request]
        BY <1>17 DEF JoinerFinish, TypeOK, Finished, Completed
    <2> QED BY <1>17, <2>2, <2>3 DEF JoinerFinish, TypeOK, Finished, Completed
<1>18. CASE UNCHANGED vars
    BY <1>18 DEF TypeOK
<1> QED BY <1>1, <1>2, <1>3, <1>4, <1>5, <1>6, <1>7, <1>8, <1>9, <1>10, <1>11, <1>12, <1>13,
           <1>14, <1>15, <1>16, <1>17, <1>18 DEF Next

LEMMA TypesAtInit == Init => TypeOK
BY Records DEF Init, TypeOK, NoSession, Session

\* Every part of the state keeps its type, the consistency of the relay's row
\* included (store_response sets response and consumed together).
THEOREM TypeCorrect == Spec => []TypeOK
BY TypesAtInit, TypesKept, PTL DEF Spec

-----------------------------------------------------------------------------
(* The first answer stands *)

\* Of the waiting commands that answer one invite only the first is heard, as
\* long as the relay keeps the session (store_response).
THEOREM FirstAnswerStands == Spec => AnswerFinal
<1>1. TypeOK /\ [Next]_vars
        => [session.consumed =>
              (session' = NoSession \/ session'.response = session.response)]_vars
    <2> SUFFICES ASSUME TypeOK, [Next]_vars, session.consumed
                 PROVE  session' = NoSession \/ session'.response = session.response
        OBVIOUS
    <2>1. CASE Age
        BY <2>1 DEF Age, TypeOK, Session
    <2>2. CASE Sweep
        BY <2>2 DEF Sweep
    <2>3. CASE ~ Age /\ ~ Sweep
        BY <2>3
        DEF Next, InviterRespond, StartWait, MayRegister, PollRequest, PollTimeout, PostResponse,
            MayAnswer, SaveContact, Kill, StartServe, StopServe, LocalPair, Accept, PollResponse,
            StopAccept, JoinerStart, JoinerFinish, vars,
            PostRequest, Completed, ShownRequest, ShownResponse, Finished
    <2> QED BY <2>1, <2>2, <2>3
<1> QED BY <1>1, TypesAtInit, TypesKept, PTL DEF Spec, AnswerFinal

-----------------------------------------------------------------------------
(* The masters of the two ends *)

\* What an end stored, or can come to store, is an answer that was given out,
\* to a request of that joiner.
StoredAnswers ==
    /\ \A j \in Joiner : /\ \A m \in contact[j] \cup peer[j] : m \in answered /\ m.req.joiner = j
                         /\ \A q \in polling[j] \cup pending[j] : q.joiner = j
    /\ session.response \cup shown.resp \subseteq answered
    /\ \A w \in Waiter : wait[w].pc \in {"saving", "serving"} => wait[w].got \subseteq answered
    /\ IsFiniteSet(answered)

\* Nobody keeps two.
SingleAnswers ==
    /\ \A j \in Joiner : /\ \A m, n \in contact[j] : m = n
                         /\ \A m, n \in peer[j] : m = n
    /\ \A w \in Waiter : \A m, n \in wait[w].got : m = n

AnswerInv == StoredAnswers /\ SingleAnswers

\* An answer given out is stored by the inviter, or is about to be, unless a
\* process was killed.
AnswersKept ==
    faults = 0 => \A m \in answered :
        \/ contact[m.req.joiner] # {}
        \/ \E w \in Waiter : \E n \in wait[w].got :
             wait[w].pc \in {"saving", "serving"} /\ n.req.joiner = m.req.joiner

\* What a command that goes on has, and what the others have.
LEMMA WaitFacts ==
    ASSUME TypeOK, NEW w \in Waiter, NEW pc, NEW got, Goes(w, pc, got)
    PROVE  /\ wait'[w].pc = pc /\ wait'[w].got = got
           /\ \A v \in Waiter : v # w => wait'[v] = wait[v]
BY DEF Goes, TypeOK

\* The part of AnswerInv about the inviter's commands.
CommandAnswers ==
    \A w \in Waiter :
        /\ wait[w].pc \in {"saving", "serving"} => wait[w].got \subseteq answered
        /\ \A m, n \in wait[w].got : m = n

\* A command that goes on with nothing, or with one master, an answer if it has
\* been given out.
LEMMA CommandGoes ==
    ASSUME TypeOK, AnswerInv, NEW w \in Waiter, NEW pc, NEW got, Goes(w, pc, got),
           answered \subseteq answered', \A m, n \in got : m = n,
           pc \in {"saving", "serving"} => got \subseteq answered'
    PROVE  CommandAnswers'
<1>1. \A v \in Waiter : v # w => wait'[v] = wait[v]
    BY WaitFacts
<1>2. wait'[w].pc = pc /\ wait'[w].got = got
    BY WaitFacts
<1>3. ASSUME NEW v \in Waiter
      PROVE  /\ wait'[v].pc \in {"saving", "serving"} => wait'[v].got \subseteq answered'
             /\ \A m, n \in wait'[v].got : m = n
    BY <1>1, <1>2 DEF AnswerInv, StoredAnswers, SingleAnswers
<1> QED BY <1>3 DEF CommandAnswers

\* What the steps keep that store no contact.
LEMMA AnswersStay ==
    ASSUME AnswerInv, CommandAnswers', UNCHANGED <<contact, peer>>, answered \subseteq answered',
           IsFiniteSet(answered'),
           session'.response \subseteq answered', shown'.resp \subseteq answered',
           \A j \in Joiner : \A q \in polling'[j] \cup pending'[j] : q.joiner = j
    PROVE  AnswerInv'
<1>1. StoredAnswers'
    BY DEF AnswerInv, StoredAnswers, CommandAnswers
<1>2. SingleAnswers'
    BY DEF AnswerInv, SingleAnswers, CommandAnswers
<1> QED BY <1>1, <1>2 DEF AnswerInv

\* The inviter stores its contact with an answer it gives out, or has.
LEMMA ContactStored ==
    ASSUME TypeOK, AnswerInv, CommandAnswers', NEW m \in Master, m \in answered',
           contact' = Stored(contact, m.req.joiner, m), peer' = peer,
           answered \subseteq answered', IsFiniteSet(answered'),
           session'.response \subseteq answered', shown'.resp \subseteq answered',
           UNCHANGED <<polling, pending>>
    PROVE  AnswerInv'
<1>1. m.req.joiner \in Joiner
    BY DEF Master, Request
<1>2. \A i \in Joiner : contact'[i] = IF i = m.req.joiner THEN {m} ELSE contact[i]
    BY <1>1 DEF Stored, TypeOK
<1>3. StoredAnswers'
    <2>1. \A i \in Joiner : \A n \in contact'[i] \cup peer'[i] : n \in answered' /\ n.req.joiner = i
        BY <1>2 DEF AnswerInv, StoredAnswers
    <2> QED BY <2>1 DEF AnswerInv, StoredAnswers, CommandAnswers
<1>4. SingleAnswers'
    BY <1>2 DEF AnswerInv, SingleAnswers, CommandAnswers
<1> QED BY <1>3, <1>4 DEF AnswerInv

\* The joiner stores the contact with an answer to its request.
LEMMA PeerStored ==
    ASSUME TypeOK, AnswerInv, CommandAnswers', NEW m \in Master, m \in answered',
           NEW j \in Joiner, m.req.joiner = j,
           peer' = peer \/ peer' = Stored(peer, j, m), contact' = contact,
           answered \subseteq answered', IsFiniteSet(answered'),
           UNCHANGED <<session, shown>>,
           \A i \in Joiner : \A q \in polling'[i] \cup pending'[i] : q.joiner = i
    PROVE  AnswerInv'
<1>1. \A i \in Joiner : peer'[i] = peer[i] \/ (i = j /\ peer'[i] = {m})
    BY DEF Stored, TypeOK
<1>2. StoredAnswers'
    <2>1. \A i \in Joiner : \A n \in contact'[i] \cup peer'[i] : n \in answered' /\ n.req.joiner = i
        BY <1>1 DEF AnswerInv, StoredAnswers
    <2> QED BY <2>1 DEF AnswerInv, StoredAnswers, CommandAnswers
<1>3. SingleAnswers'
    BY <1>1 DEF AnswerInv, SingleAnswers, CommandAnswers
<1> QED BY <1>2, <1>3 DEF AnswerInv

\* One more answer is given out.
LEMMA AnswerAdded ==
    ASSUME AnswerInv, NEW m, answered' = answered \cup {m}
    PROVE  answered \subseteq answered' /\ m \in answered' /\ IsFiniteSet(answered')
BY FS_AddElement DEF AnswerInv, StoredAnswers

LEMMA AnswerStep == TypeOK /\ AnswerInv /\ [Next]_vars => AnswerInv'
<1> SUFFICES ASSUME TypeOK, AnswerInv, [Next]_vars PROVE AnswerInv'
    OBVIOUS
<1>a. /\ IsFiniteSet(answered) /\ session.response \subseteq answered
      /\ shown.resp \subseteq answered
      /\ \A j \in Joiner : \A q \in polling[j] \cup pending[j] : q.joiner = j
      /\ CommandAnswers /\ \A w \in Waiter : \A m, n \in wait[w].got : m = n
    BY DEF AnswerInv, StoredAnswers, SingleAnswers, CommandAnswers
<1>b. UNCHANGED <<wait, answered>> => CommandAnswers'
    BY <1>a DEF CommandAnswers
<1>c. /\ \A j \in Joiner : NewRequest(j) \in Request /\ NewRequest(j).joiner = j
      /\ \A q \in Request : NewMaster(q) \in Master /\ NewMaster(q).req = q
    BY NewKeys
<1>d. /\ shown.req \subseteq Request /\ shown.resp \subseteq Master
      /\ session.response \subseteq Master
      /\ \A w \in Waiter : wait[w].got \subseteq Master
      /\ \A j \in Joiner : polling[j] \subseteq Request /\ pending[j] \subseteq Request
    BY DEF TypeOK, Session, WaitState
<1>1. CASE Age \/ Sweep
    <2>1. session'.response \subseteq session.response
        BY <1>1 DEF Age, Sweep, NoSession, TypeOK, Session
    <2>2. UNCHANGED <<wait, polling, pending, shown, contact, peer, answered>>
        BY <1>1 DEF Age, Sweep
    <2> QED BY <1>a, <1>b, <2>1, <2>2, AnswersStay
<1>2. CASE InviterRespond
    <2>1. PICK q \in shown.req :
            /\ contact' = Stored(contact, q.joiner, NewMaster(q))
            /\ shown' \in {shown, [shown EXCEPT !.resp = @ \cup {NewMaster(q)}]}
            /\ answered' = answered \cup {NewMaster(q)}
            /\ UNCHANGED <<session, wait, polling, pending, peer>>
        BY <1>2 DEF InviterRespond, ShownResponse
    <2> DEFINE m == NewMaster(q)
    <2>2. m \in Master /\ m.req = q
        BY <1>c, <1>d
    <2>3. /\ contact' = Stored(contact, m.req.joiner, m) /\ answered' = answered \cup {m}
          /\ shown'.resp \subseteq shown.resp \cup {m}
        BY <2>1, <2>2 DEF TypeOK
    <2> HIDE DEF m
    <2>4. answered \subseteq answered' /\ m \in answered' /\ IsFiniteSet(answered')
        BY <2>3, AnswerAdded
    <2>5. CommandAnswers'
        BY <1>a, <2>1, <2>4 DEF CommandAnswers
    <2>6. session'.response \subseteq answered' /\ shown'.resp \subseteq answered'
        BY <1>a, <2>1, <2>3, <2>4
    <2> QED BY <2>1, <2>2, <2>3, <2>4, <2>5, <2>6, ContactStored
<1>3. ASSUME NEW w \in Waiter, StartWait(w) \/ PollTimeout(w) \/ Kill(w) \/ StartServe(w)
      PROVE  AnswerInv'
    <2>1. PICK pc : Goes(w, pc, {})
        BY <1>3 DEF StartWait, PollTimeout, Kill, StartServe
    <2>2. /\ UNCHANGED <<polling, pending, shown, contact, peer, answered>>
          /\ session' = session \/ session' = Opened({})
        BY <1>3 DEF StartWait, PollTimeout, Kill, StartServe
    <2>3. session'.response \subseteq answered'
        BY <1>a, <2>2 DEF Opened, NoSession
    <2>4. CommandAnswers'
        BY <2>1, <2>2, CommandGoes
    <2> QED BY <1>a, <2>2, <2>3, <2>4, AnswersStay
<1>4. ASSUME NEW w \in Waiter, PollRequest(w) PROVE AnswerInv'
    <2>1. PICK m : Goes(w, "replying", {m})
        BY <1>4 DEF PollRequest
    <2>2. UNCHANGED <<session, polling, pending, shown, contact, peer, answered>>
        BY <1>4 DEF PollRequest
    <2>3. CommandAnswers'
        BY <2>1, <2>2, CommandGoes
    <2> QED BY <1>a, <2>2, <2>3, AnswersStay
<1>5. ASSUME NEW w \in Waiter, PostResponse(w) PROVE AnswerInv'
    <2>1. UNCHANGED <<polling, pending, shown, contact, peer>>
        BY <1>5 DEF PostResponse
    <2>2. CASE MayAnswer
        <3>1. PICK m \in wait[w].got : /\ session' = ResponseStored(m)
                                       /\ answered' = answered \cup {m}
                                       /\ Goes(w, "saving", {m})
            BY <1>5, <2>2 DEF PostResponse
        <3>2. answered \subseteq answered' /\ m \in answered' /\ IsFiniteSet(answered')
            BY <3>1, AnswerAdded
        <3>3. CommandAnswers'
            BY <3>1, <3>2, CommandGoes
        <3>4. session'.response = {m}
            BY <1>d, <3>1, SessionTyped
        <3> QED BY <1>a, <2>1, <3>2, <3>3, <3>4, AnswersStay
    <2>3. CASE ~ MayAnswer
        <3>1. Goes(w, "idle", {}) /\ UNCHANGED <<session, answered>>
            BY <1>5, <2>3 DEF PostResponse
        <3>2. CommandAnswers'
            BY <3>1, CommandGoes
        <3> QED BY <1>a, <2>1, <3>1, <3>2, AnswersStay
    <2> QED BY <2>2, <2>3
<1>6. ASSUME NEW w \in Waiter, SaveContact(w) PROVE AnswerInv'
    <2>1. PICK m \in wait[w].got : contact' = Stored(contact, m.req.joiner, m)
        BY <1>6 DEF SaveContact
    <2>2. /\ Goes(w, "idle", {}) /\ wait[w].pc = "saving"
          /\ UNCHANGED <<session, polling, pending, shown, peer, answered>>
        BY <1>6 DEF SaveContact
    <2>3. m \in Master /\ m \in answered
        BY <1>a, <1>d, <2>2 DEF CommandAnswers
    <2>4. CommandAnswers'
        BY <2>2, CommandGoes
    <2> QED BY <1>a, <2>1, <2>2, <2>3, <2>4, ContactStored
<1>7. ASSUME NEW w \in Waiter, StopServe(w) PROVE AnswerInv'
    <2>1. /\ wait[w].pc = "serving" /\ wait' = [wait EXCEPT ![w] = AfterServe(wait[w].got)]
          /\ UNCHANGED <<session, polling, pending, shown, contact, peer, answered>>
        BY <1>7 DEF StopServe
    <2>2. \A v \in Waiter : wait'[v] = IF v = w THEN AfterServe(wait[w].got) ELSE wait[v]
        BY <2>1 DEF TypeOK
    <2>3. AfterServe(wait[w].got).got = wait[w].got
        BY DEF AfterServe, Idle
    <2>4. CommandAnswers'
        BY <1>a, <2>1, <2>2, <2>3 DEF CommandAnswers
    <2> QED BY <1>a, <2>1, <2>4, AnswersStay
<1>8. ASSUME NEW w \in Waiter, NEW j \in Joiner, LocalPair(j, w) PROVE AnswerInv'
    <2> DEFINE m == NewMaster(NewRequest(j))
    <2>1. m \in Master /\ m.req.joiner = j
        BY <1>c
    <2>2. /\ Goes(w, "serving", {m}) /\ answered' = answered \cup {m}
          /\ peer' = peer \/ peer' = Stored(peer, j, m)
          /\ UNCHANGED <<session, polling, pending, shown, contact>>
        BY <1>8 DEF LocalPair
    <2> HIDE DEF m
    <2>3. answered \subseteq answered' /\ m \in answered' /\ IsFiniteSet(answered')
        BY <2>2, AnswerAdded
    <2>4. CommandAnswers'
        BY <2>2, <2>3, CommandGoes
    <2> QED BY <1>a, <2>1, <2>2, <2>3, <2>4, PeerStored
<1>9. ASSUME NEW j \in Joiner, Accept(j) PROVE AnswerInv'
    <2>1. /\ polling' = [polling EXCEPT ![j] = {NewRequest(j)}]
          /\ session' = RequestStored(NewRequest(j))
          /\ UNCHANGED <<wait, pending, shown, contact, peer, answered>>
        BY <1>9 DEF Accept, PostRequest
    <2>2. session'.response \subseteq session.response
        BY <1>c, <2>1, SessionTyped DEF TypeOK
    <2>3. \A i \in Joiner : \A q \in polling'[i] \cup pending'[i] : q.joiner = i
        BY <1>a, <1>c, <2>1 DEF TypeOK
    <2> QED BY <1>a, <1>b, <2>1, <2>2, <2>3, AnswersStay
<1>10. ASSUME NEW j \in Joiner, PollResponse(j) PROVE AnswerInv'
    <2>1. PICK q \in polling[j], m \in Response :
             peer' = IF TranscriptMatches(q, m) THEN Stored(peer, j, JoinerMaster(q, m)) ELSE peer
        BY <1>10 DEF PollResponse, Completed
    <2>2. /\ polling' = [polling EXCEPT ![j] = {}]
          /\ UNCHANGED <<session, wait, pending, shown, contact, answered>>
        BY <1>10 DEF PollResponse, Completed
    <2>3. q \in Request /\ q.joiner = j /\ m \in Master /\ m \in answered
        BY <1>a, <1>d DEF Response
    <2>4. \A i \in Joiner : \A r \in polling'[i] \cup pending'[i] : r.joiner = i
        BY <1>a, <2>2 DEF TypeOK
    <2>5. CASE TranscriptMatches(q, m)
        <3>1. m.req.joiner = j /\ peer' = Stored(peer, j, m)
            BY <2>1, <2>3, <2>5, SameMaster DEF TranscriptMatches
        <3> QED BY <1>a, <1>b, <2>2, <2>3, <2>4, <3>1, PeerStored
    <2>6. CASE ~ TranscriptMatches(q, m)
        BY <1>a, <1>b, <2>1, <2>2, <2>4, <2>6, AnswersStay
    <2> QED BY <2>5, <2>6
<1>11. ASSUME NEW j \in Joiner, StopAccept(j) \/ JoinerStart(j) PROVE AnswerInv'
    <2>1. /\ UNCHANGED <<session, wait, contact, peer, answered>> /\ shown'.resp = shown.resp
        BY <1>11 DEF StopAccept, JoinerStart, TypeOK, ShownRequest
    <2>2. \A i \in Joiner : \A q \in polling'[i] \cup pending'[i] : q.joiner = i
        <3>1. CASE StopAccept(j)
            BY <1>a, <3>1 DEF StopAccept, TypeOK
        <3>2. CASE JoinerStart(j)
            <4>1. polling' = polling /\ pending' = [pending EXCEPT ![j] = {NewRequest(j)}]
                BY <3>2 DEF JoinerStart, ShownRequest
            <4> QED BY <1>a, <1>c, <4>1 DEF TypeOK
        <3> QED BY <1>11, <3>1, <3>2
    <2> QED BY <1>a, <1>b, <2>1, <2>2, AnswersStay
<1>12. ASSUME NEW j \in Joiner, JoinerFinish(j) PROVE AnswerInv'
    <2>1. PICK q \in pending[j], m \in shown.resp :
            TranscriptMatches(q, m) /\ peer' = Stored(peer, j, JoinerMaster(q, m))
        BY <1>12 DEF JoinerFinish, Finished, Completed
    <2>2. /\ UNCHANGED <<session, wait, polling, shown, contact, answered>>
          /\ pending' = pending \/ pending' = [pending EXCEPT ![j] = {}]
        BY <1>12 DEF JoinerFinish, Finished, Completed
    <2>3. q \in Request /\ q.joiner = j /\ m \in Master /\ m \in answered
        BY <1>a, <1>d
    <2>4. \A i \in Joiner : \A r \in polling'[i] \cup pending'[i] : r.joiner = i
        BY <1>a, <2>2 DEF TypeOK
    <2>5. m.req.joiner = j /\ peer' = Stored(peer, j, m)
        BY <2>1, <2>3, SameMaster DEF TranscriptMatches
    <2> QED BY <1>a, <1>b, <2>2, <2>3, <2>4, <2>5, PeerStored
<1>13. CASE UNCHANGED vars
    BY <1>a, <1>b, <1>13, AnswersStay DEF vars
<1> QED BY <1>1, <1>2, <1>3, <1>4, <1>5, <1>6, <1>7, <1>8, <1>9, <1>10, <1>11, <1>12, <1>13
        DEF Next

LEMMA AnswerInit == Init => AnswerInv
BY FS_EmptySet
DEF Init, AnswerInv, StoredAnswers, SingleAnswers, NoSession, Idle

\* Two ends that hold different masters were given two answers: one answer, read
\* late, by another attempt or after a race, never splits them
\* (joiner_complete_pairing, inviter_wait_on_relay).
THEOREM OneAnswerAgrees == Spec => []AgreeOnSingleAnswer
<1>1. AnswerInv => AgreeOnSingleAnswer
    <2> SUFFICES ASSUME AnswerInv, NEW j \in Joiner, Disagree(j)
                 PROVE  Cardinality({m \in answered : m.req.joiner = j}) > 1
        BY DEF AgreeOnSingleAnswer
    <2> DEFINE S == {m \in answered : m.req.joiner = j}
    <2>1. PICK a \in contact[j], b \in peer[j] : a # b
        BY DEF Disagree, AnswerInv, SingleAnswers
    <2>2. {a, b} \subseteq S
        BY <2>1 DEF AnswerInv, StoredAnswers
    <2>3. IsFiniteSet(S)
        BY FS_Subset DEF AnswerInv, StoredAnswers
    <2> HIDE DEF S
    <2>4. Cardinality({a, b}) = 2
        <3> DEFINE A == {a}
        <3>1. IsFiniteSet(A) /\ Cardinality(A) = 1 /\ b \notin A /\ {a, b} = A \cup {b}
            BY <2>1, FS_Singleton
        <3> HIDE DEF A
        <3>2. Cardinality(A \cup {b}) = Cardinality(A) + 1
            BY <3>1, FS_AddElement
        <3> QED BY <3>1, <3>2
    <2>5. Cardinality({a, b}) <= Cardinality(S)
        BY <2>2, <2>3, FS_Subset
    <2>6. Cardinality(S) \in Nat
        BY <2>3, FS_CardinalityType
    <2>7. Cardinality(S) > 1
        BY <2>4, <2>5, <2>6
    <2> QED BY <2>7 DEF S
<1> QED BY <1>1, AnswerInit, AnswerStep, TypesAtInit, TypesKept, PTL DEF Spec

-----------------------------------------------------------------------------
(* No end is left alone *)

\* A contact or a command that has the joiner's answer.
Kept(j) ==
    \/ contact[j] # {}
    \/ \E w \in Waiter : \E n \in wait[w].got :
         wait[w].pc \in {"saving", "serving"} /\ n.req.joiner = j

\* The same after the step.
KeptNext(j) ==
    \/ contact'[j] # {}
    \/ \E w \in Waiter : \E n \in wait'[w].got :
         wait'[w].pc \in {"saving", "serving"} /\ n.req.joiner = j

\* A command that has no answer of joiner j to store goes on.
LEMMA KeptByOthers ==
    ASSUME TypeOK, NEW j \in Joiner, Kept(j), NEW w \in Waiter,
           contact' = contact, \A v \in Waiter : v # w => wait'[v] = wait[v],
           wait[w].pc \notin {"saving", "serving"} \/ wait[w].got = {}
    PROVE  KeptNext(j)
<1>1. CASE contact[j] # {}
    BY <1>1 DEF KeptNext
<1>2. CASE \E v \in Waiter : \E n \in wait[v].got :
             wait[v].pc \in {"saving", "serving"} /\ n.req.joiner = j
    <2>1. PICK v \in Waiter : \E n \in wait[v].got :
             wait[v].pc \in {"saving", "serving"} /\ n.req.joiner = j
        BY <1>2
    <2>2. wait'[v] = wait[v]
        BY <2>1
    <2> QED BY <2>1, <2>2 DEF KeptNext
<1> QED BY <1>1, <1>2 DEF Kept

\* What is kept stays kept as long as no process is killed.
LEMMA StaysKept ==
    ASSUME TypeOK, AnswerInv, [Next]_vars, faults' = 0, NEW j \in Joiner, Kept(j)
    PROVE  KeptNext(j)
<1> USE DEF vars
<1>1. CASE Age \/ Sweep \/ UNCHANGED vars
    BY <1>1 DEF Age, Sweep, Kept, KeptNext
<1>2. CASE InviterRespond
    <2>1. PICK q \in shown.req : contact' = Stored(contact, q.joiner, NewMaster(q))
        BY <1>2 DEF InviterRespond, ShownResponse
    <2>2. wait' = wait
        BY <1>2 DEF InviterRespond, ShownResponse
    <2>3. contact[j] # {} => contact'[j] # {}
        BY <2>1 DEF Stored, TypeOK
    <2> QED BY <2>2, <2>3 DEF Kept, KeptNext
<1>3. ASSUME NEW w \in Waiter,
             \/ StartWait(w) \/ PollRequest(w) \/ PollTimeout(w) \/ PostResponse(w)
             \/ StartServe(w)
      PROVE  KeptNext(j)
    <2>1. PICK pc, got : Goes(w, pc, got)
        BY <1>3 DEF StartWait, PollRequest, PollTimeout, PostResponse, StartServe
    <2>2. contact' = contact /\ wait[w].pc \notin {"saving", "serving"}
        BY <1>3 DEF StartWait, PollRequest, PollTimeout, PostResponse, StartServe, Starts, Idle
    <2>3. \A v \in Waiter : v # w => wait'[v] = wait[v]
        BY <2>1, WaitFacts
    <2> QED BY <2>2, <2>3, KeptByOthers
<1>4. ASSUME NEW w \in Waiter, SaveContact(w) PROVE KeptNext(j)
    <2>1. PICK m \in wait[w].got : contact' = Stored(contact, m.req.joiner, m)
        BY <1>4 DEF SaveContact
    <2>2. m \in Master /\ m.req.joiner \in Joiner
        BY <2>1 DEF TypeOK, WaitState, Master, Request
    <2>3. \A i \in Joiner : contact'[i] = IF i = m.req.joiner THEN {m} ELSE contact[i]
        BY <2>1, <2>2 DEF Stored, TypeOK
    <2>4. CASE contact'[j] # {}
        BY <2>4 DEF KeptNext
    <2>5. CASE contact'[j] = {}
        <3>1. contact[j] = {} /\ j # m.req.joiner
            BY <2>3, <2>5
        <3>2. PICK v \in Waiter : \E n \in wait[v].got :
                 wait[v].pc \in {"saving", "serving"} /\ n.req.joiner = j
            BY <3>1 DEF Kept
        <3>3. v # w
            BY <2>1, <3>1, <3>2 DEF AnswerInv, SingleAnswers
        <3>4. wait'[v] = wait[v]
            BY <1>4, <3>3 DEF SaveContact, Goes, TypeOK
        <3> QED BY <3>2, <3>4 DEF KeptNext
    <2> QED BY <2>4, <2>5
<1>5. ASSUME NEW w \in Waiter, Kill(w) PROVE KeptNext(j)
    BY <1>5 DEF Kill, TypeOK
<1>6. ASSUME NEW w \in Waiter, StopServe(w) PROVE KeptNext(j)
    <2>1. /\ contact' = contact
          /\ \A v \in Waiter : wait'[v] = IF v = w THEN AfterServe(wait[w].got) ELSE wait[v]
        BY <1>6 DEF StopServe, TypeOK
    <2>2. wait[w].got # {} => /\ AfterServe(wait[w].got).got = wait[w].got
                              /\ AfterServe(wait[w].got).pc = "saving"
        BY DEF AfterServe
    <2> QED BY <2>1, <2>2 DEF Kept, KeptNext
<1>7. ASSUME NEW w \in Waiter, NEW i \in Joiner, LocalPair(i, w) PROVE KeptNext(j)
    <2>1. PICK got : Goes(w, "serving", got)
        BY <1>7 DEF LocalPair
    <2>2. contact' = contact /\ wait[w].got = {}
        BY <1>7 DEF LocalPair
    <2>3. \A v \in Waiter : v # w => wait'[v] = wait[v]
        BY <2>1, WaitFacts
    <2> QED BY <2>2, <2>3, KeptByOthers
<1>8. ASSUME NEW i \in Joiner, Accept(i) \/ PollResponse(i) \/ StopAccept(i) \/ JoinerStart(i)
                               \/ JoinerFinish(i)
      PROVE  KeptNext(j)
    BY <1>8 DEF Accept, PollResponse, StopAccept, JoinerStart, JoinerFinish, Kept, KeptNext,
        PostRequest, Completed, ShownRequest, Finished
<1> QED BY <1>1, <1>2, <1>3, <1>4, <1>5, <1>6, <1>7, <1>8 DEF Next

\* An answer that the step gives out is kept.
LEMMA NewAnswerKept ==
    ASSUME TypeOK, [Next]_vars, NEW m \in answered', m \notin answered
    PROVE  KeptNext(m.req.joiner)
<1> USE DEF vars
<1>1. CASE InviterRespond
    <2>1. PICK q \in shown.req : /\ contact' = Stored(contact, q.joiner, NewMaster(q))
                                 /\ answered' = answered \cup {NewMaster(q)}
        BY <1>1 DEF InviterRespond, ShownResponse
    <2>2. q \in Request /\ m = NewMaster(q)
        BY <2>1 DEF TypeOK
    <2>3. m.req = q /\ q.joiner \in Joiner
        BY <2>2, NewKeys DEF Request
    <2>4. contact'[q.joiner] # {}
        BY <2>1, <2>3 DEF Stored, TypeOK
    <2> QED BY <2>3, <2>4 DEF KeptNext
<1>2. ASSUME NEW w \in Waiter, PostResponse(w) PROVE KeptNext(m.req.joiner)
    <2>1. PICK n \in wait[w].got : answered' = answered \cup {n} /\ Goes(w, "saving", {n})
        BY <1>2 DEF PostResponse
    <2>2. n = m
        BY <2>1
    <2>3. wait'[w].pc = "saving" /\ wait'[w].got = {m}
        BY <2>1, <2>2, WaitFacts
    <2> QED BY <2>3 DEF KeptNext
<1>3. ASSUME NEW w \in Waiter, NEW j \in Joiner, LocalPair(j, w) PROVE KeptNext(m.req.joiner)
    <2>1. /\ Goes(w, "serving", {NewMaster(NewRequest(j))})
          /\ answered' = answered \cup {NewMaster(NewRequest(j))}
        BY <1>3 DEF LocalPair
    <2>2. m = NewMaster(NewRequest(j))
        BY <2>1
    <2>3. wait'[w].pc = "serving" /\ wait'[w].got = {m}
        BY <2>1, <2>2, WaitFacts
    <2> QED BY <2>3 DEF KeptNext
<1>4. CASE ~ (InviterRespond \/ \E w \in Waiter : PostResponse(w)
                             \/ \E j \in Joiner : LocalPair(j, w))
    <2>1. answered' = answered
        BY <1>4 DEF Next, Age, Sweep, StartWait, PollRequest, PollTimeout, SaveContact, Kill,
                    StartServe, StopServe, Accept, PollResponse, StopAccept, JoinerStart,
                    JoinerFinish, PostRequest, Completed, ShownRequest, Finished
    <2> QED BY <2>1
<1> QED BY <1>1, <1>2, <1>3, <1>4

LEMMA KeptStep == TypeOK /\ AnswerInv /\ AnswersKept /\ [Next]_vars => AnswersKept'
<1> SUFFICES ASSUME TypeOK, AnswerInv, AnswersKept, [Next]_vars, faults' = 0,
                    NEW m \in answered'
             PROVE  KeptNext(m.req.joiner)
    BY DEF AnswersKept, KeptNext
<1>1. faults = 0
    <2>1. ASSUME NEW w \in Waiter, Kill(w) PROVE FALSE
        BY <2>1 DEF Kill, TypeOK
    <2>2. CASE ~ \E w \in Waiter : Kill(w)
        <3>1. faults' = faults
            BY <2>2 DEF Next, vars, Age, Sweep, InviterRespond, StartWait, PollRequest,
                PollTimeout, PostResponse, SaveContact, StartServe, StopServe, LocalPair,
                Accept, PollResponse, StopAccept, JoinerStart, JoinerFinish,
                PostRequest, Completed, ShownRequest, ShownResponse, Finished
        <3> QED BY <3>1
    <2> QED BY <2>1, <2>2
<1>2. CASE m \in answered
    <2>1. Kept(m.req.joiner) /\ m.req.joiner \in Joiner
        BY <1>1, <1>2 DEF AnswersKept, Kept, TypeOK, Master, Request
    <2> QED BY <2>1, StaysKept
<1>3. CASE m \notin answered
    BY <1>3, NewAnswerKept
<1> QED BY <1>2, <1>3

\* A joiner that stored the contact finds the inviter with it, or about to store
\* it, unless a process of the inviter was killed: neither a race of waiting
\* commands, a deadline nor a sweep leaves it alone (inviter_wait_on_relay,
\* create_rendezvous_app, inviter-respond).
THEOREM NoEndLeftAlone == Spec => []NoSilentHalfPairing
<1>1. AnswerInv /\ AnswersKept => NoSilentHalfPairing
    <2> SUFFICES ASSUME AnswerInv, AnswersKept, NEW j \in Joiner, peer[j] # {}, faults = 0
                 PROVE  Kept(j)
        BY DEF NoSilentHalfPairing, Kept
    <2>1. PICK m \in peer[j] : m \in answered /\ m.req.joiner = j
        BY DEF AnswerInv, StoredAnswers
    <2> QED BY <2>1 DEF AnswersKept, Kept
<1>2. Init => AnswersKept
    BY DEF Init, AnswersKept
<1> QED BY <1>1, <1>2, AnswerInit, AnswerStep, KeptStep, TypesAtInit, TypesKept, PTL DEF Spec
=============================================================================
