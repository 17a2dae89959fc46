------------------------ MODULE OscoreExchange_proofs ------------------------
(***************************************************************************)
(* For any number of pairs of ends, any width of the windows, any terminal *)
(* number, any number of restarts and any forged messages: no key encrypts *)
(* twice with one nonce, and the exchange keeps the promise of             *)
(* RequestResponse.                                                        *)
(***************************************************************************)
EXTENDS OscoreExchange, ReplayWindow_proofs

Pivs == Numbers \cup {NoPiv}

Issued == {[client |-> m.kid, number |-> m.piv] : m \in {s \in sent : s.kid # NoKid}}

AnswerOf(e, n, piv) == [request |-> [client |-> Peer[e], number |-> n], piv |-> piv]

\* A nonce holds its sender's ID and a number dealt before, or the ID of the
\* other end and the number of a request whose answer the window remembers.
\* After a restart the window may not; then no such nonce is used again.
NoncesBehind ==
  \A m \in sent :
    /\ m.nonce[1] \in {m.key, Peer[m.key]} /\ m.nonce[2] \in Numbers
    /\ m.nonce[1] = m.key => m.nonce[2] < next_sequence[m.key]
    /\ m.nonce[1] = Peer[m.key] /\ allow_no_piv_response[m.key] =>
         IsReuse(replay_state[m.key].response, m.nonce[2])

\* The responses sent are those of the answers given.
AnswersSent ==
  \A e \in Endpoints, n \in Numbers, piv \in Pivs :
    ResponseMessage(e, Peer[e], n, piv) \in sent <=> AnswerOf(e, n, piv) \in answers

RefusesAnswer(windows, given) ==
  IF given.piv = NoPiv
    THEN IsReuse(windows.received_response, given.request.number)
    ELSE IsReuse(windows.received_response_piv, given.piv)

\* What was opened and waits for its acknowledgement is an answer the peer gave
\* to that request, and the windows do not refuse it: nothing moves them while
\* the PendingResponse borrows the context.
PendingSound ==
  \A e \in Endpoints :
    pending[e] # NoPending =>
      LET given == AnswerOf(Peer[e], pending[e].request, pending[e].piv)
      IN  /\ given \in answers
          /\ ~RefusesAnswer(replay_state[e], given)
          /\ pending[e].observe => pending[e].piv # NoPiv

\* What an end holds is for it, was sent, and was not acted on.
HandSound ==
  \A e \in Endpoints :
    /\ \A r \in in_hand[e] \cap Requests :
         r.client = Peer[e] /\ r \in Issued /\ served[r] = 0
    /\ \A a \in in_hand[e] \cap Answers :
         a.request.client = e /\ a \in answers /\ taken[a] = 0

\* The windows refuse what is in hand and what was acted on ...
WindowsRefuse ==
  \A e \in Endpoints :
    /\ \A r \in Requests :
         r.client = Peer[e] /\ (r \in in_hand[e] \/ served[r] # 0) =>
           IsReuse(replay_state[e].replay, r.number)
    /\ \A a \in Answers :
         a.request.client = e /\ (a \in in_hand[e] \/ taken[a] # 0) =>
           RefusesAnswer(replay_state[e], a)

\* ... and the durable record what was acted on.
StoreRefuses ==
  \A e \in Endpoints :
    /\ \A r \in Requests :
         r.client = Peer[e] /\ served[r] # 0 => IsReuse(recipient_store[e].replay, r.number)
    /\ \A a \in Answers :
         a.request.client = e /\ taken[a] # 0 => RefusesAnswer(recipient_store[e], a)

ActedOnce ==
  /\ \A r \in Requests : served[r] \in {0, 1}
  /\ \A a \in Answers : taken[a] \in {0, 1}

IInv ==
  /\ TypeOK /\ NonceNeverReused
  /\ NoncesBehind /\ AnswersSent
  /\ PendingSound /\ HandSound
  /\ WindowsRefuse /\ StoreRefuses /\ ActedOnce

-----------------------------------------------------------------------------
\* The two ends of a pair are each other's peers.
LEMMA Pairs ==
  ASSUME NEW e \in Endpoints
  PROVE  Peer[e] \in Endpoints /\ Peer[e] # e /\ Peer[Peer[e]] = e
  BY PeerAssumption

LEMMA NumbersAreNat == Numbers \subseteq Nat /\ NoPiv \notin Numbers
  BY BoundAssumption, AbsentAssumption DEF Numbers

\* The requests and answers of the promise, field by field.
LEMMA Items ==
  /\ Requests = [client : Endpoints, number : Numbers]
  /\ Answers = [request : Requests, piv : Pivs]
  BY DEF Requests, Answers, Promise!Requests, Promise!Answers, Pivs

LEMMA AnswerType ==
  ASSUME NEW e \in Endpoints, NEW n \in Numbers, NEW piv \in Pivs
  PROVE  AnswerOf(e, n, piv) \in Answers
  BY Pairs, Items DEF AnswerOf

\* Every answer has one end that gives it, and one way to be written.
LEMMA AnswerForm ==
  ASSUME NEW a \in Answers
  PROVE  /\ a.request.client \in Endpoints /\ a.request.number \in Numbers
         /\ a.piv \in Pivs /\ a.request \in Requests
         /\ AnswerOf(Peer[a.request.client], a.request.number, a.piv) = a
<1>1. /\ a.request.client \in Endpoints /\ a.request.number \in Numbers
      /\ a.piv \in Pivs /\ a.request \in Requests
  BY Items
<1>2. /\ a = [request |-> a.request, piv |-> a.piv]
      /\ a.request = [client |-> a.request.client, number |-> a.request.number]
  BY Items
<1>3. Peer[Peer[a.request.client]] = a.request.client
  BY <1>1, Pairs
<1> QED
  BY <1>1, <1>2, <1>3 DEF AnswerOf

\* Different responses are different answers, and the reverse.
LEMMA ResponsesDiffer ==
  ASSUME NEW e \in Endpoints, NEW n \in Numbers, NEW piv \in Pivs,
         NEW f \in Endpoints, NEW k \in Numbers, NEW own \in Pivs
  PROVE  /\ ResponseMessage(e, Peer[e], n, piv) = ResponseMessage(f, Peer[f], k, own) =>
              e = f /\ n = k /\ piv = own
         /\ AnswerOf(e, n, piv) = AnswerOf(f, k, own) => e = f /\ n = k /\ piv = own
<1>1. ASSUME ResponseMessage(e, Peer[e], n, piv) = ResponseMessage(f, Peer[f], k, own)
      PROVE  e = f /\ n = k /\ piv = own
  <2>1. /\ ResponseMessage(e, Peer[e], n, piv).key = ResponseMessage(f, Peer[f], k, own).key
        /\ ResponseMessage(e, Peer[e], n, piv).aad = ResponseMessage(f, Peer[f], k, own).aad
        /\ ResponseMessage(e, Peer[e], n, piv).piv = ResponseMessage(f, Peer[f], k, own).piv
    BY <1>1
  <2> QED
    BY <2>1 DEF ResponseMessage, build_aad_cbor
<1>2. ASSUME AnswerOf(e, n, piv) = AnswerOf(f, k, own)
      PROVE  e = f /\ n = k /\ piv = own
  <2>1. /\ AnswerOf(e, n, piv).request.client = AnswerOf(f, k, own).request.client
        /\ AnswerOf(e, n, piv).request.number = AnswerOf(f, k, own).request.number
        /\ AnswerOf(e, n, piv).piv = AnswerOf(f, k, own).piv
    BY <1>2
  <2>2. Peer[e] = Peer[f] /\ n = k /\ piv = own
    BY <2>1 DEF AnswerOf
  <2> QED
    BY <2>2, Pairs
<1> QED
  BY <1>1, <1>2

\* What a message's fields hold.
LEMMA RequestFields ==
  ASSUME NEW e \in Endpoints, NEW n \in Numbers
  PROVE  LET m == RequestMessage(e, n)
         IN  /\ m.key = e /\ m.kid = e /\ m.piv = n
             /\ m.nonce = <<e, n>> /\ m.nonce[1] = e /\ m.nonce[2] = n
             /\ m.aad = <<e, n>> /\ m.kid # NoKid
  BY AbsentAssumption DEF RequestMessage, compute_nonce, build_aad_cbor

LEMMA ResponseFields ==
  ASSUME NEW e \in Endpoints, NEW n \in Numbers, NEW piv \in Pivs
  PROVE  LET m == ResponseMessage(e, Peer[e], n, piv)
         IN  /\ m.key = e /\ m.kid = NoKid /\ m.piv = piv
             /\ m.aad = <<Peer[e], n>>
             /\ piv = NoPiv => m.nonce[1] = Peer[e] /\ m.nonce[2] = n
                               /\ m.nonce = <<Peer[e], n>>
             /\ piv # NoPiv => m.nonce[1] = e /\ m.nonce[2] = piv /\ m.nonce = <<e, piv>>
  BY DEF ResponseMessage, compute_nonce, build_aad_cbor

\* A message sent is the one or the other.
LEMMA SentForm ==
  ASSUME TypeOK, NEW m \in sent
  PROVE  \/ \E e \in Endpoints, n \in Numbers : m = RequestMessage(e, n)
         \/ \E e \in Endpoints, n \in Numbers, piv \in Pivs :
              m = ResponseMessage(e, Peer[e], n, piv)
<1>1. m \in Messages
  BY DEF TypeOK
<1>2. CASE m \in {RequestMessage(e, n) : e \in Endpoints, n \in Numbers}
  BY <1>2
<1>3. CASE m \in {ResponseMessage(e, Peer[e], n, piv) :
                    e \in Endpoints, n \in Numbers, piv \in Pivs}
  BY <1>3
<1> QED
  BY <1>1, <1>2, <1>3 DEF Messages, Pivs

LEMMA SentKey ==
  ASSUME TypeOK, NEW m \in sent
  PROVE  m.key \in Endpoints
<1>1. CASE \E e \in Endpoints, n \in Numbers : m = RequestMessage(e, n)
  BY <1>1, RequestFields
<1>2. CASE \E e \in Endpoints, n \in Numbers, piv \in Pivs :
             m = ResponseMessage(e, Peer[e], n, piv)
  BY <1>2, ResponseFields
<1> QED
  BY <1>1, <1>2, SentForm

-----------------------------------------------------------------------------
\* The invariant of the reachable states, kept by every action.

\* Sending disturbs only what is said about nonces and responses.
LEMMA SendFrame ==
  ASSUME PendingSound, HandSound, WindowsRefuse, StoreRefuses, ActedOnce,
         UNCHANGED <<pending, in_hand, recipient_store, served, taken>>,
         answers \subseteq answers', sent \subseteq sent',
         \A e \in Endpoints :
           /\ replay_state'[e].replay = replay_state[e].replay
           /\ replay_state'[e].received_response = replay_state[e].received_response
           /\ replay_state'[e].received_response_piv = replay_state[e].received_response_piv
  PROVE  PendingSound' /\ HandSound' /\ WindowsRefuse' /\ StoreRefuses' /\ ActedOnce'
<1>1. \A e \in Endpoints : \A a :
        RefusesAnswer(replay_state'[e], a) <=> RefusesAnswer(replay_state[e], a)
  BY DEF RefusesAnswer
<1>2. PendingSound'
  BY <1>1 DEF PendingSound
<1>3. HandSound'
  <2>1. Issued \subseteq Issued'
    BY DEF Issued
  <2> QED
    BY <2>1 DEF HandSound
<1>4. WindowsRefuse'
  BY <1>1 DEF WindowsRefuse
<1>5. StoreRefuses'
  BY DEF StoreRefuses
<1>6. ActedOnce'
  BY DEF ActedOnce
<1> QED
  BY <1>2, <1>3, <1>4, <1>5, <1>6

\* No message sent has the nonce that an end may use next, with a number just
\* dealt or with that of a request its response window lets it answer.
LEMMA NonceIsFresh ==
  ASSUME NoncesBehind, NEW e \in Endpoints, NEW m, m.key = e,
         next_sequence[e] \in Nat,
         \/ m.nonce[1] = e /\ m.nonce[2] = next_sequence[e]
         \/ /\ m.nonce[1] = Peer[e] /\ allow_no_piv_response[e]
            /\ ~IsReuse(replay_state[e].response, m.nonce[2])
  PROVE  \A s \in sent : ~(s.key = m.key /\ s.nonce = m.nonce)
<1> SUFFICES ASSUME NEW s \in sent, s.key = e, s.nonce = m.nonce PROVE FALSE
  OBVIOUS
<1>1. s.nonce[1] = m.nonce[1] /\ s.nonce[2] = m.nonce[2]
  OBVIOUS
<1> QED
  BY <1>1 DEF NoncesBehind

LEMMA ReserveType ==
  ASSUME TypeOK, NEW e \in Endpoints, reserve_sender(e)
  PROVE  /\ next_sequence[e] \in Numbers
         /\ next_sequence' \in [Endpoints -> 0 .. MAX + 1]
         /\ next_sequence'[e] = next_sequence[e] + 1
         /\ \A f \in Endpoints : next_sequence'[f] >= next_sequence[f]
  BY BoundAssumption DEF TypeOK, reserve_sender, Numbers

\* A reservation leaves every number used behind.
LEMMA ReserveKeepsBehind ==
  ASSUME TypeOK, NoncesBehind, NEW e \in Endpoints, reserve_sender(e),
         NEW m \in sent, m.nonce[1] = m.key
  PROVE  m.nonce[2] < next_sequence'[m.key]
<1>1. m.key \in Endpoints
  BY SentKey
<1>2. m.nonce[2] \in Nat /\ m.nonce[2] < next_sequence[m.key]
  BY NumbersAreNat DEF NoncesBehind
<1>3. next_sequence[m.key] \in Nat /\ next_sequence'[m.key] \in Nat
  <2>1. 0 .. MAX + 1 \subseteq Nat
    BY BoundAssumption
  <2> QED
    BY <1>1, <2>1, ReserveType DEF TypeOK
<1>4. next_sequence'[m.key] >= next_sequence[m.key]
  BY <1>1, ReserveType
<1> QED
  BY <1>2, <1>3, <1>4

LEMMA StepLoseReservation ==
  ASSUME IInv, NEW e \in Endpoints, LoseReservation(e)
  PROVE  IInv'
<1> USE DEF IInv
<1>0. /\ UNCHANGED <<replay_state, allow_no_piv_response, pending, recipient_store,
                     restarts, in_hand, sent, reencrypted, answers, served, taken>>
      /\ reserve_sender(e)
  BY DEF LoseReservation, durableVars, historyVars
<1>1. TypeOK'
  BY <1>0, ReserveType DEF TypeOK
<1>2. NonceNeverReused' /\ AnswersSent'
  BY <1>0 DEF NonceNeverReused, AnswersSent
<1>3. NoncesBehind'
  BY <1>0, ReserveKeepsBehind DEF NoncesBehind
<1>4. PendingSound' /\ HandSound' /\ WindowsRefuse' /\ StoreRefuses' /\ ActedOnce'
  BY <1>0, SendFrame
<1> QED
  BY <1>1, <1>2, <1>3, <1>4

LEMMA StepProtectRequest ==
  ASSUME IInv, NEW e \in Endpoints, ProtectRequest(e)
  PROVE  IInv'
<1> DEFINE n == next_sequence[e]
           m == RequestMessage(e, n)
<1> USE DEF IInv
<1>0. /\ UNCHANGED <<replay_state, allow_no_piv_response, pending, recipient_store,
                     restarts, in_hand, answers, served, taken>>
      /\ reserve_sender(e) /\ sent' = sent \cup {m}
      /\ reencrypted' = reencrypted \cup
           {<<s.key, s.nonce>> : s \in {x \in sent : x.key = m.key /\ x.nonce = m.nonce}}
  BY DEF ProtectRequest, Encrypt, durableVars
<1>n. n \in Numbers /\ n \in Nat /\ next_sequence'[e] = n + 1
  BY <1>0, ReserveType, NumbersAreNat
<1>f. m.key = e /\ m.kid # NoKid /\ m.nonce[1] = e /\ m.nonce[2] = n /\ Peer[e] # e
  BY <1>n, RequestFields, Pairs
<1> HIDE DEF m
<1>1. TypeOK'
  <2>1. m \in Messages
    BY <1>n DEF m, Messages
  <2> QED
    BY <1>0, <2>1, ReserveType DEF TypeOK
<1>2. NonceNeverReused'
  <2>1. \A s \in sent : ~(s.key = m.key /\ s.nonce = m.nonce)
    BY <1>n, <1>f, NonceIsFresh
  <2> QED
    BY <1>0, <2>1 DEF NonceNeverReused
<1>3. NoncesBehind'
  <2>1. ASSUME NEW s \in sent
        PROVE  s.nonce[1] = s.key => s.nonce[2] < next_sequence'[s.key]
    BY <1>0, ReserveKeepsBehind
  <2>2. m.nonce[2] < next_sequence'[m.key]
    BY <1>n, <1>f
  <2> QED
    BY <1>0, <1>n, <1>f, <2>1, <2>2 DEF NoncesBehind
<1>4. AnswersSent'
  <2>1. \A f \in Endpoints, k \in Numbers, piv \in Pivs : ResponseMessage(f, Peer[f], k, piv) # m
    BY <1>f, ResponseFields
  <2> QED
    BY <1>0, <2>1 DEF AnswersSent
<1>5. PendingSound' /\ HandSound' /\ WindowsRefuse' /\ StoreRefuses' /\ ActedOnce'
  BY <1>0, SendFrame
<1> QED
  BY <1>1, <1>2, <1>3, <1>4, <1>5

\* A response with a number of its own.
LEMMA StepProtectResponse ==
  ASSUME IInv, NEW e \in Endpoints, NEW n \in Numbers, ProtectResponse(e, n)
  PROVE  IInv'
<1> DEFINE piv == next_sequence[e]
           m == ResponseMessage(e, Peer[e], n, piv)
           a == AnswerOf(e, n, piv)
<1> USE DEF IInv
<1>0. /\ UNCHANGED <<replay_state, allow_no_piv_response, pending, recipient_store,
                     restarts, in_hand, served, taken>>
      /\ reserve_sender(e) /\ sent' = sent \cup {m} /\ answers' = answers \cup {a}
      /\ reencrypted' = reencrypted \cup
           {<<s.key, s.nonce>> : s \in {x \in sent : x.key = m.key /\ x.nonce = m.nonce}}
  BY DEF ProtectResponse, Answer, AnswerOf, Encrypt, durableVars
<1>n. /\ piv \in Numbers /\ piv \in Nat /\ piv \in Pivs /\ piv # NoPiv
      /\ next_sequence'[e] = piv + 1
  BY <1>0, ReserveType, NumbersAreNat DEF Pivs
<1>f. m.key = e /\ m.nonce[1] = e /\ m.nonce[2] = piv /\ Peer[e] # e
  BY <1>n, ResponseFields, Pairs
<1>d. \A f \in Endpoints, k \in Numbers, own \in Pivs :
        ResponseMessage(f, Peer[f], k, own) = m <=> AnswerOf(f, k, own) = a
  BY <1>n, ResponsesDiffer
<1>t. m \in Messages /\ a \in Answers
  BY <1>n, AnswerType DEF Messages
<1> HIDE DEF m, a
<1>1. TypeOK'
  BY <1>0, <1>t, ReserveType DEF TypeOK
<1>2. NonceNeverReused'
  <2>1. \A s \in sent : ~(s.key = m.key /\ s.nonce = m.nonce)
    BY <1>n, <1>f, NonceIsFresh
  <2> QED
    BY <1>0, <2>1 DEF NonceNeverReused
<1>3. NoncesBehind'
  <2>1. ASSUME NEW s \in sent
        PROVE  s.nonce[1] = s.key => s.nonce[2] < next_sequence'[s.key]
    BY <1>0, ReserveKeepsBehind
  <2>2. m.nonce[2] < next_sequence'[m.key]
    BY <1>n, <1>f
  <2> QED
    BY <1>0, <1>n, <1>f, <2>1, <2>2 DEF NoncesBehind
<1>4. AnswersSent'
  BY <1>0, <1>d DEF AnswersSent
<1>5. PendingSound' /\ HandSound' /\ WindowsRefuse' /\ StoreRefuses' /\ ActedOnce'
  BY <1>0, SendFrame
<1> QED
  BY <1>1, <1>2, <1>3, <1>4, <1>5

\* What marking a number in one window of a context does to all windows: that
\* one refuses the number and all it refused, the others stay.
LEMMA MarkWindow ==
  ASSUME NEW w \in ReplayStates, NEW n \in Nat
  PROVE  /\ Mark(w.replay, n) \in Window /\ Mark(w.response, n) \in Window
         /\ Mark(w.received_response, n) \in Window
         /\ Mark(w.received_response_piv, n) \in Window
         /\ \A k \in Nat :
              /\ IsReuse(w.replay, k) => IsReuse(Mark(w.replay, n), k)
              /\ IsReuse(w.response, k) => IsReuse(Mark(w.response, n), k)
              /\ IsReuse(w.received_response, k) => IsReuse(Mark(w.received_response, n), k)
              /\ IsReuse(w.received_response_piv, k) =>
                   IsReuse(Mark(w.received_response_piv, n), k)
         /\ IsReuse(Mark(w.replay, n), n) /\ IsReuse(Mark(w.response, n), n)
         /\ IsReuse(Mark(w.received_response, n), n)
         /\ IsReuse(Mark(w.received_response_piv, n), n)
<1>1. /\ w.replay \in Window /\ w.response \in Window
      /\ w.received_response \in Window /\ w.received_response_piv \in Window
  BY DEF ReplayStates
<1>2. ASSUME NEW v \in Window
      PROVE  IsReuse(Mark(v, n), n)
  BY MarkRefuses, MarkKeeps
<1> QED
  BY <1>1, <1>2, MarkType, MarkKeeps

LEMMA StepProtectResponseNoPiv ==
  ASSUME IInv, NEW e \in Endpoints, NEW n \in Numbers, ProtectResponseNoPiv(e, n)
  PROVE  IInv'
<1> DEFINE m == ResponseMessage(e, Peer[e], n, NoPiv)
           a == AnswerOf(e, n, NoPiv)
           w == Mark(replay_state[e].response, n)
<1> USE DEF IInv
<1>0. /\ UNCHANGED <<next_sequence, allow_no_piv_response, pending, recipient_store,
                     restarts, in_hand, served, taken>>
      /\ sent' = sent \cup {m} /\ answers' = answers \cup {a}
      /\ reencrypted' = reencrypted \cup
           {<<s.key, s.nonce>> : s \in {x \in sent : x.key = m.key /\ x.nonce = m.nonce}}
      /\ allow_no_piv_response[e] /\ ~IsReuse(replay_state[e].response, n)
      /\ replay_state' = [replay_state EXCEPT ![e].response = w]
  BY DEF ProtectResponseNoPiv, Answer, AnswerOf, Encrypt, durableVars
<1>n. NoPiv \in Pivs /\ n \in Nat /\ next_sequence[e] \in Nat
  BY NumbersAreNat, BoundAssumption DEF Pivs, TypeOK
<1>f. m.key = e /\ m.nonce[1] = Peer[e] /\ m.nonce[2] = n /\ Peer[e] # e
  BY <1>n, ResponseFields, Pairs
<1>d. \A f \in Endpoints, k \in Numbers, own \in Pivs :
        ResponseMessage(f, Peer[f], k, own) = m <=> AnswerOf(f, k, own) = a
  BY <1>n, ResponsesDiffer
<1>t. m \in Messages /\ a \in Answers
  BY <1>n, AnswerType DEF Messages
<1>r. replay_state \in [Endpoints -> ReplayStates] /\ replay_state[e] \in ReplayStates
  BY DEF TypeOK
<1>w. /\ w \in Window /\ IsReuse(w, n)
      /\ \A k \in Nat : IsReuse(replay_state[e].response, k) => IsReuse(w, k)
  BY <1>n, <1>r, MarkWindow
<1> HIDE DEF m, a, w
<1>s. /\ replay_state' \in [Endpoints -> ReplayStates]
      /\ replay_state'[e].response = w
      /\ \A f \in Endpoints : f # e => replay_state'[f] = replay_state[f]
      /\ \A f \in Endpoints :
           /\ replay_state'[f].replay = replay_state[f].replay
           /\ replay_state'[f].received_response = replay_state[f].received_response
           /\ replay_state'[f].received_response_piv = replay_state[f].received_response_piv
  BY <1>0, <1>r, <1>w DEF ReplayStates
<1>1. TypeOK'
  BY <1>0, <1>t, <1>s DEF TypeOK
<1>2. NonceNeverReused'
  <2>1. \A s \in sent : ~(s.key = m.key /\ s.nonce = m.nonce)
    BY <1>0, <1>n, <1>f, NonceIsFresh
  <2> QED
    BY <1>0, <2>1 DEF NonceNeverReused
<1>3. NoncesBehind'
  <2>1. ASSUME NEW s \in sent, s.nonce[1] = Peer[s.key], allow_no_piv_response[s.key]
        PROVE  IsReuse(replay_state'[s.key].response, s.nonce[2])
    <3>1. s.key \in Endpoints
      BY SentKey
    <3>2. IsReuse(replay_state[s.key].response, s.nonce[2]) /\ s.nonce[2] \in Nat
      BY <2>1, NumbersAreNat DEF NoncesBehind
    <3> QED
      BY <1>s, <1>w, <3>1, <3>2
  <2>2. \A s \in sent : s.nonce[1] = s.key => s.nonce[2] < next_sequence'[s.key]
    BY <1>0 DEF NoncesBehind
  <2>3. \A s \in sent : s.nonce[1] \in {s.key, Peer[s.key]} /\ s.nonce[2] \in Numbers
    BY DEF NoncesBehind
  <2> QED
    BY <1>0, <1>f, <1>s, <1>w, <2>1, <2>2, <2>3 DEF NoncesBehind
<1>4. AnswersSent'
  BY <1>0, <1>d DEF AnswersSent
<1>5. PendingSound' /\ HandSound' /\ WindowsRefuse' /\ StoreRefuses' /\ ActedOnce'
  BY <1>0, <1>s, SendFrame
<1> QED
  BY <1>1, <1>2, <1>3, <1>4, <1>5

LEMMA ItemsApart == Requests \cap Answers = {}
<1> SUFFICES ASSUME NEW r \in Requests, r \in Answers PROVE FALSE
  OBVIOUS
<1>1. DOMAIN r = {"client", "number"}
  BY Items
<1>2. DOMAIN r = {"request", "piv"}
  BY Items
<1> QED
  BY <1>1, <1>2

\* Receiving, saving and restarting disturb nothing that is said about nonces
\* and responses, if they keep the response windows that still count.
LEMMA ReceiveFrame ==
  ASSUME TypeOK, NonceNeverReused, NoncesBehind, AnswersSent,
         UNCHANGED <<next_sequence, sent, reencrypted, answers>>,
         \A e \in Endpoints :
           allow_no_piv_response'[e] =>
             /\ allow_no_piv_response[e]
             /\ replay_state'[e].response = replay_state[e].response
  PROVE  NonceNeverReused' /\ NoncesBehind' /\ AnswersSent'
<1>1. NonceNeverReused' /\ AnswersSent'
  BY DEF NonceNeverReused, AnswersSent
<1>2. NoncesBehind'
  BY SentKey DEF NoncesBehind
<1> QED
  BY <1>1, <1>2

LEMMA StepUnprotectRequest ==
  ASSUME IInv, NEW e \in Endpoints, NEW m \in sent \cup Forged, UnprotectRequest(e, m)
  PROVE  IInv'
<1> DEFINE r == [client |-> m.kid, number |-> m.piv]
           w == Mark(replay_state[e].replay, m.piv)
<1> USE DEF IInv
<1>0. /\ UNCHANGED <<next_sequence, allow_no_piv_response, pending, recipient_store,
                     restarts, sent, reencrypted, answers, served, taken>>
      /\ pending[e] = NoPending /\ m.piv # NoPiv /\ m.kid = Peer[e] /\ m.key = Peer[e]
      /\ ~IsReuse(replay_state[e].replay, m.piv)
      /\ replay_state' = [replay_state EXCEPT ![e].replay = w]
      /\ in_hand' = [in_hand EXCEPT ![e] = @ \cup {r}]
  BY DEF UnprotectRequest, OpensRequest, Opens, Free, durableVars, historyVars
<1>m. m \in sent /\ m.kid # NoKid /\ m.piv \in Numbers /\ m.piv \in Nat
  <2>1. m \in sent
    BY <1>0, Pairs, ForgedAssumption
  <2>2. m.kid # NoKid
    BY <1>0, Pairs, AbsentAssumption
  <2>3. m.piv \in Numbers
    <3>1. CASE \E f \in Endpoints, n \in Numbers : m = RequestMessage(f, n)
      BY <3>1, RequestFields
    <3>2. CASE \E f \in Endpoints, n \in Numbers, piv \in Pivs :
                 m = ResponseMessage(f, Peer[f], n, piv)
      BY <1>0, <3>2, ResponseFields DEF Pivs
    <3> QED
      BY <2>1, <3>1, <3>2, SentForm
  <2> QED
    BY <2>1, <2>2, <2>3, NumbersAreNat
<1>i. /\ r \in Issued /\ r \in Requests /\ r \notin Answers
      /\ r.client = Peer[e] /\ r.number = m.piv
  <2>1. r \in Requests
    BY <1>0, <1>m, Pairs, Items
  <2> QED
    BY <1>0, <1>m, <2>1, ItemsApart DEF Issued
<1>r. replay_state \in [Endpoints -> ReplayStates] /\ replay_state[e] \in ReplayStates
  BY DEF TypeOK
<1>w. /\ w \in Window /\ IsReuse(w, m.piv)
      /\ \A k \in Nat : IsReuse(replay_state[e].replay, k) => IsReuse(w, k)
  BY <1>m, <1>r, MarkWindow
<1> HIDE DEF r, w
<1>s. /\ replay_state' \in [Endpoints -> ReplayStates]
      /\ replay_state'[e].replay = w
      /\ \A f \in Endpoints : f # e => replay_state'[f] = replay_state[f]
      /\ \A f \in Endpoints :
           /\ replay_state'[f].response = replay_state[f].response
           /\ replay_state'[f].received_response = replay_state[f].received_response
           /\ replay_state'[f].received_response_piv = replay_state[f].received_response_piv
  BY <1>0, <1>r, <1>w DEF ReplayStates
<1>h. /\ in_hand' \in [Endpoints -> SUBSET (Requests \cup Answers)]
      /\ in_hand'[e] = in_hand[e] \cup {r}
      /\ \A f \in Endpoints : f # e => in_hand'[f] = in_hand[f]
  BY <1>0, <1>i DEF TypeOK
<1>1. TypeOK'
  BY <1>0, <1>s, <1>h DEF TypeOK
<1>2. NonceNeverReused' /\ NoncesBehind' /\ AnswersSent'
  BY <1>0, <1>s, ReceiveFrame
<1>3. PendingSound'
  BY <1>0, <1>s DEF PendingSound
<1>4. HandSound'
  <2>1. served[r] = 0
    BY <1>0, <1>i DEF WindowsRefuse
  <2>2. Issued' = Issued
    BY <1>0 DEF Issued
  <2> QED
    BY <1>0, <1>i, <1>h, <2>1, <2>2 DEF HandSound
<1>5. WindowsRefuse'
  <2> SUFFICES ASSUME NEW f \in Endpoints
               PROVE  /\ \A q \in Requests :
                           q.client = Peer[f] /\ (q \in in_hand'[f] \/ served[q] # 0) =>
                             IsReuse(replay_state'[f].replay, q.number)
                      /\ \A a \in Answers :
                           a.request.client = f /\ (a \in in_hand'[f] \/ taken[a] # 0) =>
                             RefusesAnswer(replay_state'[f], a)
    BY <1>0 DEF WindowsRefuse
  <2>1. ASSUME NEW q \in Requests, q.client = Peer[f], q \in in_hand'[f] \/ served[q] # 0
        PROVE  IsReuse(replay_state'[f].replay, q.number)
    <3>1. q.number \in Nat
      BY Items, NumbersAreNat
    <3>2. CASE f = e /\ q = r
      BY <1>i, <1>s, <1>w, <3>2
    <3>3. CASE f = e /\ q # r
      <4>1. IsReuse(replay_state[e].replay, q.number)
        BY <1>h, <2>1, <3>3 DEF WindowsRefuse
      <4> QED
        BY <1>s, <1>w, <3>1, <3>3, <4>1
    <3>4. CASE f # e
      BY <1>h, <1>s, <2>1, <3>4 DEF WindowsRefuse
    <3> QED
      BY <3>2, <3>3, <3>4
  <2>2. ASSUME NEW a \in Answers, a.request.client = f, a \in in_hand'[f] \/ taken[a] # 0
        PROVE  RefusesAnswer(replay_state'[f], a)
    <3>1. a \in in_hand[f] \/ taken[a] # 0
      BY <1>h, <1>i, <2>2
    <3>2. RefusesAnswer(replay_state[f], a)
      BY <2>2, <3>1 DEF WindowsRefuse
    <3> QED
      BY <1>s, <3>2 DEF RefusesAnswer
  <2> QED
    BY <2>1, <2>2
<1>6. StoreRefuses' /\ ActedOnce'
  BY <1>0 DEF StoreRefuses, ActedOnce
<1> QED
  BY <1>1, <1>2, <1>3, <1>4, <1>5, <1>6

LEMMA StepBeginUnprotectResponse ==
  ASSUME IInv, NEW e \in Endpoints, NEW m \in sent \cup Forged, NEW n \in Numbers,
         NEW observe \in BOOLEAN, BeginUnprotectResponse(e, m, n, observe)
  PROVE  IInv'
<1> DEFINE a == AnswerOf(Peer[e], n, m.piv)
           p == [request |-> n, piv |-> m.piv, observe |-> observe]
<1> USE DEF IInv
<1>0. /\ UNCHANGED <<next_sequence, replay_state, allow_no_piv_response, recipient_store,
                     restarts, in_hand, sent, reencrypted, answers, served, taken>>
      /\ m.key = Peer[e] /\ m.aad = <<e, n>>
      /\ observe \/ ~IsReuse(replay_state[e].received_response, n)
      /\ observe => m.piv # NoPiv
      /\ m.piv # NoPiv => ~IsReuse(replay_state[e].received_response_piv, m.piv)
      /\ pending' = [pending EXCEPT ![e] = p]
  BY DEF BeginUnprotectResponse, Opens, build_aad_cbor, durableVars, historyVars
<1>m. m \in sent
  BY <1>0, Pairs, ForgedAssumption
<1>a. m.piv \in Pivs /\ a \in answers
  <2>1. CASE \E f \in Endpoints, k \in Numbers : m = RequestMessage(f, k)
    <3>1. PICK f \in Endpoints, k \in Numbers : m = RequestMessage(f, k)
      BY <2>1
    <3>2. f = Peer[e] /\ <<f, k>> = <<e, n>>
      BY <1>0, <3>1, RequestFields
    <3> QED
      BY <3>2, Pairs
  <2>2. CASE \E f \in Endpoints, k \in Numbers, piv \in Pivs :
               m = ResponseMessage(f, Peer[f], k, piv)
    <3>1. PICK f \in Endpoints, k \in Numbers, piv \in Pivs :
                 m = ResponseMessage(f, Peer[f], k, piv)
      BY <2>2
    <3>2. f = Peer[e] /\ m.piv = piv /\ <<Peer[f], k>> = <<e, n>>
      BY <1>0, <3>1, ResponseFields
    <3>3. ResponseMessage(f, Peer[f], n, piv) \in sent
      BY <1>m, <3>1, <3>2
    <3> QED
      BY <3>2, <3>3, Pairs DEF AnswersSent
  <2> QED
    BY <1>m, <2>1, <2>2, SentForm
<1>r. ~RefusesAnswer(replay_state[e], a)
  BY <1>0 DEF RefusesAnswer, AnswerOf
<1>1. TypeOK'
  <2>1. p \in [request : Numbers, piv : Numbers \cup {NoPiv}, observe : BOOLEAN]
    BY <1>a DEF Pivs
  <2> HIDE DEF p
  <2> QED
    BY <1>0, <2>1 DEF TypeOK
<1>2. NonceNeverReused' /\ NoncesBehind' /\ AnswersSent'
  BY <1>0, ReceiveFrame
<1>3. PendingSound'
  <2> SUFFICES ASSUME NEW f \in Endpoints, pending'[f] # NoPending
               PROVE  LET given == AnswerOf(Peer[f], pending'[f].request, pending'[f].piv)
                      IN  /\ given \in answers
                          /\ ~RefusesAnswer(replay_state[f], given)
                          /\ pending'[f].observe => pending'[f].piv # NoPiv
    BY <1>0 DEF PendingSound, AnswerOf
  <2>1. CASE f = e
    <3>1. /\ pending'[e].request = n /\ pending'[e].piv = m.piv
          /\ pending'[e].observe = observe
      BY <1>0 DEF TypeOK
    <3> QED
      BY <1>0, <1>a, <1>r, <2>1, <3>1
  <2>2. CASE f # e
    <3>1. pending'[f] = pending[f]
      BY <1>0, <2>2 DEF TypeOK
    <3> QED
      BY <3>1 DEF PendingSound
  <2> QED
    BY <2>1, <2>2
<1>4. HandSound' /\ WindowsRefuse' /\ StoreRefuses' /\ ActedOnce'
  BY <1>0 DEF HandSound, Issued, WindowsRefuse, StoreRefuses, ActedOnce
<1> QED
  BY <1>1, <1>2, <1>3, <1>4

LEMMA StepDropPending ==
  ASSUME IInv, NEW e \in Endpoints, DropPending(e)
  PROVE  IInv'
<1> USE DEF IInv
<1>0. /\ UNCHANGED <<next_sequence, replay_state, allow_no_piv_response, recipient_store,
                     restarts, in_hand, sent, reencrypted, answers, served, taken>>
      /\ pending' = [pending EXCEPT ![e] = NoPending]
  BY DEF DropPending, durableVars, historyVars
<1>1. TypeOK'
  BY <1>0 DEF TypeOK
<1>2. NonceNeverReused' /\ NoncesBehind' /\ AnswersSent'
  BY <1>0, ReceiveFrame
<1>3. PendingSound'
  BY <1>0 DEF PendingSound, TypeOK
<1>4. HandSound' /\ WindowsRefuse' /\ StoreRefuses' /\ ActedOnce'
  BY <1>0 DEF HandSound, Issued, WindowsRefuse, StoreRefuses, ActedOnce
<1> QED
  BY <1>1, <1>2, <1>3, <1>4

LEMMA StepCommit ==
  ASSUME IInv, NEW e \in Endpoints, Commit(e)
  PROVE  IInv'
<1> DEFINE p == pending[e]
           old == replay_state[e]
           own == IF p.piv = NoPiv THEN old
                  ELSE [old EXCEPT !.received_response_piv = Mark(@, p.piv)]
           w == IF p.observe THEN own
                ELSE [own EXCEPT !.received_response = Mark(@, p.request)]
           a == AnswerOf(Peer[e], p.request, p.piv)
<1> USE DEF IInv
<1>0. /\ UNCHANGED <<next_sequence, allow_no_piv_response, recipient_store,
                     restarts, sent, reencrypted, answers, served, taken>>
      /\ pending[e] # NoPending
      /\ pending' = [pending EXCEPT ![e] = NoPending]
      /\ replay_state' = [replay_state EXCEPT ![e] = w]
      /\ in_hand' = [in_hand EXCEPT ![e] = @ \cup {a}]
  <2>1. a = [request |-> [client |-> e, number |-> p.request], piv |-> p.piv]
    BY Pairs DEF AnswerOf
  <2> QED
    BY <2>1 DEF Commit, Free, durableVars, historyVars
<1>p. p \in [request : Numbers, piv : Numbers \cup {NoPiv}, observe : BOOLEAN]
  BY <1>0 DEF TypeOK
<1>q. p.request \in Numbers /\ p.request \in Nat /\ p.piv \in Pivs /\ p.observe \in BOOLEAN
  BY <1>p, NumbersAreNat DEF Pivs
<1>v. p.piv # NoPiv => p.piv \in Nat
  BY <1>q, NumbersAreNat DEF Pivs
<1>a. /\ a \in answers /\ ~RefusesAnswer(old, a)
      /\ p.observe => p.piv # NoPiv
      /\ a \in Answers /\ a \notin Requests
      /\ a.request.client = e /\ a.request.number = p.request /\ a.piv = p.piv
  <2>1. a \in Answers /\ Peer[Peer[e]] = e
    BY <1>q, Pairs, AnswerType
  <2>2. a.request.client = Peer[Peer[e]] /\ a.request.number = p.request /\ a.piv = p.piv
    BY DEF AnswerOf
  <2> QED
    BY <1>0, <2>1, <2>2, ItemsApart DEF PendingSound
<1>r. replay_state \in [Endpoints -> ReplayStates] /\ old \in ReplayStates
  BY DEF TypeOK
<1>o. /\ own \in ReplayStates
      /\ own.replay = old.replay /\ own.response = old.response
      /\ own.received_response = old.received_response
      /\ \A k \in Nat :
           IsReuse(old.received_response_piv, k) => IsReuse(own.received_response_piv, k)
      /\ p.piv # NoPiv => IsReuse(own.received_response_piv, p.piv)
  <2>1. CASE p.piv = NoPiv
    BY <1>r, <2>1
  <2>2. CASE p.piv # NoPiv
    <3> DEFINE v == Mark(old.received_response_piv, p.piv)
    <3>1. /\ v \in Window /\ IsReuse(v, p.piv)
          /\ \A k \in Nat : IsReuse(old.received_response_piv, k) => IsReuse(v, k)
      BY <1>r, <1>v, <2>2, MarkWindow
    <3>2. own = [old EXCEPT !.received_response_piv = v]
      BY <2>2
    <3> HIDE DEF v, own, p, old
    <3> QED
      BY <1>r, <3>1, <3>2 DEF ReplayStates
  <2> QED
    BY <2>1, <2>2
<1> HIDE DEF own
<1>w. /\ w \in ReplayStates
      /\ w.replay = old.replay /\ w.response = old.response
      /\ \A k \in Nat :
           /\ IsReuse(old.received_response, k) => IsReuse(w.received_response, k)
           /\ IsReuse(old.received_response_piv, k) => IsReuse(w.received_response_piv, k)
      /\ p.piv # NoPiv => IsReuse(w.received_response_piv, p.piv)
      /\ ~p.observe => IsReuse(w.received_response, p.request)
  <2>1. CASE p.observe
    BY <1>o, <2>1
  <2>2. CASE ~p.observe
    <3> DEFINE v == Mark(own.received_response, p.request)
    <3>1. /\ v \in Window /\ IsReuse(v, p.request)
          /\ \A k \in Nat : IsReuse(own.received_response, k) => IsReuse(v, k)
      BY <1>o, <1>q, MarkWindow
    <3>2. w = [own EXCEPT !.received_response = v]
      BY <2>2
    <3> HIDE DEF v, w, p, old
    <3> QED
      BY <1>o, <2>2, <3>1, <3>2 DEF ReplayStates
  <2> QED
    BY <2>1, <2>2
<1> HIDE DEF w
<1>f. /\ \A b \in Answers : RefusesAnswer(old, b) => RefusesAnswer(w, b)
      /\ RefusesAnswer(w, a)
  <2>1. \A b \in Answers : b.request.number \in Nat /\ (b.piv # NoPiv => b.piv \in Nat)
    BY AnswerForm, NumbersAreNat DEF Pivs
  <2> HIDE DEF a, p, old
  <2>2. \A b \in Answers : RefusesAnswer(old, b) => RefusesAnswer(w, b)
    BY <1>w, <2>1 DEF RefusesAnswer
  <2>3. RefusesAnswer(w, a)
    BY <1>w, <1>a DEF RefusesAnswer
  <2> QED
    BY <2>2, <2>3
<1>s. /\ replay_state' \in [Endpoints -> ReplayStates]
      /\ replay_state'[e] = w
      /\ \A f \in Endpoints : f # e => replay_state'[f] = replay_state[f]
      /\ \A f \in Endpoints :
           /\ replay_state'[f].replay = replay_state[f].replay
           /\ replay_state'[f].response = replay_state[f].response
  BY <1>0, <1>r, <1>w
<1> HIDE DEF a
<1>h. /\ in_hand' \in [Endpoints -> SUBSET (Requests \cup Answers)]
      /\ in_hand'[e] = in_hand[e] \cup {a}
      /\ \A f \in Endpoints : f # e => in_hand'[f] = in_hand[f]
  BY <1>0, <1>a DEF TypeOK
<1>1. TypeOK'
  BY <1>0, <1>s, <1>h DEF TypeOK
<1>2. NonceNeverReused' /\ NoncesBehind' /\ AnswersSent'
  BY <1>0, <1>s, ReceiveFrame
<1>3. PendingSound'
  <2>1. ASSUME NEW f \in Endpoints, pending'[f] # NoPending
        PROVE  f # e /\ pending'[f] = pending[f] /\ replay_state'[f] = replay_state[f]
    BY <1>0, <1>s, <2>1 DEF TypeOK
  <2> QED
    BY <1>0, <2>1 DEF PendingSound
<1>4. HandSound'
  <2>1. taken[a] = 0
    BY <1>a DEF WindowsRefuse
  <2>2. Issued' = Issued
    BY <1>0 DEF Issued
  <2> QED
    BY <1>0, <1>a, <1>h, <2>1, <2>2 DEF HandSound
<1>5. WindowsRefuse'
  <2> SUFFICES ASSUME NEW f \in Endpoints
               PROVE  /\ \A q \in Requests :
                           q.client = Peer[f] /\ (q \in in_hand'[f] \/ served[q] # 0) =>
                             IsReuse(replay_state'[f].replay, q.number)
                      /\ \A b \in Answers :
                           b.request.client = f /\ (b \in in_hand'[f] \/ taken[b] # 0) =>
                             RefusesAnswer(replay_state'[f], b)
    BY <1>0 DEF WindowsRefuse
  <2>1. ASSUME NEW q \in Requests, q.client = Peer[f], q \in in_hand'[f] \/ served[q] # 0
        PROVE  IsReuse(replay_state'[f].replay, q.number)
    <3>1. q \in in_hand[f] \/ served[q] # 0
      BY <1>a, <1>h, <2>1
    <3> QED
      BY <1>s, <2>1, <3>1 DEF WindowsRefuse
  <2>2. ASSUME NEW b \in Answers, b.request.client = f, b \in in_hand'[f] \/ taken[b] # 0
        PROVE  RefusesAnswer(replay_state'[f], b)
    <3>1. CASE f = e /\ b = a
      BY <1>f, <1>s, <3>1
    <3>2. CASE f = e /\ b # a
      <4>1. RefusesAnswer(old, b)
        BY <1>h, <2>2, <3>2 DEF WindowsRefuse
      <4> QED
        BY <1>f, <1>s, <3>2, <4>1
    <3>3. CASE f # e
      BY <1>h, <1>s, <2>2, <3>3 DEF WindowsRefuse
    <3> QED
      BY <3>1, <3>2, <3>3
  <2> QED
    BY <2>1, <2>2
<1>6. StoreRefuses' /\ ActedOnce'
  BY <1>0 DEF StoreRefuses, ActedOnce
<1> QED
  BY <1>1, <1>2, <1>3, <1>4, <1>5, <1>6

\* What was acted on once more.
LEMMA CountOnce ==
  ASSUME NEW S, NEW times \in [S -> 0 .. 2], NEW items,
         \A i \in items \cap S : times[i] = 0,
         \A i \in S : times[i] \in {0, 1}
  PROVE  /\ Count(times, items) \in [S -> 0 .. 2]
         /\ \A i \in S : Count(times, items)[i] = IF i \in items THEN 1 ELSE times[i]
         /\ \A i \in S : Count(times, items)[i] \in {0, 1}
<1>1. DOMAIN times = S
  OBVIOUS
<1>2. \A i \in S : Count(times, items)[i] = IF i \in items THEN 1 ELSE times[i]
  BY <1>1 DEF Count
<1>3. \A i \in S : Count(times, items)[i] \in {0, 1}
  BY <1>2
<1>4. Count(times, items) \in [S -> {0, 1}]
  <2>1. \E g : Count(times, items) = [i \in S |-> g[i]]
    <3>1. Count(times, items) = [i \in S |-> Count(times, items)[i]]
      BY <1>1 DEF Count
    <3> QED
      BY <3>1
  <2> QED
    BY <1>3, <2>1
<1>5. {0, 1} \subseteq 0 .. 2
  OBVIOUS
<1> QED
  BY <1>2, <1>3, <1>4, <1>5

LEMMA StepSaveAndAct ==
  ASSUME IInv, NEW e \in Endpoints, SaveAndAct(e)
  PROVE  IInv'
<1> USE DEF IInv
<1>0. /\ UNCHANGED <<next_sequence, replay_state, allow_no_piv_response, pending,
                     restarts, sent, reencrypted, answers>>
      /\ recipient_store' = [recipient_store EXCEPT ![e] = replay_state[e]]
      /\ served' = Count(served, in_hand[e])
      /\ taken' = Count(taken, in_hand[e])
      /\ in_hand' = [in_hand EXCEPT ![e] = {}]
  BY DEF SaveAndAct, contextVars
<1>s. /\ served' \in [Requests -> 0 .. 2]
      /\ \A r \in Requests : served'[r] = IF r \in in_hand[e] THEN 1 ELSE served[r]
      /\ \A r \in Requests : served'[r] \in {0, 1}
  <2>1. served \in [Requests -> 0 .. 2]
    BY DEF TypeOK
  <2>2. \A r \in in_hand[e] \cap Requests : served[r] = 0
    BY DEF HandSound
  <2>3. \A r \in Requests : served[r] \in {0, 1}
    BY DEF ActedOnce
  <2> QED
    BY <1>0, <2>1, <2>2, <2>3, CountOnce
<1>t. /\ taken' \in [Answers -> 0 .. 2]
      /\ \A a \in Answers : taken'[a] = IF a \in in_hand[e] THEN 1 ELSE taken[a]
      /\ \A a \in Answers : taken'[a] \in {0, 1}
  <2>1. taken \in [Answers -> 0 .. 2]
    BY DEF TypeOK
  <2>2. \A a \in in_hand[e] \cap Answers : taken[a] = 0
    BY DEF HandSound
  <2>3. \A a \in Answers : taken[a] \in {0, 1}
    BY DEF ActedOnce
  <2> QED
    BY <1>0, <2>1, <2>2, <2>3, CountOnce
<1>r. /\ recipient_store' \in [Endpoints -> ReplayStates]
      /\ recipient_store'[e] = replay_state[e]
      /\ \A f \in Endpoints : f # e => recipient_store'[f] = recipient_store[f]
  BY <1>0 DEF TypeOK
<1>h. /\ in_hand' \in [Endpoints -> SUBSET (Requests \cup Answers)]
      /\ in_hand'[e] = {}
      /\ \A f \in Endpoints : f # e => in_hand'[f] = in_hand[f]
  BY <1>0 DEF TypeOK
<1>p. \A f \in Endpoints : f # e => Peer[f] # Peer[e]
  BY Pairs
<1>1. TypeOK'
  BY <1>0, <1>s, <1>t, <1>r, <1>h DEF TypeOK
<1>2. NonceNeverReused' /\ NoncesBehind' /\ AnswersSent'
  BY <1>0, ReceiveFrame
<1>3. PendingSound'
  BY <1>0 DEF PendingSound
<1>4. HandSound'
  <2> SUFFICES ASSUME NEW f \in Endpoints
               PROVE  /\ \A r \in in_hand'[f] \cap Requests :
                           r.client = Peer[f] /\ r \in Issued /\ served'[r] = 0
                      /\ \A a \in in_hand'[f] \cap Answers :
                           a.request.client = f /\ a \in answers /\ taken'[a] = 0
    BY <1>0 DEF HandSound, Issued
  <2>1. CASE f = e
    BY <1>h, <2>1
  <2>2. CASE f # e
    <3>1. \A r \in in_hand[f] \cap Requests : r \notin in_hand[e]
      BY <1>p, <2>2 DEF HandSound
    <3>2. \A a \in in_hand[f] \cap Answers : a \notin in_hand[e]
      BY <2>2 DEF HandSound
    <3> QED
      BY <1>h, <1>s, <1>t, <2>2, <3>1, <3>2 DEF HandSound
  <2> QED
    BY <2>1, <2>2
<1>w. \A f \in Endpoints :
        /\ \A r \in Requests :
             r.client = Peer[f] /\ (r \in in_hand'[f] \/ served'[r] # 0) =>
               r \in in_hand[f] \/ served[r] # 0
        /\ \A a \in Answers :
             a.request.client = f /\ (a \in in_hand'[f] \/ taken'[a] # 0) =>
               a \in in_hand[f] \/ taken[a] # 0
  <2>1. /\ \A r \in in_hand[e] \cap Requests : r.client = Peer[e]
        /\ \A a \in in_hand[e] \cap Answers : a.request.client = e
    BY DEF HandSound
  <2> QED
    BY <1>h, <1>s, <1>t, <1>p, <2>1
<1>5. WindowsRefuse'
  BY <1>0, <1>w DEF WindowsRefuse
<1>6. StoreRefuses'
  <2> SUFFICES ASSUME NEW f \in Endpoints
               PROVE  /\ \A r \in Requests :
                           r.client = Peer[f] /\ served'[r] # 0 =>
                             IsReuse(recipient_store'[f].replay, r.number)
                      /\ \A a \in Answers :
                           a.request.client = f /\ taken'[a] # 0 =>
                             RefusesAnswer(recipient_store'[f], a)
    BY DEF StoreRefuses
  <2>1. CASE f = e
    BY <1>r, <1>w, <2>1 DEF WindowsRefuse
  <2>2. CASE f # e
    <3>1. /\ \A r \in in_hand[e] \cap Requests : r.client = Peer[e]
          /\ \A a \in in_hand[e] \cap Answers : a.request.client = e
      BY DEF HandSound
    <3>2. /\ \A r \in Requests : r.client = Peer[f] => served'[r] = served[r]
          /\ \A a \in Answers : a.request.client = f => taken'[a] = taken[a]
      BY <1>s, <1>t, <1>p, <2>2, <3>1
    <3> QED
      BY <1>r, <2>2, <3>2 DEF StoreRefuses
  <2> QED
    BY <2>1, <2>2
<1>7. ActedOnce'
  BY <1>s, <1>t DEF ActedOnce
<1> QED
  BY <1>1, <1>2, <1>3, <1>4, <1>5, <1>6, <1>7

LEMMA StepRestart ==
  ASSUME IInv, NEW e \in Endpoints, Restart(e)
  PROVE  IInv'
<1> USE DEF IInv
<1>0. /\ UNCHANGED <<next_sequence, recipient_store, sent, reencrypted, answers,
                     served, taken>>
      /\ restarts < RESTARTS /\ restarts' = restarts + 1
      /\ replay_state' = [replay_state EXCEPT ![e] = recipient_store[e]]
      /\ allow_no_piv_response' = [allow_no_piv_response EXCEPT ![e] = FALSE]
      /\ pending' = [pending EXCEPT ![e] = NoPending]
      /\ in_hand' = [in_hand EXCEPT ![e] = {}]
  BY DEF Restart, historyVars
<1>s. /\ replay_state' \in [Endpoints -> ReplayStates]
      /\ replay_state'[e] = recipient_store[e]
      /\ \A f \in Endpoints : f # e => replay_state'[f] = replay_state[f]
  BY <1>0 DEF TypeOK
<1>a. /\ allow_no_piv_response' \in [Endpoints -> BOOLEAN]
      /\ ~allow_no_piv_response'[e]
      /\ \A f \in Endpoints : f # e => allow_no_piv_response'[f] = allow_no_piv_response[f]
  BY <1>0 DEF TypeOK
<1>h. /\ in_hand' \in [Endpoints -> SUBSET (Requests \cup Answers)]
      /\ in_hand'[e] = {}
      /\ \A f \in Endpoints : f # e => in_hand'[f] = in_hand[f]
  BY <1>0 DEF TypeOK
<1>p. /\ pending'[e] = NoPending
      /\ \A f \in Endpoints : f # e => pending'[f] = pending[f]
  BY <1>0 DEF TypeOK
<1>1. TypeOK'
  <2>1. restarts' \in 0 .. RESTARTS
    BY <1>0, BoundAssumption DEF TypeOK
  <2> QED
    BY <1>0, <1>s, <1>a, <1>h, <2>1 DEF TypeOK
<1>2. NonceNeverReused' /\ NoncesBehind' /\ AnswersSent'
  BY <1>0, <1>s, <1>a, ReceiveFrame
<1>3. PendingSound'
  BY <1>0, <1>s, <1>p DEF PendingSound
<1>4. HandSound'
  BY <1>0, <1>h DEF HandSound, Issued
<1>5. WindowsRefuse'
  <2> SUFFICES ASSUME NEW f \in Endpoints
               PROVE  /\ \A r \in Requests :
                           r.client = Peer[f] /\ (r \in in_hand'[f] \/ served[r] # 0) =>
                             IsReuse(replay_state'[f].replay, r.number)
                      /\ \A a \in Answers :
                           a.request.client = f /\ (a \in in_hand'[f] \/ taken[a] # 0) =>
                             RefusesAnswer(replay_state'[f], a)
    BY <1>0 DEF WindowsRefuse
  <2>1. CASE f = e
    BY <1>h, <1>s, <2>1 DEF StoreRefuses
  <2>2. CASE f # e
    BY <1>h, <1>s, <2>2 DEF WindowsRefuse
  <2> QED
    BY <2>1, <2>2
<1>6. StoreRefuses' /\ ActedOnce'
  BY <1>0 DEF StoreRefuses, ActedOnce
<1> QED
  BY <1>1, <1>2, <1>3, <1>4, <1>5, <1>6

LEMMA InitInductive == Init => IInv
<1> SUFFICES ASSUME Init PROVE IInv
  OBVIOUS
<1> USE DEF Init
<1>1. TypeOK
  <2>1. FreshReplayState \in ReplayStates
    BY DEF FreshReplayState, FreshRequestWindow, FreshResponseWindow, ReplayStates, Window
  <2>2. 0 \in 0 .. MAX + 1 /\ 0 \in 0 .. RESTARTS /\ 0 \in 0 .. 2
    BY BoundAssumption
  <2> QED
    BY <2>1, <2>2 DEF TypeOK
<1>2. NonceNeverReused /\ NoncesBehind /\ AnswersSent
  BY DEF NonceNeverReused, NoncesBehind, AnswersSent
<1>3. PendingSound /\ HandSound
  BY DEF PendingSound, HandSound
<1>4. WindowsRefuse /\ StoreRefuses /\ ActedOnce
  BY DEF WindowsRefuse, StoreRefuses, ActedOnce
<1> QED
  BY <1>1, <1>2, <1>3, <1>4 DEF IInv

LEMMA NextInductive == IInv /\ [Next]_vars => IInv'
<1> SUFFICES ASSUME IInv, [Next]_vars PROVE IInv'
  OBVIOUS
<1>1. CASE UNCHANGED vars
  <2>1. TypeOK' /\ NonceNeverReused' /\ NoncesBehind' /\ AnswersSent'
    BY <1>1 DEF IInv, vars, contextVars, durableVars, historyVars,
                TypeOK, NonceNeverReused, NoncesBehind, AnswersSent
  <2>2. PendingSound' /\ HandSound' /\ WindowsRefuse' /\ StoreRefuses' /\ ActedOnce'
    BY <1>1 DEF IInv, vars, contextVars, durableVars, historyVars, PendingSound,
                HandSound, Issued, WindowsRefuse, StoreRefuses, ActedOnce
  <2> QED
    BY <2>1, <2>2 DEF IInv
<1>2. ASSUME NEW e \in Endpoints, Send(e) PROVE IInv'
  BY <1>2, StepProtectRequest, StepLoseReservation, StepProtectResponse,
     StepProtectResponseNoPiv DEF Send
<1>3. ASSUME NEW e \in Endpoints, Receive(e) PROVE IInv'
  BY <1>3, StepUnprotectRequest, StepBeginUnprotectResponse DEF Receive
<1> QED
  BY <1>1, <1>2, <1>3, StepCommit, StepDropPending, StepSaveAndAct, StepRestart DEF Next

\* The inductive invariant holds in every reachable state (src/lib.rs).
THEOREM Inductive == Spec => []IInv
  BY InitInductive, NextInductive, PTL DEF Spec

\* The state is well-typed (ReplayState, SenderSequenceState, PendingResponse).
THEOREM TypeCorrect == Spec => []TypeOK
<1>1. IInv => TypeOK
  BY DEF IInv
<1> QED
  BY <1>1, Inductive, PTL

\* No key encrypts twice with one nonce, whatever is lost, repeated or forged
\* and however often either end loses its context (compute_nonce,
\* reserve_sender, protect_response_bounded, restore_existing).
THEOREM NoncesUnique == Spec => []NonceNeverReused
<1>1. IInv => NonceNeverReused
  BY DEF IInv
<1> QED
  BY <1>1, Inductive, PTL

-----------------------------------------------------------------------------
\* Every step keeps the promise: it is one of its steps, or none.

Kept == [Promise!Next]_<<Issued, served, answers, taken>>

LEMMA RefineProtectRequest ==
  ASSUME IInv, NEW e \in Endpoints, ProtectRequest(e)
  PROVE  Kept
<1> DEFINE n == next_sequence[e]
           m == RequestMessage(e, n)
           r == [client |-> e, number |-> n]
<1>0. UNCHANGED <<served, answers, taken>> /\ sent' = sent \cup {m} /\ reserve_sender(e)
  BY DEF ProtectRequest, Encrypt
<1>n. n \in Numbers /\ n \in Nat
  BY <1>0, ReserveType, NumbersAreNat DEF IInv
<1>f. m.key = e /\ m.kid = e /\ m.kid # NoKid /\ m.piv = n
      /\ m.nonce[1] = e /\ m.nonce[2] = n
  BY <1>n, RequestFields
<1>1. r \notin Issued
  <2> SUFFICES ASSUME NEW s \in sent, s.kid # NoKid, s.kid = e, s.piv = n PROVE FALSE
    BY DEF Issued
  <2>1. PICK f \in Endpoints, k \in Numbers : s = RequestMessage(f, k)
    BY ResponseFields, SentForm DEF IInv
  <2>2. s.key = e /\ s.nonce[1] = e /\ s.nonce[2] = n
    BY <2>1, RequestFields
  <2> QED
    BY <1>n, <2>2 DEF IInv, NoncesBehind
<1>2. Issued' = Issued \cup {r}
  BY <1>0, <1>f DEF Issued
<1>3. PICK q \in Requests : q = r
  BY <1>n, Items
<1>4. Promise!Issue(q) /\ q \in Promise!Requests
  BY <1>0, <1>1, <1>2, <1>3 DEF Promise!Issue, Issued, Requests
<1> QED
  BY <1>4 DEF Kept, Promise!Next

\* An answer given is a new one, to a request that was acted on.
LEMMA RefineAnswer ==
  ASSUME IInv, NEW e \in Endpoints, NEW n \in Numbers, NEW piv \in Pivs,
         Answer(e, n, piv),
         LET m == ResponseMessage(e, Peer[e], n, piv)
         IN  \/ m.nonce[1] = e /\ m.nonce[2] = next_sequence[e]
             \/ /\ m.nonce[1] = Peer[e] /\ allow_no_piv_response[e]
                /\ ~IsReuse(replay_state[e].response, m.nonce[2])
  PROVE  Kept
<1> DEFINE m == ResponseMessage(e, Peer[e], n, piv)
           a == AnswerOf(e, n, piv)
<1>0. /\ UNCHANGED <<served, taken>> /\ sent' = sent \cup {m}
      /\ answers' = answers \cup {a} /\ served[a.request] > 0
  BY DEF Answer, AnswerOf, Encrypt
<1>1. a \in Answers /\ a.request \in Requests
  BY AnswerType, AnswerForm
<1>2. served[a.request] = 1
  BY <1>0, <1>1 DEF IInv, ActedOnce
<1>3. a \notin answers
  <2>1. next_sequence[e] \in Nat
    BY BoundAssumption DEF IInv, TypeOK
  <2>2. m.key = e
    BY ResponseFields
  <2>3. \A s \in sent : ~(s.key = m.key /\ s.nonce = m.nonce)
    BY <2>1, <2>2, NonceIsFresh DEF IInv
  <2>4. m \notin sent
    BY <2>3
  <2> QED
    BY <2>4 DEF IInv, AnswersSent
<1>4. Issued' = Issued
  <2>1. m.kid = NoKid
    BY ResponseFields
  <2> HIDE DEF m
  <2> QED
    BY <1>0, <2>1 DEF Issued
<1>5. Promise!Give(a) /\ a \in Promise!Answers
  BY <1>0, <1>1, <1>2, <1>3, <1>4 DEF Promise!Give, Issued, Answers
<1> QED
  BY <1>5 DEF Kept, Promise!Next

LEMMA RefineSaveAndAct ==
  ASSUME IInv, NEW e \in Endpoints, SaveAndAct(e)
  PROVE  Kept
<1> DEFINE requests == in_hand[e] \cap Requests
           given == in_hand[e] \cap Answers
<1>0. /\ UNCHANGED <<sent, answers>>
      /\ served' = Count(served, in_hand[e])
      /\ taken' = Count(taken, in_hand[e])
  BY DEF SaveAndAct
<1>1. /\ requests \subseteq Issued /\ given \subseteq answers
      /\ \A r \in requests : r.client # e /\ served[r] = 0
      /\ \A a \in given : a.request.client = e /\ taken[a] = 0
  BY Pairs DEF IInv, HandSound
<1>2. served' = [r \in Requests |-> IF r \in requests THEN 1 ELSE served[r]]
  <2>1. served \in [Requests -> 0 .. 2] /\ \A r \in Requests : served[r] \in {0, 1}
    BY DEF IInv, TypeOK, ActedOnce
  <2>2. /\ served' \in [Requests -> 0 .. 2]
        /\ \A r \in Requests : served'[r] = IF r \in in_hand[e] THEN 1 ELSE served[r]
    BY <1>0, <1>1, <2>1, CountOnce
  <2> QED
    BY <2>2
<1>3. taken' = [a \in Answers |-> IF a \in given THEN 1 ELSE taken[a]]
  <2>1. taken \in [Answers -> 0 .. 2] /\ \A a \in Answers : taken[a] \in {0, 1}
    BY DEF IInv, TypeOK, ActedOnce
  <2>2. /\ taken' \in [Answers -> 0 .. 2]
        /\ \A a \in Answers : taken'[a] = IF a \in in_hand[e] THEN 1 ELSE taken[a]
    BY <1>0, <1>1, <2>1, CountOnce
  <2> QED
    BY <2>2
<1>4. Issued' = Issued
  BY <1>0 DEF Issued
<1> HIDE DEF requests, given
<1>5. Promise!Act(e, requests, given)
  BY <1>0, <1>1, <1>2, <1>3, <1>4 DEF Promise!Act, Issued, Requests, Answers
<1> QED
  BY <1>1, <1>5 DEF Kept, Promise!Next, Issued

LEMMA StepKept == IInv /\ [Next]_vars => Kept
<1> SUFFICES ASSUME IInv, [Next]_vars PROVE Kept
  OBVIOUS
<1>u. ASSUME UNCHANGED <<sent, served, answers, taken>> PROVE Kept
  BY <1>u DEF Kept, Issued
<1>1. CASE UNCHANGED vars
  BY <1>1, <1>u DEF vars, historyVars
<1>2. ASSUME NEW e \in Endpoints, LoseReservation(e) PROVE Kept
  BY <1>2, <1>u DEF LoseReservation, historyVars
<1>3. ASSUME NEW e \in Endpoints, NEW n \in Numbers, ProtectResponse(e, n) PROVE Kept
  <2>1. Answer(e, n, next_sequence[e]) /\ reserve_sender(e)
    BY <1>3 DEF ProtectResponse
  <2>2. next_sequence[e] \in Pivs /\ next_sequence[e] # NoPiv
    BY <2>1, ReserveType, NumbersAreNat DEF IInv, Pivs
  <2>3. LET m == ResponseMessage(e, Peer[e], n, next_sequence[e])
        IN  m.nonce[1] = e /\ m.nonce[2] = next_sequence[e]
    BY <2>2, ResponseFields
  <2> QED
    BY <2>1, <2>2, <2>3, RefineAnswer
<1>4. ASSUME NEW e \in Endpoints, NEW n \in Numbers, ProtectResponseNoPiv(e, n) PROVE Kept
  <2>1. /\ Answer(e, n, NoPiv) /\ allow_no_piv_response[e]
        /\ ~IsReuse(replay_state[e].response, n)
    BY <1>4 DEF ProtectResponseNoPiv
  <2>2. NoPiv \in Pivs
    BY DEF Pivs
  <2>3. LET m == ResponseMessage(e, Peer[e], n, NoPiv)
        IN  m.nonce[1] = Peer[e] /\ m.nonce[2] = n
    BY <2>2, ResponseFields
  <2> QED
    BY <2>1, <2>2, <2>3, RefineAnswer
<1>5. ASSUME NEW e \in Endpoints, Send(e) PROVE Kept
  BY <1>2, <1>3, <1>4, <1>5, RefineProtectRequest DEF Send
<1>6. ASSUME NEW e \in Endpoints, Receive(e) PROVE Kept
  BY <1>6, <1>u DEF Receive, UnprotectRequest, BeginUnprotectResponse, historyVars
<1>7. ASSUME NEW e \in Endpoints, Commit(e) \/ DropPending(e) \/ Restart(e) PROVE Kept
  BY <1>7, <1>u DEF Commit, DropPending, Restart, historyVars
<1> QED
  BY <1>1, <1>5, <1>6, <1>7, RefineSaveAndAct DEF Next

\* The exchange implements the abstract service: each end acts on what the other
\* did, on the request an answer is for, and once (build_aad_cbor, the windows,
\* recipient_replay_state and restore_existing), for any ends and any windows.
THEOREM KeepsPromise == Spec => ImplementsRequestResponse
<1>1. Init => Promise!Init
  BY DEF Init, Promise!Init, Requests, Answers
<1>2. Kept <=> [Promise!Next]_Promise!vars
  BY DEF Kept, Promise!vars, Issued
<1> QED
  BY <1>1, <1>2, StepKept, Inductive, PTL
  DEF Spec, ImplementsRequestResponse, Promise!Spec

=============================================================================
