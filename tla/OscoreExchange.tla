--------------------------- MODULE OscoreExchange ---------------------------
(***************************************************************************)
(* Two OSCORE contexts and the messages between them (src/lib.rs).  Either *)
(* end makes requests and answers the other's, over a network that loses,  *)
(* repeats and reorders and to which anyone may add messages; either end   *)
(* may lose its context and restore it from its two durable records.       *)
(*                                                                         *)
(* A message is a term: who could encrypt it, with which nonce, for which  *)
(* additional data, and the option sent in clear.  OscoreBindings shows    *)
(* that distinct terms are distinct byte strings.  Sender numbers come     *)
(* from reserve_sender, of which SenderSequence shows that it implements   *)
(* OneShotSequence: they are dealt in order and used once or lost.  An     *)
(* application saves its windows before it acts, answers what it acted on, *)
(* and opens messages with an activated context only.                      *)
(***************************************************************************)
EXTENDS ReplayWindow

CONSTANTS
  Endpoints,    \* the ends, named by their sender IDs
  Peer,         \* [Endpoints -> Endpoints], an end's recipient ID
  MAX,          \* the terminal sequence number
  Asks,         \* [Endpoints -> numbers], bound on an end's requests
  RESTARTS,     \* bound on losses of a context
  Forged,       \* messages from neither end
  NoKid,        \* the option carries no KID
  NoPiv,        \* the option carries no Partial IV
  NoPending     \* no PendingResponse borrows the context

\* Context::new refuses equal sender and recipient IDs (src/lib.rs:469).
ASSUME PeerAssumption ==
  /\ Peer \in [Endpoints -> Endpoints]
  /\ \A e \in Endpoints : Peer[e] # e /\ Peer[Peer[e]] = e

\* AES-CCM: without an end's sender key nobody encrypts with it.
ASSUME ForgedAssumption == \A m \in Forged : m.key \notin Endpoints

ASSUME BoundAssumption == MAX \in Nat /\ RESTARTS \in Nat

ASSUME AbsentAssumption == NoKid \notin Endpoints /\ NoPiv \notin Nat

Numbers == 0 .. MAX

VARIABLES
  next_sequence,           \* the durable sender record, the object's number with it
  replay_state,            \* the four windows of each context
  allow_no_piv_response,   \* Context.allow_no_piv_response
  pending,                 \* what a PendingResponse holds
  recipient_store,         \* the durable recipient record of each end
  in_hand,                 \* accepted by the context, not yet acted on
  restarts,                \* how often a context was lost
  sent,                    \* history: every message encrypted
  reencrypted,             \* history: nonces a key encrypted with twice
  answers,                 \* history: the answers applications gave
  served, taken            \* history: how often they acted on each message

contextVars == <<next_sequence, replay_state, allow_no_piv_response, pending>>
durableVars == <<recipient_store, restarts>>
historyVars == <<sent, reencrypted, answers, served, taken>>
vars == <<contextVars, durableVars, in_hand, historyVars>>

Promise == INSTANCE RequestResponse WITH
  issued <- {[client |-> m.kid, number |-> m.piv] : m \in {s \in sent : s.kid # NoKid}}

Requests == Promise!Requests
Answers == Promise!Answers

FreshReplayState ==
  [replay |-> FreshRequestWindow,
   response |-> FreshResponseWindow,
   received_response |-> FreshResponseWindow,
   received_response_piv |-> FreshResponseWindow]

\* Both ends exported the keys and registered them.
Init ==
  /\ next_sequence = [e \in Endpoints |-> 0]
  /\ replay_state = [e \in Endpoints |-> FreshReplayState]
  /\ allow_no_piv_response = [e \in Endpoints |-> TRUE]
  /\ pending = [e \in Endpoints |-> NoPending]
  /\ recipient_store = [e \in Endpoints |-> FreshReplayState]
  /\ in_hand = [e \in Endpoints |-> {}]
  /\ restarts = 0
  /\ sent = {} /\ reencrypted = {} /\ answers = {}
  /\ served = [r \in Requests |-> 0]
  /\ taken = [a \in Answers |-> 0]

-----------------------------------------------------------------------------
\* Messages.

compute_nonce(id, piv) == <<id, piv>>

\* Mutant of build_aad_cbor: the request's number left out.
AadWithoutPiv(request_kid, request_piv) == <<request_kid, NoPiv>>

build_aad_cbor(request_kid, request_piv) == <<request_kid, request_piv>>

RequestMessage(e, n) ==
  [key |-> e, nonce |-> compute_nonce(e, n), aad |-> build_aad_cbor(e, n),
   kid |-> e, piv |-> n]

\* Mutant of ResponseMessage: the nonce always has the responder's ID.
ResponseOwnId(e, request_kid, request_piv, piv) ==
  [key |-> e,
   nonce |-> compute_nonce(e, IF piv = NoPiv THEN request_piv ELSE piv),
   aad |-> build_aad_cbor(request_kid, request_piv),
   kid |-> NoKid, piv |-> piv]

\* Without a PIV of its own a response has the nonce of its request.
ResponseMessage(e, request_kid, request_piv, piv) ==
  [key |-> e,
   nonce |-> IF piv = NoPiv THEN compute_nonce(request_kid, request_piv)
             ELSE compute_nonce(e, piv),
   aad |-> build_aad_cbor(request_kid, request_piv),
   kid |-> NoKid, piv |-> piv]

\* AES-CCM opens what was encrypted with the same key, nonce and additional data.
Opens(m, key, nonce, aad) == m.key = key /\ m.nonce = nonce /\ m.aad = aad

Encrypt(m) ==
  /\ sent' = sent \cup {m}
  /\ reencrypted' = reencrypted \cup
       {<<s.key, s.nonce>> : s \in {x \in sent : x.key = m.key /\ x.nonce = m.nonce}}

-----------------------------------------------------------------------------
\* Sending.

\* Mutant of reserve_sender: the terminal number does not end the sequence.
ReserveOn(e) == next_sequence' = [next_sequence EXCEPT ![e] = @ + 1]

\* reserve_sender makes the successor durable first; a number whose message
\* was never built, the output being too small or the power gone, is lost.
reserve_sender(e) ==
  /\ next_sequence[e] <= MAX
  /\ next_sequence' = [next_sequence EXCEPT ![e] = @ + 1]

\* No PendingResponse borrows the context.
Free(e) == pending[e] = NoPending

LoseReservation(e) ==
  /\ Free(e)
  /\ reserve_sender(e)
  /\ UNCHANGED <<replay_state, allow_no_piv_response, pending, durableVars, in_hand, historyVars>>

ProtectRequest(e) ==
  /\ Free(e)
  /\ next_sequence[e] \in Asks[e]
  /\ reserve_sender(e)
  /\ Encrypt(RequestMessage(e, next_sequence[e]))
  /\ UNCHANGED <<replay_state, allow_no_piv_response, pending, durableVars, in_hand,
                 answers, served, taken>>

Answer(e, n, piv) ==
  LET request == [client |-> Peer[e], number |-> n]
  IN  /\ served[request] > 0
      /\ Encrypt(ResponseMessage(e, Peer[e], n, piv))
      /\ answers' = answers \cup {[request |-> request, piv |-> piv]}
      /\ UNCHANGED <<served, taken>>

ProtectResponse(e, n) ==
  /\ Free(e)
  /\ reserve_sender(e)
  /\ Answer(e, n, next_sequence[e])
  /\ UNCHANGED <<replay_state, allow_no_piv_response, pending, durableVars, in_hand>>

\* protect_response with include_piv = false.
ProtectResponseNoPiv(e, n) ==
  /\ Free(e)
  /\ allow_no_piv_response[e]
  /\ ~IsReuse(replay_state[e].response, n)
  /\ Answer(e, n, NoPiv)
  /\ replay_state' = [replay_state EXCEPT ![e].response = Mark(@, n)]
  /\ UNCHANGED <<next_sequence, allow_no_piv_response, pending, durableVars, in_hand>>

-----------------------------------------------------------------------------
\* Receiving.

OpensRequest(e, m) ==
  Opens(m, Peer[e], compute_nonce(Peer[e], m.piv), build_aad_cbor(m.kid, m.piv))

\* Mutant of UnprotectRequest: the window moves before the message is opened.
UnprotectRequestEarly(e, m) ==
  /\ Free(e)
  /\ m.piv # NoPiv /\ m.kid = Peer[e]
  /\ ~IsReuse(replay_state[e].replay, m.piv)
  /\ replay_state' = [replay_state EXCEPT ![e].replay = Mark(@, m.piv)]
  /\ in_hand' = [in_hand EXCEPT ![e] =
       IF OpensRequest(e, m) THEN @ \cup {[client |-> m.kid, number |-> m.piv]} ELSE @]
  /\ UNCHANGED <<next_sequence, allow_no_piv_response, pending, durableVars, historyVars>>

\* unprotect_request.  Where a guard fails the code returns an error and
\* changes nothing; so does a body that does not parse or does not fit.
UnprotectRequest(e, m) ==
  /\ Free(e)
  /\ m.piv # NoPiv /\ m.kid = Peer[e]
  /\ ~IsReuse(replay_state[e].replay, m.piv)
  /\ OpensRequest(e, m)
  /\ replay_state' = [replay_state EXCEPT ![e].replay = Mark(@, m.piv)]
  /\ in_hand' = [in_hand EXCEPT ![e] = @ \cup {[client |-> m.kid, number |-> m.piv]}]
  /\ UNCHANGED <<next_sequence, allow_no_piv_response, pending, durableVars, historyVars>>

\* begin_unprotect_response and begin_unprotect_observe_response.  The client
\* names the request: CoAP tokens, which it goes by, are not authenticated.
BeginUnprotectResponse(e, m, request_piv, observe) ==
  /\ Free(e)
  /\ m.kid \in {NoKid, Peer[e]}
  /\ observe \/ ~IsReuse(replay_state[e].received_response, request_piv)
  /\ observe => m.piv # NoPiv
  /\ m.piv # NoPiv => ~IsReuse(replay_state[e].received_response_piv, m.piv)
  /\ Opens(m, Peer[e],
           IF m.piv = NoPiv THEN compute_nonce(e, request_piv)
                            ELSE compute_nonce(Peer[e], m.piv),
           build_aad_cbor(e, request_piv))
  /\ pending' = [pending EXCEPT ![e] =
       [request |-> request_piv, piv |-> m.piv, observe |-> observe]]
  /\ UNCHANGED <<next_sequence, replay_state, allow_no_piv_response, durableVars,
                 in_hand, historyVars>>

\* PendingResponse::commit: the response's own number first, then the request's.
Commit(e) ==
  /\ ~Free(e)
  /\ LET p   == pending[e]
         own == IF p.piv = NoPiv THEN replay_state[e]
                ELSE [replay_state[e] EXCEPT !.received_response_piv = Mark(@, p.piv)]
     IN  /\ replay_state' = [replay_state EXCEPT ![e] =
              IF p.observe THEN own
              ELSE [own EXCEPT !.received_response = Mark(@, p.request)]]
         /\ in_hand' = [in_hand EXCEPT ![e] = @ \cup
              {[request |-> [client |-> e, number |-> p.request], piv |-> p.piv]}]
  /\ pending' = [pending EXCEPT ![e] = NoPending]
  /\ UNCHANGED <<next_sequence, allow_no_piv_response, durableVars, historyVars>>

DropPending(e) ==
  /\ ~Free(e)
  /\ pending' = [pending EXCEPT ![e] = NoPending]
  /\ UNCHANGED <<next_sequence, replay_state, allow_no_piv_response, durableVars,
                 in_hand, historyVars>>

-----------------------------------------------------------------------------
\* Durable records.

\* A message that comes a second time is counted once more, to two at most.
Count(times, items) == [i \in DOMAIN times |-> times[i] + (IF i \in items /\ times[i] < 2 THEN 1 ELSE 0)]

\* recipient_replay_state goes to save_recipient, and the application acts, in
\* one transaction; OscoreContext has the two apart.
SaveAndAct(e) ==
  /\ Free(e)
  /\ in_hand[e] # {}
  /\ recipient_store' = [recipient_store EXCEPT ![e] = replay_state[e]]
  /\ served' = Count(served, in_hand[e])
  /\ taken' = Count(taken, in_hand[e])
  /\ in_hand' = [in_hand EXCEPT ![e] = {}]
  /\ UNCHANGED <<contextVars, restarts, sent, reencrypted, answers>>

\* The context is lost and restored: Context::new, then restore_existing, which
\* leaves a context without a recipient record its fresh windows.
Restart(e) ==
  /\ restarts < RESTARTS
  /\ restarts' = restarts + 1
  /\ replay_state' = [replay_state EXCEPT ![e] = recipient_store[e]]
  /\ allow_no_piv_response' = [allow_no_piv_response EXCEPT ![e] = FALSE]
  /\ pending' = [pending EXCEPT ![e] = NoPending]
  /\ in_hand' = [in_hand EXCEPT ![e] = {}]
  /\ UNCHANGED <<next_sequence, recipient_store, historyVars>>

-----------------------------------------------------------------------------

Send(e) ==
  \/ ProtectRequest(e) \/ LoseReservation(e)
  \/ \E n \in Numbers : ProtectResponse(e, n) \/ ProtectResponseNoPiv(e, n)

Receive(e) ==
  \E m \in sent \cup Forged :
    \/ UnprotectRequest(e, m)
    \/ \E n \in Numbers, observe \in BOOLEAN :
         /\ RequestMessage(e, n) \in sent
         /\ BeginUnprotectResponse(e, m, n, observe)

Next ==
  \E e \in Endpoints :
    \/ Send(e) \/ Receive(e) \/ Commit(e) \/ DropPending(e)
    \/ SaveAndAct(e) \/ Restart(e)

Spec == Init /\ [][Next]_vars

Answered(r) == \E a \in answers : a.request = r

\* The code has no timers and takes no step by itself.  What its callers and the
\* network must do for an answer to come: deliver in the end what is sent again
\* and again, save and act, answer, and let one acknowledgement in infinitely
\* many succeed.
AnswerSomething(e) ==
  \E n \in Numbers :
    /\ ~Answered([client |-> Peer[e], number |-> n])
    /\ ProtectResponse(e, n) \/ ProtectResponseNoPiv(e, n)

Fairness ==
  \A e \in Endpoints :
    /\ WF_vars(\E m \in sent : UnprotectRequest(e, m))
    /\ WF_vars(SaveAndAct(e))
    /\ WF_vars(AnswerSomething(e))
    /\ WF_vars(\E m \in sent, n \in Numbers : /\ RequestMessage(e, n) \in sent
                                              /\ BeginUnprotectResponse(e, m, n, FALSE))
    /\ SF_vars(Commit(e))

FairSpec == Spec /\ Fairness

-----------------------------------------------------------------------------
(* Properties.                                                             *)

ReplayStates ==
  [replay : Window, response : Window,
   received_response : Window, received_response_piv : Window]

Messages ==
  {RequestMessage(e, n) : e \in Endpoints, n \in Numbers} \cup
  {ResponseMessage(e, Peer[e], n, piv) :
     e \in Endpoints, n \in Numbers, piv \in Numbers \cup {NoPiv}}

\* Types.
TypeOK ==
  /\ next_sequence \in [Endpoints -> 0 .. MAX + 1]
  /\ replay_state \in [Endpoints -> ReplayStates]
  /\ allow_no_piv_response \in [Endpoints -> BOOLEAN]
  /\ pending \in [Endpoints -> [request : Numbers, piv : Numbers \cup {NoPiv},
                                observe : BOOLEAN] \cup {NoPending}]
  /\ recipient_store \in [Endpoints -> ReplayStates]
  /\ in_hand \in [Endpoints -> SUBSET (Requests \cup Answers)]
  /\ restarts \in 0 .. RESTARTS
  /\ sent \in SUBSET Messages
  /\ answers \in SUBSET Answers
  /\ served \in [Requests -> 0 .. 2]
  /\ taken \in [Answers -> 0 .. 2]

\* No key encrypts twice with one nonce: requests, responses with a number of
\* their own and responses with their request's number draw on three counters
\* that only the ID in the nonce, the reservation and the windows keep apart,
\* and two of them do not survive a restart (compute_nonce, src/lib.rs:2241).
NonceNeverReused == reencrypted = {}

\* Each end's application acts on what the other's did, on the very request an
\* answer is for, and once, whatever the network repeats, reorders, pairs up
\* wrongly or makes up, and whatever the ends lose (RFC 8613 Section 5.4,
\* build_aad_cbor; the windows; restore_existing).
ImplementsRequestResponse == Promise!Spec

\* The peer served r, has not answered it, and has no number to answer it with.
CannotAnswer(r) ==
  LET e == Peer[r.client]
  IN  /\ served[r] > 0 /\ ~Answered(r)
      /\ next_sequence[e] > MAX
      /\ allow_no_piv_response[e] => IsReuse(replay_state[e].response, r.number)

\* Every request is answered in the end, unless the numbers to answer it with
\* are used up.  Forged messages, failed acknowledgements and lost contexts
\* delay that; they block nothing ("update window AFTER", src/lib.rs:997;
\* "leaves both replay windows unchanged", src/lib.rs:1329).  It is stated for
\* windows wider than MAX, off which no later message pushes an earlier one.
EveryRequestAnswered ==
  \A r \in Requests :
    r \in {[client |-> m.kid, number |-> m.piv] : m \in sent}
      ~> \/ \E a \in Answers : a.request = r /\ taken[a] > 0
         \/ CannotAnswer(r)

=============================================================================
