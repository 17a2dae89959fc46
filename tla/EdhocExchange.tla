---------------------------- MODULE EdhocExchange ----------------------------
(***************************************************************************)
(* Handshakes between several initiators and responders over a network     *)
(* that loses, repeats, reorders, misdelivers and damages messages, driven *)
(* by applications that name peers, mix up pending messages and wipe       *)
(* objects as they please.  Nothing here retransmits: that a message is    *)
(* never taken from `sent` covers loss, repetition and delay.              *)
(***************************************************************************)
EXTENDS EdhocInitiator, EdhocResponder

CONSTANT Faults    \* the kinds of damage the network does

ASSUME FaultAssumption ==
  Faults \subseteq {"g_x", "c_i", "g_y", "c_r", "id_cred", "signature",
                    "message_3", "suites"}

VARIABLES
  sent,         \* messages 1, 2 and 3 that were ever sent
  exchanged,    \* history: the public keys each ephemeral key was used with
  agreed,       \* history: what each session held when it completed
  disturbed     \* history: sessions given what was not theirs, see below

historyVars == <<exchanged, agreed, disturbed>>
vars == <<initiatorVars, responderVars, sent, historyVars>>

Init ==
  /\ InitiatorInit /\ ResponderInit
  /\ sent = [n \in 1..3 |-> {}]
  /\ exchanged = [s \in Sessions |-> {}]
  /\ agreed = [s \in Sessions |-> None]
  /\ disturbed = {}

Send(n, m) == sent' = [sent EXCEPT ![n] = @ \cup {m}]

\* Damage to field f of a message, if the network does that kind.
Damaged(m, f, values) == {[m EXCEPT ![f] = v] : v \in IF f \in Faults THEN values ELSE {}}

Wires == {encode_identifier(Id[s]) : s \in Sessions}
References == {IdCred[c] : c \in Credentials}

Damaged1(m) == Damaged(m, "g_x", {Garbled}) \cup Damaged(m, "c_i", Wires)

Damaged2(m) ==
  Damaged(m, "g_y", {Garbled}) \cup
    {[m EXCEPT !.plaintext = p] : p \in
       Damaged(m.plaintext, "c_r", Wires) \cup
       Damaged(m.plaintext, "id_cred", References) \cup
       Damaged(m.plaintext, "signature", {Garbled})}

Damaged3(m) == {[m EXCEPT !.k_3 = Garbled] : f \in Faults \cap {"message_3"}}

\* What may arrive: whatever was sent, as often as it likes, whole or damaged.
Received1 == sent[1] \cup UNION {Damaged1(m) : m \in sent[1]}
Received2 == sent[2] \cup UNION {Damaged2(m) : m \in sent[2]}
Received3 == sent[3] \cup UNION {Damaged3(m) : m \in sent[3]}

Exchange(s, public) == exchanged' = [exchanged EXCEPT ![s] = @ \cup {public}]

\* A session is disturbed when it is handed a message that was damaged or not
\* made for it, a credential that is not its peer's, or a pending message out
\* of turn, or its pending message is dropped: when something else than its own
\* handshake happens to it.
DisturbedUnless(s, proper) == disturbed' = IF proper THEN disturbed ELSE disturbed \cup {s}

Agree(s, peer, credential, context) ==
  agreed' = IF context = None THEN agreed
            ELSE [agreed EXCEPT ![s] =
                   [peer |-> peer, credential |-> credential, context |-> context]]

CreateMessage1(i) ==
  /\ create_message_1(i)
  /\ Send(1, message_1(i))
  /\ UNCHANGED <<responderVars, historyVars>>

ProcessMessage1(r, m) ==
  /\ process_message_1(r, m)
  /\ Send(2, Message2(r, m))
  /\ Exchange(r, m.g_x)
  /\ DisturbedUnless(r, m \in sent[1])
  /\ UNCHANGED <<initiatorVars, agreed>>

RefuseMessage1(r, m) ==
  /\ \/ refuse_own_identifier(r, m) /\ UNCHANGED exchanged
     \/ refuse_low_order(r, m) /\ Exchange(r, m.g_x)
  /\ disturbed' = disturbed \cup {r}
  /\ UNCHANGED <<initiatorVars, sent, agreed>>

ReceiveSuitesError(i) ==
  /\ "suites" \in Faults
  /\ receive_suites_error(i)
  /\ disturbed' = disturbed \cup {i}
  /\ UNCHANGED <<responderVars, sent, exchanged, agreed>>

\* The messages that answer i's own message 1, and r's own message 2.
AnswersInitiator(i, m) == m \in sent[2] /\ m.prk.th_2.msg1 = message_1(i)
AnswersResponder(r, m) == m \in sent[3] /\ m.k_3.prk.th_2.g_y = r

BeginMessage2(i, m) ==
  /\ begin_process_message_2(i, m)
  /\ Exchange(i, m.g_y)
  /\ DisturbedUnless(i, AnswersInitiator(i, m))
  /\ UNCHANGED <<responderVars, sent, agreed>>

FinishMessage2(i, p, peer) ==
  /\ finish_process_message_2(i, p, peer)
  /\ IF Verified2(i, p, peer) THEN Send(3, Message3(i, p, peer)) ELSE UNCHANGED sent
  /\ Agree(i, initiator[i].g_y, peer, export_oscore_initiator(i)')
  /\ DisturbedUnless(i, initiator[i].g_y \in Responders /\ peer = Self[initiator[i].g_y])
  /\ UNCHANGED <<responderVars, exchanged>>

BeginMessage3(r, m) ==
  /\ begin_process_message_3(r, m)
  /\ DisturbedUnless(r, AnswersResponder(r, m))
  /\ UNCHANGED <<initiatorVars, sent, exchanged, agreed>>

FinishMessage3(r, p, peer) ==
  /\ finish_process_message_3(r, p, peer)
  /\ Agree(r, responder[r].g_x, peer, export_oscore_responder(r)')
  /\ DisturbedUnless(r, /\ responder[r].lifecycle = "PendingMessage3"
                        /\ p = pending_message_3[r]
                        /\ responder[r].g_x \in Initiators
                        /\ peer = Self[responder[r].g_x])
  /\ UNCHANGED <<initiatorVars, sent, exchanged>>

DropMessage2(i) ==
  /\ drop_pending_message_2(i)
  /\ disturbed' = disturbed \cup {i}
  /\ UNCHANGED <<responderVars, sent, exchanged, agreed>>

DropMessage3(r) ==
  /\ drop_pending_message_3(r)
  /\ disturbed' = disturbed \cup {r}
  /\ UNCHANGED <<initiatorVars, sent, exchanged, agreed>>

ZeroizeInitiator(i) ==
  /\ zeroize_initiator(i)
  /\ UNCHANGED <<responderVars, sent, historyVars>>

ZeroizeResponder(r) ==
  /\ zeroize_responder(r)
  /\ UNCHANGED <<initiatorVars, sent, historyVars>>

InitiatorStep(i) ==
  \/ CreateMessage1(i)
  \/ ReceiveSuitesError(i)
  \/ \E m \in Received2 : BeginMessage2(i, m)
  \/ \E j \in Initiators, peer \in Credentials :
       /\ pending_message_2[j] # None
       /\ FinishMessage2(i, pending_message_2[j], peer)
  \/ DropMessage2(i) \/ ZeroizeInitiator(i)

ResponderStep(r) ==
  \/ \E m \in Received1 : ProcessMessage1(r, m) \/ RefuseMessage1(r, m)
  \/ \E m \in Received3 : BeginMessage3(r, m)
  \/ \E q \in Responders, peer \in Credentials :
       /\ pending_message_3[q] # None
       /\ FinishMessage3(r, pending_message_3[q], peer)
  \/ DropMessage3(r) \/ ZeroizeResponder(r)

Next == (\E i \in Initiators : InitiatorStep(i)) \/ (\E r \in Responders : ResponderStep(r))

Spec == Init /\ [][Next]_vars

\* What applications must keep doing, and the network with them, for a handshake
\* to end: deliver in the end what is sent again and again, and finish what is
\* pending with the credential of the peer.  The code has no timers and takes
\* no step by itself, so this is asked of its callers.
InitiatorProgress(i) ==
  \/ CreateMessage1(i)
  \/ \E m \in sent[2] : AnswersInitiator(i, m) /\ BeginMessage2(i, m)
  \/ /\ pending_message_2[i] # None /\ initiator[i].g_y \in Responders
     /\ FinishMessage2(i, pending_message_2[i], Self[initiator[i].g_y])

ResponderProgress(r) ==
  \/ \E m \in sent[3] : AnswersResponder(r, m) /\ BeginMessage3(r, m)
  \/ /\ pending_message_3[r] # None /\ responder[r].g_x \in Initiators
     /\ FinishMessage3(r, pending_message_3[r], Self[responder[r].g_x])

FairSpec ==
  /\ Spec
  /\ \A i \in Initiators : WF_vars(InitiatorProgress(i))
  /\ \A r \in Responders : WF_vars(ResponderProgress(r))

-----------------------------------------------------------------------------
(* Properties.                                                             *)

EphemeralKeys == Sessions \cup {Garbled}
Th2s == [g_y : EphemeralKeys,
         msg1 : [g_x : EphemeralKeys, c_i : Seq(Byte)]]
Prks == [th_2 : Th2s, g_xy : SUBSET EphemeralKeys]

SharedFields(s) ==
  /\ s.eph_secret \in BOOLEAN /\ s.completed \in BOOLEAN
  /\ s.prk_3e2m \in Prks \cup {None}
  /\ s.prk_4e3m \in {s.prk_3e2m, None}
  /\ s.completed <=> s.lifecycle = "Complete"
  /\ s.completed <=> s.prk_4e3m # None
  /\ s.completed <=> s.th_4 # None
  /\ s.eph_secret => s.prk_3e2m = None
  /\ s.lifecycle \in {"Failed", "Zeroized"} =>
       ~s.eph_secret /\ s.prk_3e2m = None /\ s.th_3 = None

\* Types, and which secrets an object holds in which lifecycle: a failed or
\* wiped one holds none, and what a completed one exports is complete.
ExchangeTypeOK ==
  /\ \A i \in Initiators :
       /\ SharedFields(initiator[i])
       /\ initiator[i].lifecycle \in
            {"Created", "Message1Created", "PendingMessage2", "Complete", "Failed", "Zeroized"}
       /\ initiator[i].c_r \in ConnectionIds
       /\ initiator[i].th_2 \in Th2s \cup {None}
  /\ \A r \in Responders :
       /\ SharedFields(responder[r])
       /\ responder[r].lifecycle \in
            {"Created", "AwaitingMessage3", "PendingMessage3", "Complete", "Failed", "Zeroized"}
       /\ responder[r].c_i \in ConnectionIds
  /\ disturbed \subseteq Sessions

\* The contexts of two sessions that belong together: one master secret, and
\* each sends with the identifier the other receives by.
Mirrored(c, d) ==
  /\ c.master = d.master
  /\ c.sender_id = d.recipient_id
  /\ c.recipient_id = d.sender_id

\* A responder that completes does so with an initiator that has completed
\* with it: they hold mirrored contexts, each names the other's credential,
\* and the identifiers are the ones the two objects were made with.
\* (finish_process_message_3 over everything before it)
ResponderAgreement ==
  \A r \in Responders : agreed[r] # None =>
    LET i == agreed[r].peer IN
      /\ i \in Initiators /\ agreed[i] # None /\ agreed[i].peer = r
      /\ Mirrored(agreed[r].context, agreed[i].context)
      /\ agreed[r].credential = Self[i] /\ agreed[i].credential = Self[r]
      /\ agreed[r].context.sender_id = Id[i] /\ agreed[i].context.sender_id = Id[r]

\* An initiator completes, before it hears from the responder again, only with
\* a responder that answered this very message 1, under the credential and the
\* identifier that responder has; whatever was damaged on the way, the two
\* contexts can only be mirrored.  (finish_process_message_2)
InitiatorAgreement ==
  \A i \in Initiators : agreed[i] # None =>
    LET r == agreed[i].peer IN
      /\ r \in Responders /\ i \in exchanged[r]
      /\ agreed[i].credential = Self[r]
      /\ agreed[i].context.sender_id = Id[r] /\ agreed[i].context.recipient_id = Id[i]
      /\ responder[r].c_i = Id[i]

\* Contexts that can be exported now under one master secret belong to one
\* initiator and one responder, and the two send under different identifiers:
\* with the Partial IVs of each counted from zero, the identifiers alone keep
\* their nonces apart.  (export_oscore of both roles, the checks of C_I and C_R)
Exported(s) ==
  IF s \in Initiators THEN export_oscore_initiator(s) ELSE export_oscore_responder(s)
ExportsApart ==
  \A s, t \in Sessions :
    s # t /\ Exported(s) # None /\ Exported(t) # None
          /\ Exported(s).master = Exported(t).master =>
      /\ s \in Initiators <=> t \in Responders
      /\ Mirrored(Exported(s), Exported(t))
      /\ Exported(s).sender_id # Exported(t).sender_id

\* An ephemeral key meets one public key only, in retries after failures, too
\* (initiator.rs:293-300, responder.rs:285-295: "single use only").
EphemeralOnce ==
  \A s \in Sessions : \A x, y \in exchanged[s] : x = y

\* Loss, delay, repetition and reordering fail no session: one that failed was
\* handed damage, somebody else's message, a wrong credential or a pending
\* message out of turn.
OnlyDisturbedFail ==
  /\ \A i \in Initiators : initiator[i].lifecycle = "Failed" => i \in disturbed
  /\ \A r \in Responders : responder[r].lifecycle = "Failed" => r \in disturbed

\* A session whose answer was sent completes, however many foreign messages,
\* refused calls and repetitions come in between; it can be stopped only by
\* what OnlyDisturbedFail lists, by dropping its pending message, or by wiping
\* it.  In particular no call the code refuses leaves it in a lifecycle from
\* which it cannot go on (initiator.rs:262 is the one that does, when the
\* credential has another reference).
Stopped(s) ==
  \/ s \in disturbed
  \/ s \in Initiators /\ initiator[s].lifecycle = "Zeroized"
  \/ s \in Responders /\ responder[s].lifecycle = "Zeroized"
AnsweredComplete ==
  /\ \A i \in Initiators :
       (\E m \in sent[2] : AnswersInitiator(i, m)) ~>
         (initiator[i].lifecycle = "Complete" \/ Stopped(i))
  /\ \A r \in Responders :
       (\E m \in sent[3] : AnswersResponder(r, m)) ~>
         (responder[r].lifecycle = "Complete" \/ Stopped(r))

\* Together the objects do what KeyAgreement promises.
GivenUp ==
  {i \in Initiators : initiator[i].lifecycle \in {"Failed", "Zeroized"}} \cup
    {r \in Responders : responder[r].lifecycle \in {"Failed", "Zeroized"}}
Partner == [s \in Sessions |-> IF agreed[s] = None THEN None ELSE agreed[s].peer]
Abstract == INSTANCE KeyAgreement WITH partner <- Partner, given_up <- GivenUp
AgreesOnKeys == Abstract!Spec

=============================================================================
