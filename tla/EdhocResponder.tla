---------------------------- MODULE EdhocResponder ----------------------------
(***************************************************************************)
(* The responder of a handshake (src/edhoc/responder.rs).                  *)
(*                                                                         *)
(* A message 1 that does not parse, and any message that comes in the      *)
(* wrong lifecycle, is refused without a change of state: a stuttering     *)
(* step.  From message 3 on the responder is less patient than the         *)
(* initiator: whatever it refuses, it fails.                               *)
(***************************************************************************)
EXTENDS EdhocTerms

VARIABLES
  responder,           \* EdhocResponder and its ResponderState
  pending_message_3    \* the PendingMessage3 the application holds for it

responderVars == <<responder, pending_message_3>>

FreshResponder ==
  [lifecycle |-> "Created", eph_secret |-> TRUE, g_x |-> None, c_i |-> <<>>,
   prk_3e2m |-> None, prk_4e3m |-> None,
   th_3 |-> None, th_4 |-> None, completed |-> FALSE]

ResponderInit ==
  /\ responder = [r \in Responders |-> FreshResponder]
  /\ pending_message_3 = [r \in Responders |-> None]

\* Mutant of WipeResponder: the keys stay.
WipeForgetting(s, lifecycle) ==
  [s EXCEPT !.lifecycle = lifecycle, !.eph_secret = FALSE, !.completed = FALSE]

\* Everything secret goes; C_I stays.
WipeResponder(s, lifecycle) ==
  [FreshResponder EXCEPT !.lifecycle = lifecycle, !.eph_secret = FALSE, !.c_i = s.c_i]

PoisonResponder(r) ==
  responder' = [responder EXCEPT ![r] = WipeResponder(@, "Failed")]

CanProcessMessage1(r, m) ==
  /\ responder[r].lifecycle = "Created" /\ responder[r].eph_secret
  /\ parse_c_i(m.c_i) # Unreadable

Prk(r, m) == hkdf_extract(transcript_2(r, m), diffie_hellman(r, m.g_x))

Plaintext2(r, m) ==
  LET cred == Self[r]
  IN Plaintext_2(Id[r], cred,
       sign(cred, m_2(Prk(r, m), Id[r], IdCred[cred], transcript_2(r, m), cred)))

\* Message 2, as process_message_1 returns it.
Message2(r, m) == message_2(r, Prk(r, m), Plaintext2(r, m))

\* The two identifiers must differ.
refuse_own_identifier(r, m) ==
  /\ CanProcessMessage1(r, m)
  /\ parse_c_i(m.c_i) = Id[r]
  /\ PoisonResponder(r)
  /\ UNCHANGED pending_message_3

\* A damaged G_X may be a point of low order, which yields no shared secret.
\* C_I is stored by then, and poisoning leaves it.
refuse_low_order(r, m) ==
  /\ CanProcessMessage1(r, m)
  /\ parse_c_i(m.c_i) # Id[r]
  /\ m.g_x = Garbled
  /\ responder' = [responder EXCEPT ![r] =
       WipeResponder([@ EXCEPT !.c_i = parse_c_i(m.c_i)], "Failed")]
  /\ UNCHANGED pending_message_3

process_message_1(r, m) ==
  /\ CanProcessMessage1(r, m)
  /\ parse_c_i(m.c_i) # Id[r]
  /\ responder' = [responder EXCEPT ![r] =
       [@ EXCEPT !.lifecycle = "AwaitingMessage3", !.eph_secret = FALSE,
                 !.g_x = m.g_x, !.c_i = parse_c_i(m.c_i), !.prk_3e2m = Prk(r, m),
                 !.th_3 = transcript_3(transcript_2(r, m), Plaintext2(r, m), Self[r])]]
  /\ UNCHANGED pending_message_3

PendingMessage3(plaintext, th_3) ==
  [id_cred |-> plaintext.id_cred, plaintext |-> plaintext, transcript_binding |-> th_3]

\* Mutant of begin_process_message_3: a message 3 in the wrong lifecycle fails
\* the session, as a second call of finish_process_message_3 does.
BeginFailing(r, m) ==
  LET s == responder[r]
      opened == /\ s.lifecycle = "AwaitingMessage3"
                /\ m.k_3 = edhoc_kdf(s.prk_3e2m, "K_3", s.th_3)
  IN IF opened
     THEN /\ responder' = [responder EXCEPT ![r].lifecycle = "PendingMessage3"]
          /\ pending_message_3' = [pending_message_3 EXCEPT ![r] =
               PendingMessage3(m.plaintext, s.th_3)]
     ELSE PoisonResponder(r) /\ UNCHANGED pending_message_3

\* K_3 depends on TH_3: a message 3 of any other transcript fails the session.
begin_process_message_3(r, m) ==
  LET s == responder[r]
      opened == m.k_3 = edhoc_kdf(s.prk_3e2m, "K_3", s.th_3)
  IN /\ s.lifecycle = "AwaitingMessage3"
     /\ \/ /\ opened
           /\ responder' = [responder EXCEPT ![r].lifecycle = "PendingMessage3"]
           /\ pending_message_3' = [pending_message_3 EXCEPT ![r] =
                PendingMessage3(m.plaintext, s.th_3)]
        \/ /\ ~opened
           /\ PoisonResponder(r)
           /\ UNCHANGED pending_message_3

Verified3(r, p, peer) ==
  verify(peer, m_3(responder[r].prk_3e2m, p.id_cred, responder[r].th_3, peer),
         p.plaintext.signature)

\* A call in any other lifecycle, with another session's pending message or
\* with a credential of another name fails the session, too; a session that
\* was complete or wiped is no exception.
finish_process_message_3(r, p, peer) ==
  LET s == responder[r]
      accepted == /\ s.lifecycle = "PendingMessage3"
                  /\ p.transcript_binding = s.th_3
                  /\ p.id_cred = IdCred[peer]
                  /\ Verified3(r, p, peer)
  IN /\ \/ /\ accepted
           /\ responder' = [responder EXCEPT ![r] =
                [@ EXCEPT !.lifecycle = "Complete", !.completed = TRUE,
                          !.prk_4e3m = s.prk_3e2m,
                          !.th_4 = transcript_4(s.th_3, p.plaintext, peer)]]
        \/ /\ ~accepted
           /\ PoisonResponder(r)
     /\ UNCHANGED pending_message_3

\* The pending message is dropped unfinished.
drop_pending_message_3(r) ==
  /\ responder[r].lifecycle = "PendingMessage3" /\ pending_message_3[r] # None
  /\ pending_message_3' = [pending_message_3 EXCEPT ![r] = None]
  /\ UNCHANGED responder

\* The application wipes the object.
zeroize_responder(r) ==
  /\ responder' = [responder EXCEPT ![r] = WipeResponder(@, "Zeroized")]
  /\ UNCHANGED pending_message_3

\* The responder sends as C_I.
export_oscore_responder(r) ==
  IF responder[r].completed /\ responder[r].prk_4e3m # None
  THEN export_context(responder[r].prk_4e3m, responder[r].th_4,
                      responder[r].c_i, Id[r])
  ELSE None

=============================================================================
