---------------------------- MODULE EdhocInitiator ----------------------------
(***************************************************************************)
(* The initiator of a handshake (src/edhoc/initiator.rs).                  *)
(*                                                                         *)
(* A call that is refused without a change of state (a wrong lifecycle, a  *)
(* message 2 whose outer byte string does not parse, a credential whose    *)
(* reference is not the one in the message) is a stuttering step.  PRK_2e, *)
(* PRK_3e2m and the copy made for PRK_4e3m are one value: prk_4e3m here    *)
(* says whether the copy was made.                                         *)
(***************************************************************************)
EXTENDS EdhocTerms

VARIABLES
  initiator,           \* EdhocInitiator and its InitiatorState
  pending_message_2    \* the PendingMessage2 the application holds for it

initiatorVars == <<initiator, pending_message_2>>

FreshInitiator ==
  [lifecycle |-> "Created", eph_secret |-> TRUE, g_y |-> None, c_r |-> <<>>,
   prk_3e2m |-> None, prk_4e3m |-> None,
   th_2 |-> None, th_3 |-> None, th_4 |-> None, completed |-> FALSE]

InitiatorInit ==
  /\ initiator = [i \in Initiators |-> FreshInitiator]
  /\ pending_message_2 = [i \in Initiators |-> None]

\* Mutant of WipeInitiator: a wiped object is as good as new.
WipeToFresh(s, lifecycle) == FreshInitiator

\* Everything secret goes; C_R stays.
WipeInitiator(s, lifecycle) ==
  [FreshInitiator EXCEPT !.lifecycle = lifecycle, !.eph_secret = FALSE, !.c_r = s.c_r]

PoisonInitiator(i) ==
  initiator' = [initiator EXCEPT ![i] = WipeInitiator(@, "Failed")]

create_message_1(i) ==
  /\ initiator[i].lifecycle = "Created"
  /\ initiator' = [initiator EXCEPT ![i].lifecycle = "Message1Created"]
  /\ UNCHANGED pending_message_2

AwaitsMessage2(i) ==
  initiator[i].lifecycle = "Message1Created" /\ initiator[i].eph_secret

\* The peer wants another suite.
receive_suites_error(i) ==
  /\ AwaitsMessage2(i)
  /\ PoisonInitiator(i)
  /\ UNCHANGED pending_message_2

\* What PendingMessage2 holds: the plaintext, C_R as parsed, and TH_2.
PendingMessage2(plaintext, c_r, th_2) ==
  [id_cred |-> plaintext.id_cred, plaintext |-> plaintext, c_r |-> c_r,
   transcript_binding |-> th_2]

\* Mutant of begin_process_message_2: a message 2 that does not open leaves the
\* session as it was, key and all, though the key has been used.
BeginRetryably(i, m) ==
  LET th_2 == transcript_2(m.g_y, message_1(i))
      prk == hkdf_extract(th_2, diffie_hellman(i, m.g_y))
      c_r == parse_identifier(m.plaintext.c_r)
  IN /\ AwaitsMessage2(i)
     /\ m.prk = prk /\ c_r # Unreadable => c_r.id # Id[i]
     /\ IF m.prk = prk /\ c_r # Unreadable
        THEN /\ initiator' = [initiator EXCEPT ![i] =
                  [@ EXCEPT !.lifecycle = "PendingMessage2", !.eph_secret = FALSE,
                            !.g_y = m.g_y, !.th_2 = th_2, !.prk_3e2m = prk]]
             /\ pending_message_2' = [pending_message_2 EXCEPT ![i] =
                  PendingMessage2(m.plaintext, c_r.id, th_2)]
        ELSE UNCHANGED initiatorVars

\* A keystream for another key leaves garbage, taken not to parse.  Past the
\* key agreement every failure is final: the ephemeral key is gone.
begin_process_message_2(i, m) ==
  LET th_2 == transcript_2(m.g_y, message_1(i))
      prk == hkdf_extract(th_2, diffie_hellman(i, m.g_y))
      c_r == parse_identifier(m.plaintext.c_r)
      opened == m.prk = prk /\ c_r # Unreadable /\ c_r.id # Id[i]
  IN /\ AwaitsMessage2(i)
     /\ \/ /\ opened
           /\ initiator' = [initiator EXCEPT ![i] =
                [@ EXCEPT !.lifecycle = "PendingMessage2", !.eph_secret = FALSE,
                          !.g_y = m.g_y, !.th_2 = th_2, !.prk_3e2m = prk]]
           /\ pending_message_2' = [pending_message_2 EXCEPT ![i] =
                PendingMessage2(m.plaintext, c_r.id, th_2)]
        \/ /\ ~opened
           /\ PoisonInitiator(i)
           /\ UNCHANGED pending_message_2

\* The signature the message must carry for `peer` to have sent it.
Verified2(i, p, peer) ==
  verify(peer,
         m_2(initiator[i].prk_3e2m, p.c_r, p.id_cred, initiator[i].th_2, peer),
         p.plaintext.signature)

Th3(i, p, peer) == transcript_3(initiator[i].th_2, p.plaintext, peer)

Plaintext3(i, th_3) ==
  LET cred == Self[i]
  IN Plaintext_3(cred, sign(cred, m_3(initiator[i].prk_3e2m, IdCred[cred], th_3, cred)))

\* Message 3, as finish_process_message_2 returns it.
Message3(i, p, peer) ==
  LET th_3 == Th3(i, p, peer)
  IN message_3(initiator[i].prk_3e2m, th_3, Plaintext3(i, th_3))

\* Mutant of CanFinishMessage2: the binding is compared with TH_3, which the
\* object does not have yet.
CanFinishBoundTo3(i, p, peer) ==
  /\ initiator[i].lifecycle = "PendingMessage2"
  /\ p.transcript_binding = initiator[i].th_3
  /\ p.id_cred = IdCred[peer]

\* The application names a peer for the pending message.
CanFinishMessage2(i, p, peer) ==
  /\ initiator[i].lifecycle = "PendingMessage2"
  /\ p.transcript_binding = initiator[i].th_2
  /\ p.id_cred = IdCred[peer]

finish_process_message_2(i, p, peer) ==
  /\ CanFinishMessage2(i, p, peer)
  /\ IF Verified2(i, p, peer)
     THEN LET th_3 == Th3(i, p, peer)
          IN initiator' = [initiator EXCEPT ![i] =
               [@ EXCEPT !.lifecycle = "Complete", !.completed = TRUE,
                         !.c_r = p.c_r, !.th_3 = th_3,
                         !.prk_4e3m = initiator[i].prk_3e2m,
                         !.th_4 = transcript_4(th_3, Plaintext3(i, th_3), Self[i])]]
     ELSE PoisonInitiator(i)
  /\ UNCHANGED pending_message_2

\* The pending message is dropped unfinished.  process_message_2_with_credential
\* drops the one it began when finish_process_message_2 refuses the credential's
\* reference, and no call gives it back.
drop_pending_message_2(i) ==
  /\ initiator[i].lifecycle = "PendingMessage2" /\ pending_message_2[i] # None
  /\ pending_message_2' = [pending_message_2 EXCEPT ![i] = None]
  /\ UNCHANGED initiator

\* The application wipes the object.
zeroize_initiator(i) ==
  /\ initiator' = [initiator EXCEPT ![i] = WipeInitiator(@, "Zeroized")]
  /\ UNCHANGED pending_message_2

\* Mutant of export_oscore_initiator: the identifiers are the wrong way round.
ExportSwapped(i) ==
  IF initiator[i].completed /\ initiator[i].prk_4e3m # None
  THEN export_context(initiator[i].prk_4e3m, initiator[i].th_4,
                      Id[i], initiator[i].c_r)
  ELSE None

\* The initiator sends as C_R.
export_oscore_initiator(i) ==
  IF initiator[i].completed /\ initiator[i].prk_4e3m # None
  THEN export_context(initiator[i].prk_4e3m, initiator[i].th_4,
                      initiator[i].c_r, Id[i])
  ELSE None

=============================================================================
