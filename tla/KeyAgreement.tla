----------------------------- MODULE KeyAgreement -----------------------------
(***************************************************************************)
(* What a handshake promises its two applications, with no messages, keys  *)
(* or lifecycles in sight: an initiator takes a responder nobody else has  *)
(* taken, a responder takes the initiator that took it, nobody takes       *)
(* twice, and who gave up before taking anybody never does.                *)
(***************************************************************************)
CONSTANTS Initiators, Responders, None

VARIABLES
  partner,       \* whom each session took, or None
  given_up       \* sessions that failed or were wiped

vars == <<partner, given_up>>

Sessions == Initiators \cup Responders

Init == partner = [s \in Sessions |-> None] /\ given_up = {}

Take(s, t) ==
  /\ partner[s] = None /\ s \notin given_up
  /\ partner' = [partner EXCEPT ![s] = t]
  /\ UNCHANGED given_up

InitiatorTakes(i, r) ==
  /\ \A j \in Initiators : partner[j] # r
  /\ Take(i, r)

ResponderTakes(r, i) == partner[i] = r /\ Take(r, i)

GiveUp(s) == given_up' = given_up \cup {s} /\ UNCHANGED partner

Next ==
  \/ \E i \in Initiators, r \in Responders : InitiatorTakes(i, r) \/ ResponderTakes(r, i)
  \/ \E s \in Sessions : GiveUp(s)

Spec == Init /\ [][Next]_vars

=============================================================================
