--------------------------- MODULE RequestResponse ---------------------------
(***************************************************************************)
(* What OSCORE promises the applications at its two ends, with no keys,    *)
(* nonces, windows, messages or crashes in sight: a peer acts on a request *)
(* only if it was made, and once; a client acts on an answer only if its   *)
(* peer gave that answer to that very request, and once.                   *)
(***************************************************************************)
EXTENDS Naturals

CONSTANTS Endpoints, Numbers, NoPiv

VARIABLES
  issued,    \* the requests that were made
  served,    \* how often the peer's application acted on each request
  answers,   \* the answers given
  taken      \* how often the client's application acted on each answer

vars == <<issued, served, answers, taken>>

Requests == [client : Endpoints, number : Numbers]
Answers == [request : Requests, piv : Numbers \cup {NoPiv}]

Init ==
  /\ issued = {} /\ answers = {}
  /\ served = [r \in Requests |-> 0]
  /\ taken = [a \in Answers |-> 0]

Issue(r) ==
  /\ r \notin issued
  /\ issued' = issued \cup {r}
  /\ UNCHANGED <<served, answers, taken>>

Give(a) ==
  /\ served[a.request] = 1
  /\ a \notin answers
  /\ answers' = answers \cup {a}
  /\ UNCHANGED <<issued, served, taken>>

\* An application saves its windows once for all that it then acts on.
Act(e, requests, given) ==
  /\ \A r \in requests : r.client # e /\ served[r] = 0
  /\ \A a \in given : a.request.client = e /\ taken[a] = 0
  /\ served' = [r \in Requests |-> IF r \in requests THEN 1 ELSE served[r]]
  /\ taken' = [a \in Answers |-> IF a \in given THEN 1 ELSE taken[a]]
  /\ UNCHANGED <<issued, answers>>

Next ==
  \/ \E r \in Requests : Issue(r)
  \/ \E a \in Answers : Give(a)
  \/ \E e \in Endpoints, requests \in SUBSET issued, given \in SUBSET answers :
       Act(e, requests, given)

Spec == Init /\ [][Next]_vars

=============================================================================
