--------------------------- MODULE MCOscoreContext ---------------------------
(***************************************************************************)
(* Small instances of OscoreContext: who the owners talk to, and which     *)
(* responses their peers send.                                             *)
(***************************************************************************)
EXTENDS OscoreContext

\* Every owner is the same endpoint talking to the same peer, over time ...
OnePeer == [o \in Owners |-> "peer"]

\* ... or each talks to a peer of its own under one sender ID.
PeerEach == [o \in Owners |-> o]

\* Messages are opened by activated objects only.
ActiveOnly == {"active"}

\* Request 0 gets a notification and an answer without a PIV; request 1 gets an
\* answer whose PIV the notification may have pushed off the window.
FewResponses ==
  {[request |-> 0, piv |-> NoPiv], [request |-> 0, piv |-> 2],
   [request |-> 1, piv |-> 0]}

=============================================================================
