---------------------------- MODULE ReplayGuard -----------------------------
(***************************************************************************)
(* One sliding window at work: numbers arrive in any order, any number of  *)
(* times; the window decides, and what it lets through is recorded.  This  *)
(* is the discipline every caller in src/lib.rs follows: test, do the work *)
(* that may fail, and update only if it succeeded.                         *)
(***************************************************************************)
EXTENDS ReplayWindow

CONSTANT MAX     \* the highest number that can arrive, 2^40 - 1 in the code

ASSUME MaxAssumption == MAX \in Nat

VARIABLES
  window,     \* the window
  accepted,   \* history: the numbers let through
  repeated    \* history: those let through more than once

vars == <<window, accepted, repeated>>

Numbers == 0 .. MAX

TypeOK ==
  /\ window \in Window
  /\ window.seq \in Numbers
  /\ accepted \in SUBSET Numbers
  /\ repeated \in SUBSET Numbers

Init ==
  /\ window \in {FreshRequestWindow, FreshResponseWindow}
  /\ accepted = {}
  /\ repeated = {}

\* A number passes the test, the message is genuine, and the window moves.  A
\* number that fails the test, or a message that fails after it, leaves the
\* window alone: those calls are stuttering steps.
Accept(n) ==
  /\ ~IsReuse(window, n)
  /\ window'   = Mark(window, n)
  /\ accepted' = accepted \cup {n}
  /\ repeated' = repeated \cup ({n} \cap accepted)

Next == \E n \in Numbers : Accept(n)

Spec == Init /\ [][Next]_vars

-----------------------------------------------------------------------------

\* No number is let through twice, however far the window has moved and in
\* whatever order numbers came (shift and mask arithmetic of
\* update_replay_window and the three mark_* functions).
AcceptedOnce == repeated = {}

\* The window remembers everything it must: each number let through is refused
\* from then on.  This is what AcceptedOnce rests on.
AcceptedIsRefused == \A n \in accepted : IsReuse(window, n)

\* ... and refuses nothing it could have judged: a number that was never let
\* through is refused only once some number let through lies WINDOW_SIZE or more
\* above it.  Reordering within the window costs no message, and only accepted
\* numbers push the window forward.
RefusedOnlyIfOld ==
  \A n \in Numbers \ accepted :
    IsReuse(window, n) => \E a \in accepted : a >= n + WINDOW_SIZE

=============================================================================
