--------------------------- MODULE OneShotSequence ---------------------------
(***************************************************************************)
(* What sender-sequence reservation promises its callers, with no stores,  *)
(* owners or crashes in sight: numbers are dealt in increasing order, each *)
(* at most once, and a number dealt is either used once or lost.           *)
(***************************************************************************)
EXTENDS Naturals

CONSTANT MAX     \* the terminal sequence number

VARIABLES
  next,          \* every number below it has been dealt or skipped
  outstanding,   \* numbers dealt and neither used nor lost
  used           \* numbers a message has been encrypted with

vars == <<next, outstanding, used>>

Init == next = 0 /\ outstanding = {} /\ used = {}

\* The terminal number is dealt like any other; after it nothing is.
Deal ==
  /\ next <= MAX
  /\ next' = next + 1
  /\ outstanding' = outstanding \cup {next}
  /\ UNCHANGED used

\* A number is skipped: it was made durable, but nobody learned of it.
Skip ==
  /\ next <= MAX
  /\ next' = next + 1
  /\ UNCHANGED <<outstanding, used>>

Use(n) ==
  /\ n \in outstanding
  /\ n \notin used
  /\ outstanding' = outstanding \ {n}
  /\ used' = used \cup {n}
  /\ UNCHANGED next

Lose(n) ==
  /\ n \in outstanding
  /\ outstanding' = outstanding \ {n}
  /\ UNCHANGED <<next, used>>

Next == Deal \/ Skip \/ \E n \in outstanding : Use(n) \/ Lose(n)

Spec == Init /\ [][Next]_vars

=============================================================================
