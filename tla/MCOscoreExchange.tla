-------------------------- MODULE MCOscoreExchange --------------------------
(***************************************************************************)
(* A small instance of OscoreExchange: two ends, and requests that look    *)
(* genuine but were encrypted with neither key.                            *)
(***************************************************************************)
EXTENDS OscoreExchange

CONSTANTS a, b

TwoEnds == {a, b}
EachOther == [e \in TwoEnds |-> IF e = a THEN b ELSE a]
\* b may ask once, with its first number, so that it has one to answer with.
AsksFew == [e \in TwoEnds |-> IF e = a THEN {0, 1} ELSE {0}]

ForgedRequests == {[RequestMessage(e, n) EXCEPT !.key = NoKid] : e \in TwoEnds, n \in Numbers}

=============================================================================
