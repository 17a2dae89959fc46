---------------------------- MODULE ReplayWindow ----------------------------
(***************************************************************************)
(* The sliding windows of an OSCORE context (src/lib.rs, 1492-1626).  A    *)
(* context keeps four of them, each a pair of a highest number and a u32   *)
(* bit mask whose bit d stands for the number `seq - d`:                   *)
(*                                                                         *)
(*   recipient_seq, replay_window               requests accepted          *)
(*   response_seq, response_window              requests answered, no PIV  *)
(*   received_response_seq, ..._window          requests whose answer came *)
(*   received_response_piv_seq, ..._window      response PIVs accepted     *)
(*                                                                         *)
(* The last three carry an `initialized` flag and take any first number;   *)
(* the first has none and starts at number 0 with an empty mask, which is  *)
(* a window that is initialized from the outset.  Apart from that the code *)
(* repeats one pair of operations four times: a test and an update.        *)
(***************************************************************************)
EXTENDS Naturals

CONSTANT WINDOW_SIZE    \* bits in a mask, 32 in the code

ASSUME WindowSizeAssumption == WINDOW_SIZE \in Nat \ {0}

Offsets == 0 .. WINDOW_SIZE - 1

Window == [initialized : BOOLEAN, seq : Nat, bits : SUBSET Offsets]

\* A context starts with these: the request window accepts number 0 although
\* its highest number is 0, because no bit of its mask is set.
FreshRequestWindow  == [initialized |-> TRUE,  seq |-> 0, bits |-> {}]
FreshResponseWindow == [initialized |-> FALSE, seq |-> 0, bits |-> {}]

-----------------------------------------------------------------------------

(***************************************************************************)
(* The test made before a number is accepted: numbers above the highest    *)
(* one pass; the others fail when they fall off the mask or their bit is   *)
(* set.                                                                    *)
(***************************************************************************)
\* Mutants of TooOld: the edge of the mask off by one, either way.
TooOldLate(w, n)  == n <= w.seq /\ w.seq - n > WINDOW_SIZE
TooOldEarly(w, n) == n <= w.seq /\ w.seq - n + 1 >= WINDOW_SIZE

TooOld(w, n) == n <= w.seq /\ w.seq - n >= WINDOW_SIZE

IsReuse(w, n) ==
  /\ w.initialized
  /\ n <= w.seq
  /\ TooOld(w, n) \/ w.seq - n \in w.bits

\* Mutant of ShiftLeft: a mask that never drops a bit.
ShiftWide(bits, k) == {d + k : d \in bits}

\* `mask << k`: bits shifted past the width of the mask are lost.
ShiftLeft(bits, k) == {d \in Offsets : d >= k /\ d - k \in bits}

\* Mutant of Mark: a new highest number starts a new mask.
MarkForgetting(w, n) ==
  IF ~w.initialized \/ n > w.seq
    THEN [initialized |-> TRUE, seq |-> n, bits |-> {0}]
    ELSE [w EXCEPT !.bits = @ \cup ({w.seq - n} \cap Offsets)]

(***************************************************************************)
(* The update made once a number is accepted.  Shifts of WINDOW_SIZE and   *)
(* more replace the mask: the code tests for them because a u32 shifted by *)
(* 32 is an overflow.                                                      *)
(***************************************************************************)
Mark(w, n) ==
  IF ~w.initialized
    THEN [initialized |-> TRUE, seq |-> n, bits |-> {0}]
  ELSE IF n > w.seq
    THEN LET shift == n - w.seq
         IN  [w EXCEPT !.seq  = n,
                       !.bits = {0} \cup (IF shift >= WINDOW_SIZE
                                            THEN {} ELSE ShiftLeft(@, shift))]
  ELSE [w EXCEPT !.bits = @ \cup ({w.seq - n} \cap Offsets)]

=============================================================================
