------------------------- MODULE ReplayWindow_proofs -------------------------
(***************************************************************************)
(* What the window operators guarantee, for every width of the mask and    *)
(* every number: the facts every argument about replay rests on.           *)
(***************************************************************************)
EXTENDS ReplayWindow, TLAPS

\* The windows a context starts with are well-formed.
LEMMA FreshType == FreshRequestWindow \in Window /\ FreshResponseWindow \in Window
<1>1. {} \in SUBSET Offsets
  OBVIOUS
<1>2. FreshRequestWindow \in Window
  BY <1>1 DEF FreshRequestWindow, Window
<1>3. FreshResponseWindow \in Window
  BY <1>1 DEF FreshResponseWindow, Window
<1> QED
  BY <1>2, <1>3

\* An update of any of the four windows leaves a well-formed window.
LEMMA MarkType ==
  ASSUME NEW w \in Window, NEW n \in Nat
  PROVE  Mark(w, n) \in Window
<1> DEFINE shifted == {0} \cup (IF n - w.seq >= WINDOW_SIZE
                                 THEN {} ELSE ShiftLeft(w.bits, n - w.seq))
           marked  == w.bits \cup ({w.seq - n} \cap Offsets)
<1>1. {0} \subseteq Offsets /\ shifted \subseteq Offsets
  BY WindowSizeAssumption DEF Offsets, ShiftLeft
<1>2. marked \subseteq Offsets
  BY DEF Window
<1>3. CASE ~w.initialized
  BY <1>1, <1>3 DEF Mark, Window
<1>4. CASE w.initialized /\ n > w.seq
  <2>1. Mark(w, n) = [w EXCEPT !.seq = n, !.bits = shifted]
    BY <1>4 DEF Mark
  <2> HIDE DEF shifted
  <2> QED
    BY <1>1, <2>1 DEF Window
<1>5. CASE w.initialized /\ ~(n > w.seq)
  <2>1. Mark(w, n) = [w EXCEPT !.bits = marked]
    BY <1>5 DEF Mark
  <2> HIDE DEF marked
  <2> QED
    BY <1>2, <2>1 DEF Window
<1> QED
  BY <1>3, <1>4, <1>5

\* A number marked after it passed the test fails the test from then on.
LEMMA MarkRefuses ==
  ASSUME NEW w \in Window, NEW n \in Nat, ~IsReuse(w, n)
  PROVE  IsReuse(Mark(w, n), n)
  BY WindowSizeAssumption DEF Window, Mark, IsReuse, TooOld, Offsets

\* A number refused before an update is refused after it: the window never
\* forgets, whether it shifts, is replaced or sets a bit.
LEMMA MarkKeeps ==
  ASSUME NEW w \in Window, NEW n \in Nat, NEW m \in Nat, IsReuse(w, m)
  PROVE  IsReuse(Mark(w, n), m)
<1>1. w.initialized /\ m <= w.seq /\ w.seq \in Nat /\ w.bits \subseteq Offsets
  BY DEF Window, IsReuse
<1>2. CASE n <= w.seq
  BY <1>1, <1>2 DEF Mark, IsReuse, TooOld
<1>3. CASE n > w.seq
  <2>1. Mark(w, n).initialized /\ Mark(w, n).seq = n /\ m <= n
    BY <1>1, <1>3 DEF Mark, Window
  <2>2. CASE n - m >= WINDOW_SIZE
    BY <2>1, <2>2 DEF IsReuse, TooOld
  <2>3. CASE n - m < WINDOW_SIZE
    <3>1. w.seq - m \in w.bits
      BY <1>1, <1>3, <2>3, WindowSizeAssumption DEF IsReuse, TooOld
    <3>2. n - m \in ShiftLeft(w.bits, n - w.seq)
      BY <1>1, <1>3, <2>3, <3>1, WindowSizeAssumption DEF ShiftLeft, Offsets
    <3>3. n - m \in Mark(w, n).bits
      BY <1>1, <1>3, <2>3, <3>2, WindowSizeAssumption DEF Mark, Window
    <3> QED
      BY <2>1, <3>3 DEF IsReuse
  <2> QED
    BY <1>1, <2>2, <2>3, WindowSizeAssumption
<1> QED
  BY <1>1, <1>2, <1>3

=============================================================================
