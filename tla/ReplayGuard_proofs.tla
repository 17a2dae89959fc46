------------------------- MODULE ReplayGuard_proofs --------------------------
(***************************************************************************)
(* The sliding window never lets a number through twice, for every width   *)
(* of the mask and every range of numbers, and refuses no number it could  *)
(* have judged.                                                            *)
(***************************************************************************)
EXTENDS ReplayGuard, ReplayWindow_proofs

\* Every bit of the mask stands for a number that was let through, the highest
\* number was let through unless nothing was, and an uninitialized window has
\* let nothing through.
MaskIsHonest ==
  /\ \A d \in window.bits : d <= window.seq /\ window.seq - d \in accepted
  /\ window.seq \in accepted \/ (window.seq = 0 /\ window.bits = {})

IInv ==
  /\ TypeOK
  /\ AcceptedOnce
  /\ AcceptedIsRefused
  /\ MaskIsHonest

\* A fresh window, of either kind, has accepted nothing and refuses nothing.
LEMMA InitIInv == Init => IInv
<1> SUFFICES ASSUME Init PROVE IInv
  OBVIOUS
<1>1. window \in Window /\ window.seq = 0 /\ window.bits = {}
  <2>1. CASE window = FreshRequestWindow
    BY <2>1, FreshType DEF FreshRequestWindow
  <2>2. CASE window = FreshResponseWindow
    BY <2>2, FreshType DEF FreshResponseWindow
  <2> QED
    BY <2>1, <2>2 DEF Init
<1>2. TypeOK
  BY <1>1, MaxAssumption DEF Init, TypeOK, Numbers
<1> QED
  BY <1>1, <1>2 DEF Init, IInv, AcceptedOnce, AcceptedIsRefused, MaskIsHonest

\* Accepting one more number keeps every earlier one refused and every set bit
\* backed by an accepted number, however far the mask shifts.
LEMMA NextIInv == IInv /\ [Next]_vars => IInv'
<1> SUFFICES ASSUME IInv, [Next]_vars PROVE IInv'
  OBVIOUS
<1>1. ASSUME NEW n \in Numbers, Accept(n) PROVE IInv'
  <2>0. /\ window \in Window /\ n \in Nat
        /\ ~IsReuse(window, n) /\ window' = Mark(window, n)
        /\ accepted' = accepted \cup {n}
        /\ repeated' = repeated \cup ({n} \cap accepted)
    BY <1>1, MaxAssumption DEF IInv, TypeOK, Accept, Numbers
  <2>1. TypeOK'
    <3>1. window' \in Window
      BY <2>0, MarkType
    <3>2. window'.seq \in Numbers
      BY <2>0, <1>1 DEF Mark, IInv, TypeOK, Window
    <3> QED
      BY <2>0, <3>1, <3>2 DEF IInv, TypeOK
  <2>2. AcceptedOnce'
    BY <2>0 DEF IInv, AcceptedOnce, AcceptedIsRefused
  <2>3. AcceptedIsRefused'
    <3>1. IsReuse(window', n)
      BY <2>0, MarkRefuses
    <3>2. ASSUME NEW m \in accepted PROVE IsReuse(window', m)
      <4>1. m \in Nat /\ IsReuse(window, m)
        BY MaxAssumption DEF IInv, TypeOK, AcceptedIsRefused, Numbers
      <4> QED
        BY <2>0, <4>1, MarkKeeps
    <3> QED
      BY <2>0, <3>1, <3>2 DEF AcceptedIsRefused
  <2>4. MaskIsHonest'
    <3>1. \A d \in window.bits : d <= window.seq /\ window.seq - d \in accepted
      BY DEF IInv, MaskIsHonest
    <3>2. window.seq \in Nat /\ window.bits \subseteq Offsets
      BY <2>0 DEF Window
    <3>3. CASE ~window.initialized
      <4>1. window'.seq = n /\ window'.bits = {0}
        BY <2>0, <3>3 DEF Mark
      <4> QED
        BY <2>0, <4>1 DEF MaskIsHonest
    <3>4. CASE window.initialized /\ n > window.seq
      <4>1. /\ window'.seq = n
            /\ \A d \in window'.bits :
                 d = 0 \/ (d \in Offsets /\ d >= n - window.seq
                           /\ d - (n - window.seq) \in window.bits)
        BY <2>0, <3>4 DEF Mark, Window, ShiftLeft
      <4>2. ASSUME NEW d \in window'.bits, d # 0
            PROVE  d <= n /\ n - d \in accepted
        <5>1. /\ d \in Nat /\ d >= n - window.seq
              /\ d - (n - window.seq) \in window.bits
          BY <4>1, <4>2 DEF Offsets
        <5>2. /\ d - (n - window.seq) <= window.seq
              /\ window.seq - (d - (n - window.seq)) \in accepted
          BY <3>1, <5>1
        <5>3. window.seq - (d - (n - window.seq)) = n - d /\ d <= n
          BY <2>0, <3>2, <5>1, <5>2
        <5> QED
          BY <5>2, <5>3
      <4> QED
        BY <2>0, <4>1, <4>2 DEF MaskIsHonest
    <3>5. CASE window.initialized /\ ~(n > window.seq)
      <4>1. /\ window'.seq = window.seq
            /\ window'.bits \subseteq window.bits \cup {window.seq - n}
        BY <2>0, <3>5 DEF Mark, Window
      <4>2. n <= window.seq /\ window.seq - (window.seq - n) = n
        BY <2>0, <3>2, <3>5
      <4>3. window.seq = 0 /\ window.bits = {} => n = window.seq
        BY <2>0, <4>2
      <4>4. window.seq - n <= window.seq
        BY <2>0, <3>2, <4>2
      <4>5. window'.seq \in accepted'
        BY <2>0, <4>1, <4>3 DEF IInv, MaskIsHonest
      <4>6. ASSUME NEW d \in window'.bits
            PROVE  d <= window.seq /\ window.seq - d \in accepted'
        <5>1. CASE d \in window.bits
          BY <2>0, <3>1, <5>1
        <5>2. CASE d = window.seq - n
          BY <2>0, <4>2, <4>4, <5>2
        <5> QED
          BY <4>1, <5>1, <5>2
      <4> QED
        BY <4>1, <4>5, <4>6 DEF MaskIsHonest
    <3> QED
      BY <2>0, <3>3, <3>4, <3>5 DEF Window
  <2> QED
    BY <2>1, <2>2, <2>3, <2>4 DEF IInv
<1>2. CASE UNCHANGED vars
  BY <1>2 DEF IInv, TypeOK, AcceptedOnce, AcceptedIsRefused, MaskIsHonest, vars
<1> QED
  BY <1>1, <1>2 DEF Next

\* Since set bits are backed by accepted numbers, a refusal of any other number
\* means that it fell off the mask.
LEMMA IInvPrecise == IInv => RefusedOnlyIfOld
<1> SUFFICES ASSUME IInv, NEW n \in Numbers \ accepted, IsReuse(window, n)
             PROVE  \E a \in accepted : a >= n + WINDOW_SIZE
  BY DEF RefusedOnlyIfOld
<1>1. /\ n \in Nat /\ n <= window.seq /\ window.seq \in Nat
      /\ TooOld(window, n) \/ window.seq - n \in window.bits
  BY MaxAssumption DEF IsReuse, IInv, TypeOK, Window, Numbers
<1>2. ~(window.seq - n \in window.bits)
  BY <1>1 DEF IInv, MaskIsHonest
<1>3. window.seq >= n + WINDOW_SIZE /\ window.seq # 0
  BY <1>1, <1>2, WindowSizeAssumption DEF TooOld
<1>4. window.seq \in accepted
  BY <1>3 DEF IInv, MaskIsHonest
<1> QED
  BY <1>3, <1>4

\* The inductive invariant holds in every reachable state.
THEOREM Inductive == Spec => []IInv
  BY InitIInv, NextIInv, PTL DEF Spec

\* No request, and no response, is accepted twice by one window: shifting,
\* replacing and setting bits lose nothing (src/lib.rs, 1492-1626).
THEOREM NeverAcceptedTwice == Spec => [](TypeOK /\ AcceptedOnce /\ AcceptedIsRefused)
<1>1. IInv => TypeOK /\ AcceptedOnce /\ AcceptedIsRefused
  BY DEF IInv
<1> QED
  BY <1>1, Inductive, PTL

\* The window is a highest number and a mask of its own width, whatever numbers
\* come (update_replay_window and its three copies).
THEOREM WindowTyped == Spec => []TypeOK
  BY NeverAcceptedTwice, PTL

\* A number that was never accepted is refused only when it lies WINDOW_SIZE or
\* more below one that was: the window costs no reordered message.
THEOREM RefusesNoMore == Spec => []RefusedOnlyIfOld
  BY Inductive, IInvPrecise, PTL

=============================================================================
