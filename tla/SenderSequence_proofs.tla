------------------------ MODULE SenderSequence_proofs ------------------------
(***************************************************************************)
(* Sender sequence allocation, for any number of owners and any terminal   *)
(* number.  The argument: a successful exchange finds the store exactly    *)
(* where the object stands and leaves it one further, so the number it     *)
(* deals is the durable position itself; every number dealt before lies    *)
(* below that position; hence it is new.  Crashes, restores and lost       *)
(* answers move objects, never the store, backwards.                       *)
(***************************************************************************)
EXTENDS SenderSequence, TLAPS

StateValid(state) == state.exhausted => state.next_sequence = MAX

\* The store and the objects hold only states the code can have made.
StatesValid ==
  /\ store # NoState => StateValid(store)
  /\ \A o \in Owners :
       /\ status[o] # "absent" => StateValid(sender_sequence_state(o))
       /\ status[o] = "inactive" => sender_seq[o] = 0 /\ ~exhausted[o]
       /\ status[o] \in {"restoring", "active", "reserved"} => store # NoState

ReservationsBehind == \A o \in Reserved : sequence[o] < DurablePosition

WholeInv ==
  /\ TypeOK
  /\ StatesValid
  /\ ReservationsBehind
  /\ ReservationsDistinct

-----------------------------------------------------------------------------

\* Before any context exists the whole invariant holds: no record, no objects.
LEMMA InitWhole == Init => WholeInv
  BY MaxAssumption
  DEF Init, WholeInv, TypeOK, StatesValid, ReservationsBehind,
      ReservationsDistinct, Reserved, SeqNums, Statuses

\* The state an object would exchange is made of its two fields
\* (sender_sequence_state).
LEMMA MemoryState ==
  ASSUME TypeOK, NEW o \in Owners
  PROVE  /\ sender_sequence_state(o) \in SenderSequenceState
         /\ sender_sequence_state(o).next_sequence = sender_seq[o]
         /\ sender_sequence_state(o).exhausted = exhausted[o]
  BY DEF TypeOK, sender_sequence_state, SenderSequenceState

\* A position lies between 0 and one past the terminal number.
LEMMA PositionType ==
  ASSUME NEW state \in SenderSequenceState
  PROVE  Position(state) \in Nat /\ Position(state) <= MAX + 1
  BY MaxAssumption DEF Position, SenderSequenceState, SeqNums

\* So does the durable one: positions of the record can be compared.
LEMMA DurableType == TypeOK => DurablePosition \in Nat
  BY PositionType DEF DurablePosition, TypeOK

\* Reserving moves a state that is not exhausted exactly one position on.
LEMMA AdvancedPosition ==
  ASSUME NEW state \in SenderSequenceState, ~state.exhausted
  PROVE  /\ Advanced(state) \in SenderSequenceState
         /\ StateValid(Advanced(state))
         /\ Position(state) = state.next_sequence
         /\ Position(Advanced(state)) = state.next_sequence + 1
<1>1. state.next_sequence \in 0 .. MAX
  BY DEF SenderSequenceState, SeqNums
<1>2. CASE state.next_sequence < MAX
  <2>1. state.next_sequence + 1 \in 0 .. MAX
    BY <1>1, <1>2, MaxAssumption
  <2> QED
    BY <1>2, <2>1 DEF Advanced, SenderSequenceState, SeqNums, StateValid, Position
<1>3. CASE ~(state.next_sequence < MAX)
  <2>1. state.next_sequence = MAX /\ MAX \in 0 .. MAX
    BY <1>1, <1>3, MaxAssumption
  <2> QED
    BY <1>3, <2>1 DEF Advanced, SenderSequenceState, SeqNums, StateValid, Position
<1> QED
  BY <1>2, <1>3

\* Two valid states at the same position are the same state.
LEMMA SamePosition ==
  ASSUME NEW s \in SenderSequenceState, NEW t \in SenderSequenceState,
         StateValid(s), StateValid(t), Position(s) = Position(t)
  PROVE  s = t
<1>1. /\ s.next_sequence \in 0 .. MAX /\ t.next_sequence \in 0 .. MAX
      /\ s.exhausted \in BOOLEAN /\ t.exhausted \in BOOLEAN
      /\ s = [next_sequence |-> s.next_sequence, exhausted |-> s.exhausted]
      /\ t = [next_sequence |-> t.next_sequence, exhausted |-> t.exhausted]
  BY DEF SenderSequenceState, SeqNums
<1>2. s.exhausted <=> t.exhausted
  BY <1>1, MaxAssumption DEF Position
<1>3. s.next_sequence = t.next_sequence
  BY <1>1, <1>2 DEF Position, StateValid
<1>4. s.exhausted = t.exhausted
  BY <1>1, <1>2
<1> QED
  BY <1>1, <1>3, <1>4

-----------------------------------------------------------------------------

\* What a successful exchange in reserve_sender does to the durable position.
LEMMA ReserveAdvances ==
  ASSUME WholeInv, NEW o \in Owners, ReserveSender(o)
  PROVE  /\ store' = Advanced(sender_sequence_state(o))
         /\ store' \in SenderSequenceState
         /\ store' # NoState
         /\ StateValid(store')
         /\ DurablePosition = sender_seq[o]
         /\ DurablePosition' = sender_seq[o] + 1
<1> DEFINE expected == sender_sequence_state(o)
<1>1. /\ store = expected /\ store' = Advanced(expected)
      /\ ~exhausted[o]
  BY DEF ReserveSender, Exchanged
<1>2. /\ expected \in SenderSequenceState /\ ~expected.exhausted
      /\ expected.next_sequence = sender_seq[o]
  BY <1>1, MemoryState DEF WholeInv
<1> HIDE DEF expected
<1>3. /\ Advanced(expected) \in SenderSequenceState
      /\ StateValid(Advanced(expected))
      /\ Position(expected) = sender_seq[o]
      /\ Position(Advanced(expected)) = sender_seq[o] + 1
  BY <1>2, AdvancedPosition
<1>4. store # NoState /\ store' # NoState
  BY <1>1, <1>2, <1>3, NoStateAssumption
<1> QED
  BY <1>1, <1>3, <1>4 DEF DurablePosition, expected

\* Registration makes the first record, at position 0.
LEMMA RegisterStore ==
  ASSUME WholeInv, NEW o \in Owners, RegisterFresh(o)
  PROVE  /\ store' = store \/ store = NoState
         /\ store' \in SenderSequenceState \cup {NoState}
         /\ store' # NoState => StateValid(store')
         /\ store # NoState => store' # NoState
         /\ status'[o] = "active" => store' # NoState
         /\ DurablePosition' = DurablePosition
<1>1. /\ status[o] = "inactive" /\ sender_seq[o] = 0 /\ ~exhausted[o]
      /\ StateValid(sender_sequence_state(o))
      /\ sender_sequence_state(o) \in SenderSequenceState
      /\ Position(sender_sequence_state(o)) = 0
  BY MemoryState DEF RegisterFresh, WholeInv, StatesValid, Position
<1>2. CASE Exchanged(NoState, sender_sequence_state(o))
  BY <1>1, <1>2, NoStateAssumption DEF Exchanged, DurablePosition
<1>3. CASE UNCHANGED store /\ Destroy(o)
  BY <1>3 DEF WholeInv, TypeOK, StatesValid, DurablePosition, Destroy, SetStatus
<1> QED
  BY <1>2, <1>3 DEF RegisterFresh, Refused, Failed, Exchanged

\* Every call keeps the state well-typed; reserve_sender because it stops at MAX.
LEMMA StepType == WholeInv /\ [Next]_vars => TypeOK'
<1> SUFFICES ASSUME WholeInv, [Next]_vars PROVE TypeOK'
  OBVIOUS
<1> USE DEF memory, history
<1>0. TypeOK
  BY DEF WholeInv
<1>1. CASE UNCHANGED vars
  BY <1>0, <1>1 DEF TypeOK, vars
<1>2. ASSUME NEW o \in Owners, New(o) PROVE TypeOK'
  BY <1>0, <1>2, MaxAssumption DEF TypeOK, New, SetStatus, Statuses, SeqNums
<1>3. ASSUME NEW o \in Owners, Drop(o) \/ RegisterActive(o) PROVE TypeOK'
  BY <1>0, <1>3 DEF TypeOK, Drop, RegisterActive, Destroy, SetStatus, Statuses
<1>4. ASSUME NEW o \in Owners, RegisterFresh(o) PROVE TypeOK'
  <2>1. store' \in SenderSequenceState \cup {NoState}
    BY <1>4, RegisterStore
  <2> QED
    BY <1>0, <1>4, <2>1 DEF TypeOK, RegisterFresh, Destroy, SetStatus, Statuses
<1>5. ASSUME NEW o \in Owners, BeginRestore(o) PROVE TypeOK'
  <2>1. CASE Destroy(o)
    BY <1>0, <1>5, <2>1 DEF TypeOK, BeginRestore, Destroy, SetStatus, Statuses
  <2>2. CASE /\ store # NoState /\ set_sender_state(o, store)
             /\ SetStatus(o, "restoring") /\ UNCHANGED sequence
    <3>1. store.next_sequence \in SeqNums /\ store.exhausted \in BOOLEAN
      BY <1>0, <2>2 DEF TypeOK, SenderSequenceState
    <3> QED
      BY <1>0, <1>5, <2>2, <3>1
      DEF TypeOK, BeginRestore, set_sender_state, SetStatus, Statuses
  <2> QED
    BY <1>5, <2>1, <2>2 DEF BeginRestore
<1>6. ASSUME NEW o \in Owners, FinishRestore(o) PROVE TypeOK'
  BY <1>0, <1>6 DEF TypeOK, FinishRestore, Destroy, SetStatus, Statuses
<1>7. ASSUME NEW o \in Owners, ReserveSender(o) PROVE TypeOK'
  <2>1. store' \in SenderSequenceState
    BY <1>7, ReserveAdvances
  <2>2. CASE UNCHANGED memory
    BY <1>0, <1>7, <2>1, <2>2 DEF TypeOK, ReserveSender
  <2>3. CASE /\ set_sender_state(o, Advanced(sender_sequence_state(o)))
             /\ sequence' = [sequence EXCEPT ![o] = sender_seq[o]]
             /\ SetStatus(o, "reserved")
    <3>1. set_sender_state(o, store')
      BY <1>7, <2>3, ReserveAdvances
    <3>2. store'.next_sequence \in SeqNums /\ store'.exhausted \in BOOLEAN
      BY <2>1 DEF SenderSequenceState
    <3> QED
      BY <1>0, <1>7, <2>1, <2>3, <3>1, <3>2
      DEF TypeOK, ReserveSender, set_sender_state, SetStatus, Statuses
  <2> QED
    BY <1>7, <2>2, <2>3 DEF ReserveSender
<1>8. ASSUME NEW o \in Owners, ProtectReserved(o) PROVE TypeOK'
  BY <1>0, <1>8 DEF TypeOK, ProtectReserved, Encrypt, SetStatus, Statuses
<1>9. ASSUME NEW o \in Owners, ProtectResponseWithPiv(o) PROVE TypeOK'
  <2>1. sender_seq[o] \in SeqNums /\ sender_seq[o] + 1 \in SeqNums
    BY <1>0, <1>9, MaxAssumption DEF TypeOK, ProtectResponseWithPiv, SeqNums
  <2> QED
    BY <1>0, <1>9, <2>1 DEF TypeOK, ProtectResponseWithPiv, Encrypt
<1> QED
  BY <1>1, <1>2, <1>3, <1>4, <1>5, <1>6, <1>7, <1>8, <1>9
  DEF Next, Lifecycle, Restore, Reserve

\* Every call leaves records and objects the code can have made: exhausted only
\* at MAX, fresh objects at 0, activated objects only where a record exists.
LEMMA StepValid == WholeInv /\ [Next]_vars => StatesValid'
<1> SUFFICES ASSUME WholeInv, [Next]_vars PROVE StatesValid'
  OBVIOUS
<1> USE DEF memory, history
<1>0. TypeOK /\ StatesValid
  BY DEF WholeInv
<1>1. CASE UNCHANGED vars
  BY <1>0, <1>1 DEF StatesValid, sender_sequence_state, vars
<1>2. ASSUME NEW o \in Owners, New(o) PROVE StatesValid'
  BY <1>0, <1>2
  DEF TypeOK, StatesValid, New, SetStatus, sender_sequence_state, StateValid
<1>3. ASSUME NEW o \in Owners, Drop(o) \/ RegisterActive(o) PROVE StatesValid'
  BY <1>0, <1>3
  DEF TypeOK, StatesValid, Drop, RegisterActive, Destroy, SetStatus,
      sender_sequence_state
<1>4. ASSUME NEW o \in Owners, RegisterFresh(o) PROVE StatesValid'
  <2>1. /\ store' # NoState => StateValid(store')
        /\ store # NoState => store' # NoState
        /\ status'[o] = "active" => store' # NoState
    BY <1>4, RegisterStore
  <2>2. /\ UNCHANGED <<sender_seq, exhausted>>
        /\ SetStatus(o, "active") \/ SetStatus(o, "absent")
        /\ status[o] = "inactive"
    BY <1>4 DEF RegisterFresh, Destroy
  <2> QED
    BY <1>0, <2>1, <2>2 DEF TypeOK, StatesValid, SetStatus, sender_sequence_state
<1>5. ASSUME NEW o \in Owners, BeginRestore(o) PROVE StatesValid'
  <2>1. CASE Destroy(o)
    BY <1>0, <1>5, <2>1
    DEF TypeOK, StatesValid, BeginRestore, Destroy, SetStatus, sender_sequence_state
  <2>2. CASE /\ store # NoState /\ set_sender_state(o, store)
             /\ SetStatus(o, "restoring") /\ UNCHANGED sequence
    <3>1. StateValid(store) /\ UNCHANGED store
      BY <1>0, <1>5, <2>2 DEF StatesValid, BeginRestore
    <3> QED
      BY <1>0, <2>2, <3>1
      DEF TypeOK, StatesValid, set_sender_state, SetStatus, StateValid,
          sender_sequence_state
  <2> QED
    BY <1>5, <2>1, <2>2 DEF BeginRestore
<1>6. ASSUME NEW o \in Owners, FinishRestore(o) PROVE StatesValid'
  BY <1>0, <1>6
  DEF TypeOK, StatesValid, FinishRestore, Destroy, SetStatus, sender_sequence_state
<1>7. ASSUME NEW o \in Owners, ReserveSender(o) PROVE StatesValid'
  <2>1. /\ store' # NoState /\ StateValid(store')
        /\ store' = Advanced(sender_sequence_state(o))
    BY <1>7, ReserveAdvances
  <2>2. CASE UNCHANGED memory
    BY <1>0, <2>1, <2>2 DEF StatesValid, sender_sequence_state
  <2>3. CASE /\ set_sender_state(o, Advanced(sender_sequence_state(o)))
             /\ SetStatus(o, "reserved")
    <3>1. set_sender_state(o, store')
      BY <2>1, <2>3
    <3> QED
      BY <1>0, <2>1, <2>3, <3>1
      DEF TypeOK, StatesValid, set_sender_state, SetStatus, StateValid,
          sender_sequence_state
  <2> QED
    BY <1>7, <2>2, <2>3 DEF ReserveSender
<1>8. ASSUME NEW o \in Owners, ProtectReserved(o) PROVE StatesValid'
  BY <1>0, <1>8
  DEF TypeOK, StatesValid, ProtectReserved, SetStatus, sender_sequence_state
<1>9. ASSUME NEW o \in Owners, ProtectResponseWithPiv(o) PROVE StatesValid'
  <2>1. ~exhausted[o]
    BY <1>0, <1>9, MaxAssumption
    DEF StatesValid, StateValid, ProtectResponseWithPiv, sender_sequence_state
  <2> QED
    BY <1>0, <1>9, <2>1
    DEF TypeOK, StatesValid, StateValid, ProtectResponseWithPiv, sender_sequence_state
<1> QED
  BY <1>1, <1>2, <1>3, <1>4, <1>5, <1>6, <1>7, <1>8, <1>9
  DEF Next, Lifecycle, Restore, Reserve

-----------------------------------------------------------------------------

\* Only reserve_sender moves the durable position and gives out reservations;
\* every other call leaves the position where it is and can only end some.
Quiet ==
  /\ DurablePosition' = DurablePosition
  /\ Reserved' \subseteq Reserved
  /\ UNCHANGED sequence

LEMMA OthersAreQuiet ==
  ASSUME WholeInv, [Next]_vars, \A o \in Owners : ~ReserveSender(o)
  PROVE  Quiet
<1> USE DEF memory, history
<1>0. TypeOK
  BY DEF WholeInv
<1>1. CASE UNCHANGED vars
  BY <1>1 DEF Quiet, DurablePosition, Reserved, vars
<1>2. ASSUME NEW o \in Owners, New(o) PROVE Quiet
  BY <1>0, <1>2 DEF TypeOK, Quiet, DurablePosition, Reserved, New, SetStatus
<1>3. ASSUME NEW o \in Owners, Drop(o) \/ RegisterActive(o) PROVE Quiet
  BY <1>0, <1>3
  DEF TypeOK, Quiet, DurablePosition, Reserved, Drop, RegisterActive, Destroy,
      SetStatus
<1>4. ASSUME NEW o \in Owners, RegisterFresh(o) PROVE Quiet
  <2>1. DurablePosition' = DurablePosition
    BY <1>4, RegisterStore
  <2>2. /\ UNCHANGED sequence
        /\ SetStatus(o, "active") \/ SetStatus(o, "absent")
    BY <1>4 DEF RegisterFresh, Destroy
  <2> QED
    BY <1>0, <2>1, <2>2 DEF TypeOK, Quiet, Reserved, SetStatus
<1>5. ASSUME NEW o \in Owners, BeginRestore(o) \/ FinishRestore(o) PROVE Quiet
  BY <1>0, <1>5
  DEF TypeOK, Quiet, DurablePosition, Reserved, BeginRestore, FinishRestore,
      Destroy, SetStatus
<1>6. ASSUME NEW o \in Owners, ProtectReserved(o) \/ ProtectResponseWithPiv(o)
      PROVE  Quiet
  BY <1>0, <1>6
  DEF TypeOK, Quiet, DurablePosition, Reserved, ProtectReserved,
      ProtectResponseWithPiv, SetStatus
<1> QED
  BY <1>1, <1>2, <1>3, <1>4, <1>5, <1>6
  DEF Next, Lifecycle, Restore, Reserve

\* reserve_sender succeeds, or its answer is lost and no object learns of it.
LEMMA ReserveOutcome ==
  ASSUME WholeInv, NEW o \in Owners, ReserveSender(o)
  PROVE  /\ o \notin Reserved
         /\ \/ Reserved' = Reserved /\ UNCHANGED sequence
            \/ /\ Reserved' = Reserved \cup {o}
               /\ sequence' = [sequence EXCEPT ![o] = DurablePosition]
<1>1. DurablePosition = sender_seq[o]
  BY ReserveAdvances
<1>2. TypeOK
  BY DEF WholeInv
<1> QED
  BY <1>1, <1>2 DEF ReserveSender, Reserved, SetStatus, memory, TypeOK

\* Every call keeps live reservations behind the durable position and apart:
\* only reserve_sender makes one, at the position the exchange leaves behind.
LEMMA StepReservations ==
  WholeInv /\ [Next]_vars => ReservationsBehind' /\ ReservationsDistinct'
<1> SUFFICES ASSUME WholeInv, [Next]_vars
             PROVE  ReservationsBehind' /\ ReservationsDistinct'
  OBVIOUS
<1>0. /\ TypeOK /\ ReservationsBehind /\ ReservationsDistinct
      /\ DurablePosition \in Nat
  BY DurableType DEF WholeInv
<1>1. CASE \A o \in Owners : ~ReserveSender(o)
  BY <1>0, <1>1, OthersAreQuiet DEF Quiet, ReservationsBehind, ReservationsDistinct
<1>2. ASSUME NEW o \in Owners, ReserveSender(o)
      PROVE  ReservationsBehind' /\ ReservationsDistinct'
  <2>1. DurablePosition' = DurablePosition + 1
    BY <1>2, ReserveAdvances
  <2>2. \A p \in Reserved : sequence[p] \in Nat /\ sequence[p] < DurablePosition
    BY <1>0, MaxAssumption DEF ReservationsBehind, Reserved, TypeOK, SeqNums
  <2>3. CASE Reserved' = Reserved /\ UNCHANGED sequence
    BY <1>0, <2>1, <2>2, <2>3 DEF ReservationsBehind, ReservationsDistinct
  <2>4. CASE /\ Reserved' = Reserved \cup {o}
             /\ sequence' = [sequence EXCEPT ![o] = DurablePosition]
    <3>1. sequence'[o] = DurablePosition
      BY <1>0, <2>4 DEF TypeOK
    <3>2. \A p \in Reserved : p # o /\ sequence'[p] = sequence[p]
      BY <1>0, <1>2, <2>4, ReserveOutcome DEF TypeOK, Reserved
    <3> QED
      BY <1>0, <2>1, <2>2, <2>4, <3>1, <3>2
      DEF ReservationsBehind, ReservationsDistinct
  <2> QED
    BY <1>2, <2>3, <2>4, ReserveOutcome
<1> QED
  BY <1>1, <1>2

\* The whole invariant holds in every reachable state of the full interface,
\* protect_response with include_piv included.
THEOREM WholeInductive == Spec => []WholeInv
<1>1. WholeInv /\ [Next]_vars => WholeInv'
  BY StepType, StepValid, StepReservations DEF WholeInv
<1> QED
  BY <1>1, InitWhole, PTL DEF Spec

\* The state is well-typed whatever the owners do (src/lib.rs, 402-756).
THEOREM TypeCorrect == Spec => []TypeOK
<1>1. WholeInv => TypeOK
  BY DEF WholeInv
<1> QED
  BY <1>1, WholeInductive, PTL

\* No two owners ever hold a reservation for the same number, even if some take
\* numbers from memory as well (reserve_sender).
THEOREM NoSharedReservation == Spec => []ReservationsDistinct
<1>1. WholeInv => ReservationsDistinct
  BY DEF WholeInv
<1> QED
  BY <1>1, WholeInductive, PTL

\* The durable record only moves forward, whoever writes it (register_fresh,
\* reserve_sender): a stale object's exchange never finds its old state again.
THEOREM NoRegression == Spec => DurableNeverRegresses
<1> DEFINE Forward == store' # store =>
                        /\ store' # NoState
                        /\ store = NoState \/ Position(store') > Position(store)
<1>1. ASSUME WholeInv, [Next]_vars PROVE [Forward]_store
  <2>1. ASSUME NEW o \in Owners, ReserveSender(o) PROVE Forward
    <3>1. /\ store' # NoState
          /\ DurablePosition = sender_seq[o]
          /\ DurablePosition' = sender_seq[o] + 1
      BY <1>1, <2>1, ReserveAdvances
    <3>2. sender_seq[o] \in Nat
      BY <1>1, MaxAssumption DEF WholeInv, TypeOK, SeqNums
    <3> QED
      BY <3>1, <3>2 DEF DurablePosition
  <2>2. ASSUME NEW o \in Owners, RegisterFresh(o) PROVE Forward
    BY <1>1, <2>2, RegisterStore, NoStateAssumption
    DEF RegisterFresh, Exchanged, Refused, Failed
  <2>3. CASE UNCHANGED store
    BY <2>3
  <2> QED
    BY <1>1, <2>1, <2>2, <2>3
    DEF Next, Lifecycle, Restore, Reserve, New, Drop, RegisterActive,
        BeginRestore, FinishRestore, ProtectReserved, ProtectResponseWithPiv, vars
<1> QED
  BY <1>1, WholeInductive, PTL DEF Spec, DurableNeverRegresses

-----------------------------------------------------------------------------
\* The application that reserves every number it uses.

UsedBehind == \A n \in used : n < DurablePosition

ReservationsUnused == \A o \in Reserved : sequence[o] \notin used

NeverAhead ==
  \A o \in Owners :
    status[o] # "absent" => Position(sender_sequence_state(o)) <= DurablePosition

ReservedInv ==
  /\ WholeInv
  /\ NonceUnique
  /\ UsedBehind
  /\ ReservationsUnused
  /\ NeverAhead

\* Before any context exists no number is used and no object is ahead.
LEMMA InitReserved == Init => ReservedInv
  BY InitWhole
  DEF Init, ReservedInv, NonceUnique, UsedBehind, ReservationsUnused, NeverAhead,
      Reserved

\* Reserved steps are steps of the whole interface, so its invariant holds too.
LEMMA ReservedIsNext == [ReservedNext]_vars => [Next]_vars
  BY DEF ReservedNext, Next

\* What each reserved step does to the numbers in use.
LEMMA StepUsed ==
  ASSUME ReservedInv, [ReservedNext]_vars
  PROVE  NonceUnique' /\ UsedBehind' /\ ReservationsUnused'
<1> USE DEF memory, history
<1>0. /\ WholeInv /\ TypeOK /\ NonceUnique /\ UsedBehind /\ ReservationsUnused
      /\ ReservationsBehind /\ ReservationsDistinct
      /\ DurablePosition \in Nat /\ [Next]_vars
      /\ \A n \in used : n \in Nat
  BY DurableType, ReservedIsNext, MaxAssumption
  DEF ReservedInv, WholeInv, TypeOK, SeqNums
<1>1. CASE \A o \in Owners : ~ReserveSender(o) /\ ~ProtectReserved(o)
  <2>1. UNCHANGED history
    BY <1>1
    DEF ReservedNext, Lifecycle, Restore, Reserve, New, Drop, RegisterFresh,
        RegisterActive, BeginRestore, FinishRestore, vars
  <2>2. Quiet
    BY <1>0, <1>1, OthersAreQuiet
  <2> QED
    BY <1>0, <2>1, <2>2 DEF Quiet, NonceUnique, UsedBehind, ReservationsUnused
<1>2. ASSUME NEW o \in Owners, ReserveSender(o)
      PROVE  NonceUnique' /\ UsedBehind' /\ ReservationsUnused'
  <2>1. UNCHANGED history
    BY <1>2 DEF ReserveSender
  <2>2. DurablePosition' = DurablePosition + 1
    BY <1>0, <1>2, ReserveAdvances
  <2>3. DurablePosition \notin used
    BY <1>0 DEF UsedBehind
  <2>4. CASE Reserved' = Reserved /\ UNCHANGED sequence
    BY <1>0, <2>1, <2>2, <2>4 DEF NonceUnique, UsedBehind, ReservationsUnused
  <2>5. CASE /\ o \notin Reserved
             /\ Reserved' = Reserved \cup {o}
             /\ sequence' = [sequence EXCEPT ![o] = DurablePosition]
    <3>1. \A p \in Reserved' : sequence'[p] \in {sequence[p], DurablePosition}
                               /\ (p # o => p \in Reserved /\ sequence'[p] = sequence[p])
                               /\ (p = o => sequence'[p] = DurablePosition)
      BY <1>0, <2>5 DEF TypeOK, Reserved
    <3>2. ReservationsUnused'
      BY <1>0, <2>1, <2>3, <3>1 DEF ReservationsUnused
    <3> QED
      BY <1>0, <2>1, <2>2, <3>2 DEF NonceUnique, UsedBehind
  <2> QED
    BY <1>0, <1>2, <2>4, <2>5, ReserveOutcome
<1>3. ASSUME NEW o \in Owners, ProtectReserved(o)
      PROVE  NonceUnique' /\ UsedBehind' /\ ReservationsUnused'
  <2>1. /\ o \in Reserved
        /\ Reserved' = Reserved \ {o}
        /\ UNCHANGED <<sequence, store>>
        /\ Encrypt(sequence[o]) \/ UNCHANGED history
    BY <1>0, <1>3 DEF ProtectReserved, Reserved, SetStatus, TypeOK
  <2>2. sequence[o] \notin used /\ sequence[o] < DurablePosition
    BY <1>0, <2>1 DEF ReservationsUnused, ReservationsBehind
  <2>3. \A p \in Reserved' : p \in Reserved /\ sequence[p] # sequence[o]
    BY <1>0, <2>1 DEF ReservationsDistinct
  <2>4. DurablePosition' = DurablePosition
    BY <2>1 DEF DurablePosition
  <2>5. NonceUnique'
    BY <1>0, <2>1, <2>2 DEF NonceUnique, Encrypt
  <2>6. UsedBehind'
    BY <1>0, <2>1, <2>2, <2>4 DEF UsedBehind, Encrypt
  <2>7. ReservationsUnused'
    BY <1>0, <2>1, <2>3 DEF ReservationsUnused, Encrypt
  <2> QED
    BY <2>5, <2>6, <2>7
<1> QED
  BY <1>1, <1>2, <1>3

\* No object gets ahead of the store: it moves up only after the store did.
LEMMA StepNotAhead ==
  ASSUME ReservedInv, [ReservedNext]_vars
  PROVE  NeverAhead'
<1> USE DEF memory, history
<1>0. /\ WholeInv /\ TypeOK /\ NeverAhead /\ [Next]_vars
      /\ DurablePosition \in Nat
  BY DurableType, ReservedIsNext DEF ReservedInv, WholeInv
<1>1. ASSUME NEW o \in Owners, ReserveSender(o) PROVE NeverAhead'
  <2>1. /\ store' = Advanced(sender_sequence_state(o))
        /\ store' # NoState
        /\ DurablePosition' = DurablePosition + 1
    BY <1>0, <1>1, ReserveAdvances
  <2>2. \A p \in Owners : sender_sequence_state(p) \in SenderSequenceState
    BY <1>0, MemoryState
  <2>3. \A p \in Owners : Position(sender_sequence_state(p)) \in Nat
    BY <2>2, PositionType
  <2>4. CASE UNCHANGED memory
    <3>1. \A p \in Owners : sender_sequence_state(p)' = sender_sequence_state(p)
      BY <2>4 DEF sender_sequence_state
    <3> QED
      BY <1>0, <2>1, <2>3, <2>4, <3>1 DEF NeverAhead, Position
  <2>5. CASE /\ set_sender_state(o, Advanced(sender_sequence_state(o)))
             /\ SetStatus(o, "reserved")
    <3>1. set_sender_state(o, store')
      BY <2>1, <2>5
    <3>2. ASSUME NEW p \in Owners, p # o, status'[p] # "absent"
          PROVE  Position(sender_sequence_state(p))' <= DurablePosition'
      <4>1. /\ sender_sequence_state(p)' = sender_sequence_state(p)
            /\ status[p] # "absent"
        BY <1>0, <2>5, <3>1, <3>2
        DEF set_sender_state, sender_sequence_state, SetStatus, TypeOK
      <4>2. Position(sender_sequence_state(p))' = Position(sender_sequence_state(p))
        BY <4>1 DEF Position
      <4> QED
        BY <1>0, <2>1, <2>3, <4>1, <4>2 DEF NeverAhead
    <3>3. Position(sender_sequence_state(o))' = DurablePosition'
      BY <1>0, <2>1, <3>1
      DEF set_sender_state, sender_sequence_state, Position, DurablePosition, TypeOK
    <3>4. DurablePosition' \in Nat
      BY <1>0, <2>1
    <3> QED
      BY <3>2, <3>3, <3>4 DEF NeverAhead
  <2> QED
    BY <1>1, <2>4, <2>5 DEF ReserveSender
<1>2. CASE \A o \in Owners : ~ReserveSender(o)
  <2>1. DurablePosition' = DurablePosition
    BY <1>0, <1>2, OthersAreQuiet DEF Quiet
  <2>2. ASSUME NEW p \in Owners, status'[p] # "absent"
        PROVE  Position(sender_sequence_state(p))' <= DurablePosition'
    <3>1. CASE /\ sender_sequence_state(p)' = sender_sequence_state(p)
               /\ status[p] # "absent"
      BY <1>0, <2>1, <3>1 DEF NeverAhead, Position
    <3>2. CASE New(p)
      <4>1. Position(sender_sequence_state(p))' = 0
        BY <1>0, <3>2 DEF New, sender_sequence_state, Position, TypeOK
      <4> QED
        BY <1>0, <2>1, <4>1
    <3>3. CASE BeginRestore(p)
      <4>1. /\ store # NoState /\ UNCHANGED store
            /\ set_sender_state(p, store)
        BY <1>0, <2>2, <3>3 DEF BeginRestore, Destroy, SetStatus, TypeOK
      <4>2. Position(sender_sequence_state(p))' = DurablePosition
        BY <1>0, <4>1
        DEF set_sender_state, sender_sequence_state, Position, DurablePosition, TypeOK
      <4> QED
        BY <1>0, <2>1, <4>2
    <3>4. CASE ~New(p) /\ ~BeginRestore(p)
      <4>1. /\ sender_sequence_state(p)' = sender_sequence_state(p)
            /\ status[p] # "absent"
        BY <1>0, <1>2, <2>2, <3>4
        DEF ReservedNext, Lifecycle, Restore, Reserve, New, Drop, RegisterFresh,
            RegisterActive, BeginRestore, FinishRestore, ProtectReserved, Destroy,
            set_sender_state, SetStatus, sender_sequence_state, TypeOK, vars
      <4> QED
        BY <3>1, <4>1
    <3> QED
      BY <3>2, <3>3, <3>4
  <2> QED
    BY <2>2 DEF NeverAhead
<1> QED
  BY <1>1, <1>2

\* The invariant of an application that reserves every number it uses.
THEOREM ReservedInductive == ReservedSpec => []ReservedInv
<1>1. ReservedInv /\ [ReservedNext]_vars => ReservedInv'
  <2> SUFFICES ASSUME ReservedInv, [ReservedNext]_vars PROVE ReservedInv'
    OBVIOUS
  <2>1. WholeInv'
    BY ReservedIsNext, StepType, StepValid, StepReservations
    DEF ReservedInv, WholeInv
  <2> QED
    BY <2>1, StepUsed, StepNotAhead DEF ReservedInv
<1> QED
  BY <1>1, InitReserved, PTL DEF ReservedSpec

\* While every number is reserved, no nonce encrypts two messages, every number
\* in use is durable, and its holder is the only one (src/lib.rs:168, 714-718).
THEOREM ReservedIsSafe ==
  ReservedSpec => [](NonceUnique /\ PersistedBeforeTransmit /\ ReservationExclusive)
<1>1. ReservedInv => NonceUnique /\ PersistedBeforeTransmit /\ ReservationExclusive
  BY DEF ReservedInv, WholeInv, PersistedBeforeTransmit, ReservationExclusive,
         UsedBehind, ReservationsBehind, ReservationsUnused
<1> QED
  BY <1>1, ReservedInductive, PTL

\* Every number in use or reserved is behind the durable record, for any number
\* of owners (reserve_sender, against the struct comment at lib.rs:168).
THEOREM PersistedFirst == ReservedSpec => []PersistedBeforeTransmit
  BY ReservedIsSafe, PTL

\* The holder of a reservation is the only one, and its number is unused
\* (reserve_sender, against the comment at lib.rs:716).
THEOREM ReservationsAreExclusive == ReservedSpec => []ReservationExclusive
  BY ReservedIsSafe, PTL

\* While every number is reserved, Conflict means what its documentation says:
\* the store is ahead of the object, which restoring repairs (src/lib.rs:266).
THEOREM ConflictIsHonest == ReservedSpec => []ConflictMeansBehind
<1>1. ReservedInv => ConflictMeansBehind
  <2> SUFFICES ASSUME ReservedInv, NEW o \in Owners,
                      status[o] \in {"active", "reserved"},
                      ~(Position(sender_sequence_state(o)) < DurablePosition)
               PROVE  store = sender_sequence_state(o)
    BY DEF ConflictMeansBehind
  <2> DEFINE s == sender_sequence_state(o)
  <2>1. /\ TypeOK /\ StatesValid /\ NeverAhead /\ DurablePosition \in Nat
    BY DurableType DEF ReservedInv, WholeInv
  <2>2. /\ s \in SenderSequenceState /\ StateValid(s)
        /\ store \in SenderSequenceState /\ StateValid(store)
        /\ DurablePosition = Position(store)
    BY <2>1, MemoryState DEF StatesValid, TypeOK, DurablePosition
  <2>3. Position(s) \in Nat /\ Position(s) <= DurablePosition
    BY <2>1, <2>2, PositionType DEF NeverAhead
  <2> HIDE DEF s
  <2>4. Position(s) = Position(store)
    BY <2>1, <2>2, <2>3 DEF s
  <2>5. store = s
    BY <2>2, <2>4, SamePosition
  <2> QED
    BY <2>5 DEF s
<1> QED
  BY <1>1, ReservedInductive, PTL

-----------------------------------------------------------------------------
\* Reservation implements OneShotSequence.

Outstanding == {sequence[o] : o \in Reserved}

\* A call that touches no reservation and encrypts nothing is invisible to
\* OneShotSequence.
LEMMA QuietStutters ==
  ASSUME Quiet, Reserved' = Reserved, UNCHANGED history
  PROVE  UNCHANGED <<DurablePosition, Outstanding, used>>
  BY DEF Quiet, Outstanding, history

\* Ending the reservation of one owner takes exactly its number away.
LEMMA ReservationEnds ==
  ASSUME ReservationsDistinct, NEW o \in Reserved,
         Reserved' = Reserved \ {o}, UNCHANGED sequence
  PROVE  Outstanding' = Outstanding \ {sequence[o]}
  BY DEF Outstanding, ReservationsDistinct

\* Every reserved call is a step of OneShotSequence or invisible to it:
\* reserve_sender deals or skips, a reservation ends by use or by loss.
LEMMA StepRefines ==
  ASSUME ReservedInv, [ReservedNext]_vars
  PROVE  [OneShot!Next]_<<DurablePosition, Outstanding, used>>
<1> USE DEF memory, history
<1> DEFINE Goal == [OneShot!Next]_<<DurablePosition, Outstanding, used>>
<1>0. /\ WholeInv /\ TypeOK /\ [Next]_vars
      /\ ReservationsDistinct /\ ReservationsUnused
  BY ReservedIsNext DEF ReservedInv, WholeInv
<1>1. ASSUME NEW o \in Owners, ReserveSender(o) PROVE Goal
  <2>1. /\ DurablePosition' = DurablePosition + 1
        /\ DurablePosition <= MAX
        /\ UNCHANGED used
    BY <1>0, <1>1, ReserveAdvances, MaxAssumption
    DEF ReserveSender, TypeOK, SeqNums
  <2>2. CASE Reserved' = Reserved /\ UNCHANGED sequence
    <3>1. OneShot!Skip
      BY <2>1, <2>2 DEF OneShot!Skip
    <3> QED
      BY <3>1 DEF OneShot!Next
  <2>3. CASE /\ o \notin Reserved
             /\ Reserved' = Reserved \cup {o}
             /\ sequence' = [sequence EXCEPT ![o] = DurablePosition]
    <3>1. Outstanding' = Outstanding \cup {DurablePosition}
      BY <1>0, <2>3 DEF Outstanding, TypeOK, Reserved
    <3>2. OneShot!Deal
      BY <2>1, <3>1 DEF OneShot!Deal, Outstanding
    <3> QED
      BY <3>2 DEF OneShot!Next
  <2> QED
    BY <1>0, <1>1, <2>2, <2>3, ReserveOutcome
<1>2. ASSUME NEW o \in Owners, ProtectReserved(o) PROVE Goal
  <2>1. /\ o \in Reserved
        /\ Reserved' = Reserved \ {o}
        /\ UNCHANGED <<sequence, store>>
        /\ Encrypt(sequence[o]) \/ UNCHANGED used
    BY <1>0, <1>2 DEF ProtectReserved, Reserved, SetStatus, TypeOK
  <2>2. /\ Outstanding' = Outstanding \ {sequence[o]}
        /\ sequence[o] \in Outstanding
        /\ sequence[o] \notin used
        /\ DurablePosition' = DurablePosition
    BY <1>0, <2>1, ReservationEnds
    DEF Outstanding, ReservationsUnused, DurablePosition
  <2>3. OneShot!Use(sequence[o]) \/ OneShot!Lose(sequence[o])
    BY <2>1, <2>2 DEF OneShot!Use, OneShot!Lose, Encrypt, Outstanding
  <2>4. OneShot!Next
    BY <2>3 DEF OneShot!Next, OneShot!Use, OneShot!Lose
  <2> QED
    BY <2>4
<1>3. CASE \A o \in Owners : ~ReserveSender(o) /\ ~ProtectReserved(o)
  <2>1. Quiet /\ UNCHANGED history
    BY <1>0, <1>3, OthersAreQuiet
    DEF ReservedNext, Lifecycle, Restore, Reserve, New, Drop, RegisterFresh,
        RegisterActive, BeginRestore, FinishRestore, vars
  <2>2. CASE Reserved' = Reserved
    BY <2>1, <2>2, QuietStutters
  <2>3. ASSUME NEW o \in Reserved, Drop(o) PROVE Goal
    <3>1. Reserved' = Reserved \ {o}
      BY <1>0, <2>3 DEF Drop, Destroy, Reserved, SetStatus, TypeOK
    <3>2. /\ Outstanding' = Outstanding \ {sequence[o]}
          /\ sequence[o] \in Outstanding
          /\ DurablePosition' = DurablePosition
          /\ UNCHANGED used
      BY <1>0, <2>1, <3>1, ReservationEnds DEF Quiet, Outstanding
    <3>3. OneShot!Lose(sequence[o])
      BY <3>2 DEF OneShot!Lose, Outstanding
    <3>4. OneShot!Next
      BY <3>3 DEF OneShot!Next, OneShot!Lose, Outstanding
    <3> QED
      BY <3>4
  <2>4. CASE \A o \in Reserved : ~Drop(o)
    <3>1. Reserved' = Reserved
      BY <1>0, <1>3, <2>4
      DEF ReservedNext, Lifecycle, Restore, Reserve, New, Drop, RegisterFresh,
          RegisterActive, BeginRestore, FinishRestore, Destroy, Reserved,
          SetStatus, TypeOK, vars
    <3> QED
      BY <2>2, <3>1
  <2> QED
    BY <2>3, <2>4
<1> QED
  BY <1>1, <1>2, <1>3

\* Reserving is dealing numbers that are used once or lost, in order: the store,
\* the races, the crashes and the lost answers are invisible from outside.
THEOREM ReservationImplementsOneShot == ReservedSpec => ImplementsOneShot
<1>1. Init => OneShot!Init
  BY DEF Init, OneShot!Init, DurablePosition, Reserved
<1>2. ReservedInv /\ [ReservedNext]_vars =>
        [OneShot!Next]_<<DurablePosition, Outstanding, used>>
  BY StepRefines
<1>3. [OneShot!Next]_<<DurablePosition, Outstanding, used>> <=> [OneShot!Next]_OneShot!vars
  BY DEF OneShot!vars, Outstanding
<1> QED
  BY <1>1, <1>2, <1>3, ReservedInductive, PTL
  DEF ReservedSpec, ImplementsOneShot, OneShot!Spec

-----------------------------------------------------------------------------
\* The application that never restores.

Live == {o \in Owners : status[o] \in {"active", "reserved"}}

\* The record is made once, so at most one object is ever activated; it alone
\* encrypts, and its memory is ahead of everything it used.
UnrestoredInv ==
  /\ WholeInv
  /\ NonceUnique
  /\ \A o \in Owners : status[o] # "restoring"
  /\ \A o, p \in Live : o = p
  /\ store = NoState => used = {}
  /\ \A o \in Live : \A n \in used : n < Position(sender_sequence_state(o))
  /\ \A o \in Reserved :
       /\ sequence[o] \notin used
       /\ sequence[o] < Position(sender_sequence_state(o))

\* Without restores one object at most is ever active, and its memory alone
\* keeps numbers apart: it takes each from its own counter, which only rises.
LEMMA StepUnrestored ==
  ASSUME UnrestoredInv, [UnrestoredNext]_vars
  PROVE  UnrestoredInv'
<1> USE DEF memory, history
<1>0. /\ WholeInv /\ TypeOK /\ StatesValid /\ [Next]_vars
      /\ \A n \in used : n \in Nat
      /\ \A o \in Owners : sequence[o] \in Nat /\ sender_seq[o] \in Nat
  BY MaxAssumption
  DEF UnrestoredInv, WholeInv, TypeOK, UnrestoredNext, Next, SeqNums
<1>1. WholeInv'
  BY <1>0, StepType, StepValid, StepReservations DEF WholeInv
<1>2. CASE UNCHANGED vars
  BY <1>1, <1>2
  DEF UnrestoredInv, NonceUnique, Live, Reserved, Position, sender_sequence_state,
      vars
<1>3. ASSUME NEW o \in Owners, New(o) \/ Drop(o) \/ RegisterActive(o)
      PROVE  UnrestoredInv'
  <2>1. /\ UNCHANGED <<store, used, reused, sequence>>
        /\ SetStatus(o, "inactive") \/ SetStatus(o, "absent")
        /\ \A p \in Owners \ {o} : sender_sequence_state(p)' = sender_sequence_state(p)
    BY <1>0, <1>3
    DEF New, Drop, RegisterActive, Destroy, sender_sequence_state, TypeOK
  <2>2. Live' \subseteq Live \ {o} /\ Reserved' \subseteq Reserved \ {o}
    BY <1>0, <2>1 DEF Live, Reserved, SetStatus, TypeOK
  <2>3. \A p \in Owners : status'[p] # "restoring"
    BY <1>0, <2>1 DEF UnrestoredInv, SetStatus, TypeOK
  <2>4. Live \subseteq Owners /\ Reserved \subseteq Owners
    BY DEF Live, Reserved
  <2>5. \A p \in Live' \cup Reserved' :
          /\ p \in Owners \ {o}
          /\ Position(sender_sequence_state(p))' = Position(sender_sequence_state(p))
    BY <2>1, <2>2, <2>4 DEF Position
  <2> QED
    BY <1>1, <2>1, <2>2, <2>3, <2>5 DEF UnrestoredInv, NonceUnique
<1>4. ASSUME NEW o \in Owners, RegisterFresh(o) PROVE UnrestoredInv'
  <2>1. /\ UNCHANGED <<sender_seq, exhausted, sequence, used, reused>>
        /\ status[o] = "inactive"
        /\ \/ SetStatus(o, "active") /\ store = NoState /\ store' # NoState
           \/ SetStatus(o, "absent") /\ (store = NoState \/ store' = store)
    BY <1>0, <1>4, MemoryState, NoStateAssumption
    DEF RegisterFresh, Destroy, Exchanged, Refused, Failed
  <2>2. store = NoState => Live = {} /\ Reserved = {} /\ used = {}
    BY <1>0 DEF UnrestoredInv, StatesValid, Live, Reserved
  <2>3. \A p \in Owners : sender_sequence_state(p)' = sender_sequence_state(p)
    BY <2>1 DEF sender_sequence_state
  <2>4. \A p \in Owners : status'[p] # "restoring"
    BY <1>0, <2>1 DEF UnrestoredInv, SetStatus, TypeOK
  <2>5. CASE SetStatus(o, "active") /\ store = NoState /\ store' # NoState
    <3>1. Live' \subseteq {o} /\ Reserved' = {} /\ used' = {}
      BY <1>0, <2>1, <2>2, <2>5 DEF Live, Reserved, SetStatus, TypeOK
    <3> QED
      BY <1>1, <2>1, <2>4, <3>1 DEF UnrestoredInv, NonceUnique
  <2>6. CASE SetStatus(o, "absent") /\ (store = NoState \/ store' = store)
    <3>1. Live' \subseteq Live /\ Reserved' \subseteq Reserved
      BY <1>0, <2>6 DEF Live, Reserved, SetStatus, TypeOK
    <3>2. \A p \in Live' \cup Reserved' :
            Position(sender_sequence_state(p))' = Position(sender_sequence_state(p))
      BY <2>3, <3>1 DEF Position, Live, Reserved
    <3> QED
      BY <1>1, <2>1, <2>2, <2>4, <2>6, <3>1, <3>2 DEF UnrestoredInv, NonceUnique
  <2> QED
    BY <2>1, <2>5, <2>6
<1>5. ASSUME NEW o \in Owners, ReserveSender(o) PROVE UnrestoredInv'
  <2>1. /\ UNCHANGED <<used, reused>> /\ store' # NoState
        /\ o \in Live /\ status[o] = "active" /\ ~exhausted[o]
        /\ store' = Advanced(sender_sequence_state(o))
        /\ DurablePosition' = sender_seq[o] + 1
    BY <1>0, <1>5, ReserveAdvances DEF ReserveSender, Live
  <2>2. Live = {o} /\ Reserved = {}
    BY <2>1 DEF UnrestoredInv, Live, Reserved
  <2>3. \A n \in used : n < sender_seq[o]
    BY <2>1, <1>0 DEF UnrestoredInv, Position, sender_sequence_state
  <2>4. CASE UNCHANGED memory
    <3>1. Live' = Live /\ Reserved' = Reserved
      BY <2>4 DEF Live, Reserved
    <3>2. Position(sender_sequence_state(o))' = Position(sender_sequence_state(o))
      BY <2>4 DEF Position, sender_sequence_state
    <3> QED
      BY <1>1, <2>1, <2>2, <2>4, <3>1, <3>2 DEF UnrestoredInv, NonceUnique
  <2>5. CASE /\ set_sender_state(o, Advanced(sender_sequence_state(o)))
             /\ sequence' = [sequence EXCEPT ![o] = sender_seq[o]]
             /\ SetStatus(o, "reserved")
    <3>1. set_sender_state(o, store')
      BY <2>1, <2>5
    <3>2. Position(sender_sequence_state(o))' = sender_seq[o] + 1
      BY <1>0, <2>1, <3>1
      DEF set_sender_state, sender_sequence_state, Position, DurablePosition, TypeOK
    <3>3. /\ Live' = {o} /\ Reserved' = {o} /\ sequence'[o] = sender_seq[o]
          /\ \A p \in Owners : status'[p] # "restoring"
      BY <1>0, <2>2, <2>5
      DEF SetStatus, Live, Reserved, TypeOK, UnrestoredInv
    <3>4. \A n \in used' : n < sender_seq[o] + 1
      BY <1>0, <2>1, <2>3
    <3>5. sender_seq[o] \notin used' /\ sender_seq[o] < sender_seq[o] + 1
      BY <1>0, <2>1, <2>3
    <3> QED
      BY <1>1, <2>1, <3>2, <3>3, <3>4, <3>5 DEF UnrestoredInv, NonceUnique
  <2> QED
    BY <1>5, <2>4, <2>5 DEF ReserveSender
<1>6. ASSUME NEW o \in Owners, ProtectReserved(o) PROVE UnrestoredInv'
  <2>1. /\ UNCHANGED <<store, sequence>>
        /\ o \in Live /\ o \in Reserved /\ store # NoState
        /\ Encrypt(sequence[o]) \/ UNCHANGED history
    BY <1>0, <1>6 DEF ProtectReserved, Live, Reserved, StatesValid
  <2>2. Live = {o}
    BY <2>1 DEF UnrestoredInv
  <2>3. /\ Live' = {o} /\ Reserved' = {}
        /\ \A p \in Owners : status'[p] # "restoring"
    <3>1. Reserved \subseteq Live
      BY DEF Reserved, Live
    <3>2. \A p \in Owners : p # o => status[p] \notin {"active", "reserved"}
      BY <2>2 DEF Live
    <3> QED
      BY <1>0, <1>6, <3>2
      DEF ProtectReserved, SetStatus, Live, Reserved, TypeOK, UnrestoredInv
  <2>4. Position(sender_sequence_state(o))' = Position(sender_sequence_state(o))
    BY <1>6 DEF ProtectReserved, Position, sender_sequence_state
  <2>5. sequence[o] \notin used /\ sequence[o] < Position(sender_sequence_state(o))
    BY <2>1 DEF UnrestoredInv
  <2>6. reused' = {} /\ \A n \in used' : n \in used \/ n = sequence[o]
    BY <2>1, <2>5 DEF UnrestoredInv, NonceUnique, Encrypt
  <2>7. \A n \in used' : n < Position(sender_sequence_state(o))'
    BY <2>1, <2>4, <2>5, <2>6 DEF UnrestoredInv
  <2> QED
    BY <1>1, <2>1, <2>3, <2>6, <2>7 DEF UnrestoredInv, NonceUnique
<1>7. ASSUME NEW o \in Owners, ProtectResponseWithPiv(o) PROVE UnrestoredInv'
  <2>1. /\ UNCHANGED <<store, status, sequence, exhausted>>
        /\ o \in Live /\ store # NoState /\ status[o] = "active"
        /\ sender_seq[o] < MAX
        /\ Encrypt(sender_seq[o]) \/ UNCHANGED history
    BY <1>0, <1>7 DEF ProtectResponseWithPiv, Live, StatesValid
  <2>2. Live = {o} /\ Reserved = {} /\ Live' = {o} /\ Reserved' = {}
    BY <2>1 DEF UnrestoredInv, Live, Reserved
  <2>3. ~exhausted[o] /\ Position(sender_sequence_state(o)) = sender_seq[o]
    BY <1>0, <2>1, MaxAssumption
    DEF StatesValid, StateValid, sender_sequence_state, Position
  <2>4. Position(sender_sequence_state(o))' = sender_seq[o] + 1
    BY <1>0, <1>7, <2>3
    DEF ProtectResponseWithPiv, sender_sequence_state, Position, TypeOK
  <2>5. \A n \in used : n < sender_seq[o]
    BY <2>1, <2>3 DEF UnrestoredInv
  <2>6. sender_seq[o] \notin used
    BY <1>0, <2>5
  <2>7. reused' = {} /\ \A n \in used' : n \in used \/ n = sender_seq[o]
    BY <2>1, <2>6 DEF UnrestoredInv, NonceUnique, Encrypt
  <2>8. \A n \in used' : n < Position(sender_sequence_state(o))'
    BY <1>0, <2>4, <2>5, <2>7
  <2> QED
    BY <1>1, <2>1, <2>2, <2>7, <2>8 DEF UnrestoredInv, NonceUnique
<1> QED
  BY <1>2, <1>3, <1>4, <1>5, <1>6, <1>7 DEF UnrestoredNext, Lifecycle, Reserve

\* Without restoring, no nonce encrypts two messages even if responses take
\* numbers from memory: the nonce reuse that protect_response with include_piv
\* makes possible (src/lib.rs:1132) always passes through restore_existing.
THEOREM UnrestoredIsSafe == UnrestoredSpec => []NonceUnique
<1>1. Init => UnrestoredInv
  BY InitWhole DEF Init, UnrestoredInv, NonceUnique, Live, Reserved
<1>2. UnrestoredInv /\ [UnrestoredNext]_vars => UnrestoredInv'
  BY StepUnrestored
<1>3. UnrestoredInv => NonceUnique
  BY DEF UnrestoredInv
<1> QED
  BY <1>1, <1>2, <1>3, PTL DEF UnrestoredSpec

=============================================================================
