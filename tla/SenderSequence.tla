---------------------------- MODULE SenderSequence ----------------------------
(***************************************************************************)
(* Allocation of sender sequence numbers (src/lib.rs).  Several owners,    *)
(* each a slot that can hold a Context object, share one ContextId and so  *)
(* one sender key and one durable record: the two contexts restored from   *)
(* the same state, the contexts of two peers that share a sender ID, the   *)
(* repeated exports of one EDHOC session, the process before and after a   *)
(* crash.  Every number is the Partial IV of a nonce under that key, so    *)
(* encrypting with one twice is the failure to be ruled out.               *)
(*                                                                         *)
(* Calls on one object exclude each other (they take it by value or by     *)
(* &mut), so an action is a whole call, except where a call reads the      *)
(* store twice.  Calls that fail and change nothing are stuttering steps   *)
(* and are named in the comments.                                          *)
(***************************************************************************)
EXTENDS Naturals

CONSTANTS
  Owners,     \* slots for Context objects with this ContextId
  MAX,        \* OscoreSeqNum::MAX, 2^40 - 1 in the code
  NoState     \* the store holds no record: Option::None

ASSUME MaxAssumption == MAX \in Nat

SeqNums == 0 .. MAX

SenderSequenceState == [next_sequence : SeqNums, exhausted : BOOLEAN]

ASSUME NoStateAssumption == NoState \notin SenderSequenceState

(***************************************************************************)
(* status[o]  "absent"     no object                                       *)
(*            "inactive"   built by Context::new, not yet activated        *)
(*            "restoring"  inside restore_existing, between its two loads  *)
(*            "active"     registered or restored                          *)
(*            "reserved"   borrowed by a ReservedSender                    *)
(***************************************************************************)
VARIABLES
  store,          \* the durable sender record of the ContextId
  status,
  sender_seq,     \* Context.sender_seq
  exhausted,      \* Context.sender_seq_exhausted
  sequence,       \* ReservedSender.sequence, while status is "reserved"
  used,           \* history: numbers some message was encrypted with
  reused          \* history: those used by more than one encryption

memory == <<status, sender_seq, exhausted, sequence>>
history == <<used, reused>>
vars == <<store, memory, history>>

Statuses == {"absent", "inactive", "restoring", "active", "reserved"}

TypeOK ==
  /\ store \in SenderSequenceState \cup {NoState}
  /\ status \in [Owners -> Statuses]
  /\ sender_seq \in [Owners -> SeqNums]
  /\ exhausted \in [Owners -> BOOLEAN]
  /\ sequence \in [Owners -> SeqNums]
  /\ used \in SUBSET SeqNums
  /\ reused \in SUBSET SeqNums

Init ==
  /\ store = NoState
  /\ status = [o \in Owners |-> "absent"]
  /\ sender_seq = [o \in Owners |-> 0]
  /\ exhausted = [o \in Owners |-> FALSE]
  /\ sequence = [o \in Owners |-> 0]
  /\ used = {}
  /\ reused = {}

-----------------------------------------------------------------------------
\* The store, as ContextStateStore describes it.

\* Mutant of Exchanged: a store that writes without comparing.
ExchangedBlindly(expected, next) == store' = next

\* compare_exchange_sender returns Ok(true) ...
Exchanged(expected, next) == store = expected /\ store' = next

\* ... or Ok(false) ...
Refused(expected) == store # expected /\ UNCHANGED store

\* ... or Err: the store failed before the exchange took effect or after it.
Failed(expected, next) ==
  \/ UNCHANGED store
  \/ Exchanged(expected, next)

-----------------------------------------------------------------------------
\* Context objects.

SetStatus(o, s) == status' = [status EXCEPT ![o] = s]

\* sender_sequence_state
sender_sequence_state(o) ==
  [next_sequence |-> sender_seq[o], exhausted |-> exhausted[o]]

\* set_sender_state.  Its validation cannot fail on records the code wrote.
set_sender_state(o, state) ==
  /\ sender_seq' = [sender_seq EXCEPT ![o] = state.next_sequence]
  /\ exhausted' = [exhausted EXCEPT ![o] = state.exhausted]

\* Mutants of Advanced: no terminal number, and one that never goes.
AdvancedPast(state) ==
  [next_sequence |-> state.next_sequence + 1, exhausted |-> FALSE]
AdvancedForever(state) ==
  IF state.next_sequence < MAX THEN AdvancedPast(state) ELSE state

\* The state after reserving the number in `state`: the next one, or the mark
\* that the terminal number is gone.
Advanced(state) ==
  IF state.next_sequence < MAX
    THEN [next_sequence |-> state.next_sequence + 1, exhausted |-> FALSE]
    ELSE [next_sequence |-> MAX, exhausted |-> TRUE]

\* One more message encrypted under the shared key with number n.
Encrypt(n) ==
  /\ used' = used \cup {n}
  /\ reused' = reused \cup ({n} \cap used)

\* Context::new and new_fresh; also what EDHOC's export_oscore returns.
New(o) ==
  /\ status[o] = "absent"
  /\ SetStatus(o, "inactive")
  /\ sender_seq' = [sender_seq EXCEPT ![o] = 0]
  /\ exhausted' = [exhausted EXCEPT ![o] = FALSE]
  /\ UNCHANGED <<store, sequence, history>>

\* The object goes away: it is dropped, a call that took it by value failed, or
\* the process crashed.  A reservation it had given out goes with it.
Destroy(o) ==
  /\ SetStatus(o, "absent")
  /\ UNCHANGED <<sender_seq, exhausted, sequence>>

Drop(o) ==
  /\ status[o] # "absent"
  /\ Destroy(o)
  /\ UNCHANGED <<store, history>>

\* Mutant of RegisterFresh: it overwrites an existing record.
RegisterOverwriting(o) ==
  /\ status[o] = "inactive"
  /\ store' = sender_sequence_state(o)
  /\ SetStatus(o, "active")
  /\ UNCHANGED <<sender_seq, exhausted, sequence, history>>

\* register_fresh.  It takes the object by value: every error destroys it.
RegisterFresh(o) ==
  /\ status[o] = "inactive"
  /\ UNCHANGED history
  /\ \/ /\ Exchanged(NoState, sender_sequence_state(o))
        /\ SetStatus(o, "active")
        /\ UNCHANGED <<sender_seq, exhausted, sequence>>
     \/ /\ \/ Refused(NoState)
           \/ Failed(NoState, sender_sequence_state(o))
        /\ Destroy(o)

\* register_fresh on an object that is already active: InvalidParam.
RegisterActive(o) ==
  /\ status[o] = "active"
  /\ Destroy(o)
  /\ UNCHANGED <<store, history>>

\* restore_existing up to its second load.  It accepts any object, an active
\* one too, and takes it by value: Missing and Storage errors destroy it.
BeginRestore(o) ==
  /\ status[o] \in {"inactive", "active"}
  /\ UNCHANGED <<store, history>>
  /\ \/ /\ store # NoState
        /\ set_sender_state(o, store)
        /\ SetStatus(o, "restoring")
        /\ UNCHANGED sequence
     \/ Destroy(o)

\* The rest of restore_existing: load_recipient answers, or fails.
FinishRestore(o) ==
  /\ status[o] = "restoring"
  /\ UNCHANGED <<store, history>>
  /\ \/ /\ SetStatus(o, "active")
        /\ UNCHANGED <<sender_seq, exhausted, sequence>>
     \/ Destroy(o)

\* Mutant of ReserveSender: a store's failure is not noticed.
ReserveUnconfirmed(o) ==
  LET expected == sender_sequence_state(o)
      next     == Advanced(expected)
  IN  /\ status[o] = "active"
      /\ ~exhausted[o]
      /\ Failed(expected, next)
      /\ set_sender_state(o, next)
      /\ sequence' = [sequence EXCEPT ![o] = sender_seq[o]]
      /\ SetStatus(o, "reserved")
      /\ UNCHANGED history

\* Mutant of ReserveSender: the object advances before the store answers, and
\* stays there when the exchange is refused.
ReserveEagerly(o) ==
  LET expected == sender_sequence_state(o)
      next     == Advanced(expected)
  IN  /\ status[o] = "active"
      /\ ~exhausted[o]
      /\ set_sender_state(o, next)
      /\ UNCHANGED history
      /\ \/ /\ Exchanged(expected, next)
            /\ sequence' = [sequence EXCEPT ![o] = sender_seq[o]]
            /\ SetStatus(o, "reserved")
         \/ Failed(expected, next) /\ UNCHANGED <<status, sequence>>

\* reserve_sender.  Conflict, a refused exchange, and an exhausted sequence
\* change nothing; a store that fails after the exchange leaves the number
\* durable and the object behind.
ReserveSender(o) ==
  LET expected == sender_sequence_state(o)
      next     == Advanced(expected)
  IN  /\ status[o] = "active"
      /\ ~exhausted[o]
      /\ Exchanged(expected, next)
      /\ UNCHANGED history
      /\ \/ /\ set_sender_state(o, next)
            /\ sequence' = [sequence EXCEPT ![o] = sender_seq[o]]
            /\ SetStatus(o, "reserved")
         \/ UNCHANGED memory

\* Mutant of ProtectReserved: the reservation survives its use.
ProtectAgain(o) ==
  /\ status[o] = "reserved"
  /\ Encrypt(sequence[o])
  /\ UNCHANGED <<store, memory>>

\* ReservedSender::protect_request and protect_response_with_piv consume the
\* reservation and encrypt with its number, or fail and waste it.
ProtectReserved(o) ==
  /\ status[o] = "reserved"
  /\ SetStatus(o, "active")
  /\ UNCHANGED <<store, sender_seq, exhausted, sequence>>
  /\ Encrypt(sequence[o]) \/ UNCHANGED history

\* protect_response with include_piv = true takes the number from memory and
\* never meets the store.  It fails at the terminal number, exhausted or not;
\* an output that does not fit fails after the number was taken.
ProtectResponseWithPiv(o) ==
  /\ status[o] = "active"
  /\ sender_seq[o] < MAX
  /\ sender_seq' = [sender_seq EXCEPT ![o] = @ + 1]
  /\ UNCHANGED <<store, status, exhausted, sequence>>
  /\ Encrypt(sender_seq[o]) \/ UNCHANGED history

-----------------------------------------------------------------------------

(***************************************************************************)
(* Spec is the whole interface.  The other two leave one thing out each:   *)
(* an application that reserves every number it uses never calls           *)
(* protect_response with include_piv = true, and one that derives a new    *)
(* context after every restart never restores.                             *)
(***************************************************************************)
Lifecycle(o) == New(o) \/ Drop(o) \/ RegisterFresh(o) \/ RegisterActive(o)

Restore(o) == BeginRestore(o) \/ FinishRestore(o)

Reserve(o) == ReserveSender(o) \/ ProtectReserved(o)

Next ==
  \E o \in Owners :
    Lifecycle(o) \/ Restore(o) \/ Reserve(o) \/ ProtectResponseWithPiv(o)

ReservedNext == \E o \in Owners : Lifecycle(o) \/ Restore(o) \/ Reserve(o)

UnrestoredNext ==
  \E o \in Owners : Lifecycle(o) \/ Reserve(o) \/ ProtectResponseWithPiv(o)

Spec           == Init /\ [][Next]_vars
ReservedSpec   == Init /\ [][ReservedNext]_vars
UnrestoredSpec == Init /\ [][UnrestoredNext]_vars

-----------------------------------------------------------------------------

\* How far a sender state has advanced: one past the numbers it gave away.
Position(state) ==
  IF state.exhausted THEN MAX + 1 ELSE state.next_sequence

DurablePosition == IF store = NoState THEN 0 ELSE Position(store)

Reserved == {o \in Owners : status[o] = "reserved"}

\* No number encrypts two messages, whoever owns it, however owners crash,
\* restore, race and lose the store's answers (reserve_sender).
NonceUnique == reused = {}

\* "Sender sequence state that must be persisted before transmitting a message"
\* (src/lib.rs:168): a number in use, or reserved for use, is already behind
\* the durable position, so that no restored owner can start at it.
PersistedBeforeTransmit ==
  /\ \A n \in used : n < DurablePosition
  /\ \A o \in Reserved : sequence[o] < DurablePosition

\* No two live reservations are for the same number, even when some owner also
\* takes numbers from memory (the exchange in reserve_sender).
ReservationsDistinct ==
  \A o, p \in Reserved : sequence[o] = sequence[p] => o = p

\* "A competing context restored from the same state ... cannot encrypt with
\* that sequence" (src/lib.rs:716): the holder of a reservation is the only one,
\* and nobody has encrypted with its number before it does.
ReservationExclusive ==
  /\ ReservationsDistinct
  /\ \A o \in Reserved : sequence[o] \notin used

\* "Another context owner advanced the durable state first" (src/lib.rs:266) is
\* what Conflict means: an active object whose record differs from the store's
\* is behind it.  Otherwise the object can never reserve again.
ConflictMeansBehind ==
  \A o \in Owners :
    status[o] \in {"active", "reserved"} =>
      \/ store = sender_sequence_state(o)
      \/ Position(sender_sequence_state(o)) < DurablePosition

\* The durable record never goes back and, once made, never disappears, so a
\* stale object's exchange cannot succeed later (the compare in
\* compare_exchange_sender would otherwise be open to A-B-A).
DurableNeverRegresses ==
  [][store' # store => /\ store' # NoState
                       /\ \/ store = NoState
                          \/ Position(store') > Position(store)]_store

\* Reservation keeps the promise of OneShotSequence: numbers below the durable
\* position are dealt or skipped, live reservations are outstanding (a crash
\* loses one, a store that fails late skips one).
OneShot ==
  INSTANCE OneShotSequence
    WITH next <- DurablePosition, outstanding <- {sequence[o] : o \in Reserved}

ImplementsOneShot == OneShot!Spec

=============================================================================
