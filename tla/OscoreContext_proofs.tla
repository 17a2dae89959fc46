------------------------ MODULE OscoreContext_proofs ------------------------
(***************************************************************************)
(* The whole context, for any number of owners under one sender ID, any    *)
(* peers, windows and messages: its state is well-typed, and no two        *)
(* responses without a Partial IV are encrypted with one request's nonce.  *)
(* The second follows from the registration: it succeeds once for a        *)
(* ContextId, a restore takes the permission away, and so one object alone *)
(* ever sends such responses, from the window that has seen them all.      *)
(***************************************************************************)
EXTENDS OscoreContext, SenderSequence_proofs, ReplayWindow_proofs

\* An object that may send responses without a Partial IV.
Dealing(o) == status[o] \in {"active", "reserved"} /\ allow_no_piv_response[o]

\* One object at most may, its window remembers every answer, and before the
\* registration there is none.
NoPivInv ==
  /\ WholeInv
  /\ ContextTypeOK
  /\ \A o, p \in Owners : Dealing(o) /\ Dealing(p) => o = p
  /\ answered # {} => store # NoState
  /\ \A o \in Owners : Dealing(o) =>
       \A a \in answered : IsReuse(replay_state[o].response, a[2])
  /\ NoPivNonceUnique

-----------------------------------------------------------------------------
\* The calls of the context do to the sender state what SenderSequence says.

LEMMA ContextIsNext == [ContextNext]_allVars => [Next]_vars
<1> SUFFICES ASSUME [ContextNext]_allVars PROVE [Next]_vars
  OBVIOUS
<1>1. CASE UNCHANGED allVars
  BY <1>1 DEF allVars
<1>2. ASSUME NEW o \in Owners, ContextStep(o) PROVE [Next]_vars
  <2>1. CASE NewContext(o) \/ DropContext(o)
    BY <2>1 DEF NewContext, DropContext, Next, Lifecycle
  <2>2. CASE Register(o)
    BY <2>2 DEF Register, Next, Lifecycle
  <2>3. CASE BeginRestoreContext(o) \/ FinishRestoreContext(o)
    BY <2>3 DEF BeginRestoreContext, FinishRestoreContext, Next, Restore
  <2>4. CASE Protect(o)
    BY <2>4 DEF Protect, Next
  <2>5. CASE \/ \E n \in Requests : UnprotectRequest(o, n)
             \/ \E n \in Answerable : ProtectResponseNoPiv(o, n)
    BY <2>5 DEF UnprotectRequest, ProtectResponseNoPiv
  <2>6. CASE \E r \in Responses, mode \in Modes \ {"request"} : BeginUnprotectResponse(o, r, mode)
    BY <2>6 DEF BeginUnprotectResponse
  <2>7. CASE Commit(o) \/ DropPending(o) \/ SaveRecipient(o)
    BY <2>7 DEF Commit, DropPending, SaveRecipient
  <2> QED
    BY <1>2, <2>1, <2>2, <2>3, <2>4, <2>5, <2>6, <2>7 DEF ContextStep
<1> QED
  BY <1>1, <1>2 DEF ContextNext

LEMMA StepWhole == WholeInv /\ [ContextNext]_allVars => WholeInv'
  BY ContextIsNext, StepType, StepValid, StepReservations DEF WholeInv

\* Once there is a sender record there is one for good.
LEMMA RecordStays ==
  ASSUME WholeInv, [Next]_vars, store # NoState
  PROVE  store' # NoState
<1>1. CASE UNCHANGED vars
  BY <1>1 DEF vars
<1>2. ASSUME NEW o \in Owners, ReserveSender(o) PROVE store' # NoState
  BY <1>2, ReserveAdvances
<1>3. ASSUME NEW o \in Owners, RegisterFresh(o) PROVE store' # NoState
  BY <1>3 DEF RegisterFresh, Exchanged, Refused, Failed
<1>4. ASSUME NEW o \in Owners,
             New(o) \/ Drop(o) \/ RegisterActive(o) \/ Restore(o)
               \/ ProtectReserved(o) \/ ProtectResponseWithPiv(o)
      PROVE  store' # NoState
  BY <1>4 DEF New, Drop, RegisterActive, Restore, BeginRestore, FinishRestore,
              ProtectReserved, ProtectResponseWithPiv
<1> QED
  BY <1>1, <1>2, <1>3, <1>4 DEF Next, Lifecycle, Reserve

-----------------------------------------------------------------------------
\* Types.

LEMMA FreshTyped == FreshReplayState \in RecipientReplayState
  BY FreshType DEF FreshReplayState, RecipientReplayState

\* Marking a number in a window leaves the state of the windows well-typed.
LEMMA MarkTyped ==
  ASSUME NEW w \in RecipientReplayState, NEW n \in Nat
  PROVE  /\ [w EXCEPT !.replay = Mark(@, n)] \in RecipientReplayState
         /\ [w EXCEPT !.response = Mark(@, n)] \in RecipientReplayState
         /\ mark_received_response(w, n) \in RecipientReplayState
         /\ mark_received_response_piv(w, n) \in RecipientReplayState
<1>1. /\ w.replay \in Window /\ w.response \in Window
      /\ w.received_response \in Window /\ w.received_response_piv \in Window
  BY DEF RecipientReplayState
<1>2. /\ Mark(w.replay, n) \in Window /\ Mark(w.response, n) \in Window
      /\ Mark(w.received_response, n) \in Window
      /\ Mark(w.received_response_piv, n) \in Window
  BY <1>1, MarkType
<1> QED
  BY <1>1, <1>2
  DEF RecipientReplayState, mark_received_response, mark_received_response_piv

\* The windows as a response's commit leaves them.
Committed(o) ==
  LET r   == pending[o].response
      piv == IF r.piv = NoPiv THEN replay_state[o]
             ELSE mark_received_response_piv(replay_state[o], r.piv)
  IN  IF pending[o].mode = "ordinary" THEN mark_received_response(piv, r.request) ELSE piv

LEMMA CommitTyped ==
  ASSUME ContextTypeOK, NEW o \in Owners, pending[o] # NoPending
  PROVE  /\ Committed(o) \in RecipientReplayState
         /\ Committed(o).response = replay_state[o].response
         /\ ResponseItem(o, pending[o]) \in Items
<1> DEFINE r == pending[o].response
           piv == IF r.piv = NoPiv THEN replay_state[o]
                  ELSE mark_received_response_piv(replay_state[o], r.piv)
<1>1. /\ pending[o] \in [response : Responses, mode : Modes \ {"request"}]
      /\ replay_state[o] \in RecipientReplayState
  BY DEF ContextTypeOK
<1>2. /\ r \in Responses /\ r.request \in Nat /\ r.piv \in Nat \cup {NoPiv}
      /\ pending[o].mode \in Modes \ {"request"}
  BY <1>1, PeerAssumption
<1>3. piv \in RecipientReplayState /\ piv.response = replay_state[o].response
  <2>1. CASE r.piv = NoPiv
    BY <1>1, <2>1
  <2>2. CASE r.piv # NoPiv
    <3>1. r.piv \in Nat
      BY <1>2, <2>2
    <3>2. piv = mark_received_response_piv(replay_state[o], r.piv)
      BY <2>2
    <3> HIDE DEF piv, r
    <3>3. piv \in RecipientReplayState
      BY <1>1, <3>1, <3>2, MarkTyped
    <3> QED
      BY <1>1, <3>2, <3>3 DEF mark_received_response_piv, RecipientReplayState
  <2> QED
    BY <2>1, <2>2
<1>4. Committed(o) = IF pending[o].mode = "ordinary"
                       THEN mark_received_response(piv, r.request) ELSE piv
  BY DEF Committed
<1>5. ResponseItem(o, pending[o]) \in Items
  BY <1>2 DEF ResponseItem, Items
<1> HIDE DEF piv, r
<1>6. mark_received_response(piv, r.request) \in RecipientReplayState
  BY <1>2, <1>3, MarkTyped
<1>7. mark_received_response(piv, r.request).response = piv.response
  BY <1>3 DEF mark_received_response, RecipientReplayState
<1> QED
  BY <1>3, <1>4, <1>5, <1>6, <1>7

-----------------------------------------------------------------------------
\* A call answers nothing and lets no object deal that did not: the invariant
\* stays.
StaysQuiet(o) ==
  /\ UNCHANGED <<answered, reanswered>>
  /\ Dealing(o)' => Dealing(o) /\ replay_state'[o].response = replay_state[o].response
  /\ \A p \in Owners : p # o =>
       UNCHANGED <<status[p], allow_no_piv_response[p], replay_state[p]>>

LEMMA QuietKeeps ==
  ASSUME NoPivInv, [ContextNext]_allVars, ContextTypeOK', NEW o \in Owners, StaysQuiet(o)
  PROVE  NoPivInv'
<1>1. WholeInv' /\ (store # NoState => store' # NoState)
  BY StepWhole, ContextIsNext, RecordStays DEF NoPivInv
<1>2. \A p \in Owners :
        Dealing(p)' => Dealing(p) /\ replay_state'[p].response = replay_state[p].response
  BY DEF StaysQuiet, Dealing
<1>3. UNCHANGED <<answered, reanswered>>
  BY DEF StaysQuiet
<1> QED
  BY <1>1, <1>2, <1>3 DEF NoPivInv, NoPivNonceUnique

\* The status of one object changes.
LEMMA StatusSet ==
  ASSUME TypeOK, NEW o \in Owners, NEW s, SetStatus(o, s)
  PROVE  status'[o] = s /\ \A p \in Owners : p # o => status'[p] = status[p]
  BY DEF TypeOK, SetStatus

LEMMA HandKept ==
  ASSUME ContextTypeOK, NEW o \in Owners, KeepInHand(o)
  PROVE  /\ in_hand' \in [Owners -> SUBSET Items]
         /\ UNCHANGED <<accepted, acted, reacted, answered, reanswered>>
  BY DEF ContextTypeOK, KeepInHand

\* An accepted message is one of the items.
LEMMA AcceptTyped ==
  ASSUME ContextTypeOK, NEW o \in Owners, NEW item \in Items, Accept(o, item)
  PROVE  /\ in_hand' \in [Owners -> SUBSET Items]
         /\ accepted' \in SUBSET Items /\ acted' \in SUBSET Items
         /\ reacted' \in SUBSET Items
         /\ UNCHANGED <<answered, reanswered>>
  BY DEF ContextTypeOK, Accept

LEMMA StepNewContext ==
  ASSUME NoPivInv, NEW o \in Owners, NewContext(o)
  PROVE  ContextTypeOK' /\ StaysQuiet(o)
<1>0. TypeOK /\ ContextTypeOK
  BY DEF NoPivInv, WholeInv
<1>1. SetStatus(o, "inactive") /\ UNCHANGED <<pending, recipient_store, messageVars>>
  BY DEF NewContext, New
<1>2. /\ replay_state' = [replay_state EXCEPT ![o] = FreshReplayState]
      /\ \E fresh \in BOOLEAN :
           allow_no_piv_response' = [allow_no_piv_response EXCEPT ![o] = fresh]
  BY DEF NewContext
<1>3. ContextTypeOK'
  BY <1>0, <1>1, <1>2, FreshTyped DEF ContextTypeOK, messageVars
<1>4. StaysQuiet(o)
  BY <1>0, <1>1, <1>2, StatusSet DEF StaysQuiet, Dealing, messageVars, ContextTypeOK
<1> QED
  BY <1>3, <1>4

LEMMA StepDropContext ==
  ASSUME NoPivInv, NEW o \in Owners, DropContext(o)
  PROVE  ContextTypeOK' /\ StaysQuiet(o)
<1>0. TypeOK /\ ContextTypeOK
  BY DEF NoPivInv, WholeInv
<1>1. /\ SetStatus(o, "absent") /\ KeepInHand(o)
      /\ pending' = [pending EXCEPT ![o] = NoPending]
      /\ UNCHANGED <<replay_state, allow_no_piv_response, recipient_store>>
  BY DEF DropContext, Drop, Destroy
<1>2. ContextTypeOK'
  BY <1>0, <1>1, HandKept DEF ContextTypeOK
<1>3. StaysQuiet(o)
  BY <1>0, <1>1, StatusSet, HandKept DEF StaysQuiet, Dealing
<1> QED
  BY <1>2, <1>3

LEMMA StepBeginRestore ==
  ASSUME NoPivInv, NEW o \in Owners, BeginRestoreContext(o)
  PROVE  ContextTypeOK' /\ StaysQuiet(o)
<1>0. TypeOK /\ ContextTypeOK
  BY DEF NoPivInv, WholeInv
<1>1. /\ SetStatus(o, "restoring") \/ SetStatus(o, "absent")
      /\ KeepInHand(o) /\ UNCHANGED windowVars
  BY DEF BeginRestoreContext, BeginRestore, Destroy
<1>2. ContextTypeOK'
  BY <1>0, <1>1, HandKept DEF ContextTypeOK, windowVars
<1>3. StaysQuiet(o)
  BY <1>0, <1>1, StatusSet, HandKept DEF StaysQuiet, Dealing, windowVars
<1> QED
  BY <1>2, <1>3

LEMMA StepFinishRestore ==
  ASSUME NoPivInv, NEW o \in Owners, FinishRestoreContext(o)
  PROVE  ContextTypeOK' /\ StaysQuiet(o)
<1>0. TypeOK /\ ContextTypeOK
  BY DEF NoPivInv, WholeInv
<1>1. /\ SetStatus(o, "active") \/ SetStatus(o, "absent")
      /\ KeepInHand(o) /\ UNCHANGED <<pending, recipient_store>>
      /\ allow_no_piv_response' = [allow_no_piv_response EXCEPT ![o] = FALSE]
  BY DEF FinishRestoreContext, FinishRestore, Destroy
<1>2. \/ UNCHANGED replay_state
      \/ /\ recipient_store # NoState
         /\ replay_state' = [replay_state EXCEPT ![o] = recipient_store]
  BY DEF FinishRestoreContext, set_recipient_replay_state
<1>3. replay_state' \in [Owners -> RecipientReplayState]
  BY <1>0, <1>2 DEF ContextTypeOK
<1>4. ContextTypeOK'
  BY <1>0, <1>1, <1>3, HandKept DEF ContextTypeOK
<1>5. ~Dealing(o)'
  BY <1>0, <1>1 DEF Dealing, ContextTypeOK
<1>6. \A p \in Owners : p # o =>
        UNCHANGED <<status[p], allow_no_piv_response[p], replay_state[p]>>
  BY <1>0, <1>1, <1>2, StatusSet DEF ContextTypeOK
<1>7. UNCHANGED <<answered, reanswered>>
  BY <1>0, <1>1, HandKept
<1> QED
  BY <1>4, <1>5, <1>6, <1>7 DEF StaysQuiet

LEMMA StepProtect ==
  ASSUME NoPivInv, NEW o \in Owners, Protect(o)
  PROVE  ContextTypeOK' /\ StaysQuiet(o)
<1>0. TypeOK /\ ContextTypeOK
  BY DEF NoPivInv, WholeInv
<1>1. /\ UNCHANGED contextVars
      /\ status[o] \in {"active", "reserved"}
      /\ \/ SetStatus(o, "reserved") \/ SetStatus(o, "active") \/ UNCHANGED status
  BY DEF Protect, Reserve, ReserveSender, ProtectReserved, ProtectResponseWithPiv, memory
<1>2. ContextTypeOK'
  BY <1>0, <1>1 DEF ContextTypeOK, contextVars, windowVars, messageVars
<1>3. StaysQuiet(o)
  BY <1>0, <1>1, StatusSet DEF StaysQuiet, Dealing, contextVars, windowVars, messageVars
<1> QED
  BY <1>2, <1>3

LEMMA StepUnprotectRequest ==
  ASSUME NoPivInv, NEW o \in Owners, NEW n \in Requests, UnprotectRequest(o, n)
  PROVE  ContextTypeOK' /\ StaysQuiet(o)
<1> DEFINE w == [replay_state[o] EXCEPT !.replay = Mark(@, n)]
<1>0. ContextTypeOK /\ replay_state[o] \in RecipientReplayState
  BY DEF NoPivInv, ContextTypeOK
<1>1. /\ UNCHANGED <<vars, allow_no_piv_response, pending, recipient_store>>
      /\ replay_state' = [replay_state EXCEPT ![o] = w]
      /\ Accept(o, RequestItem(o, n))
  BY DEF UnprotectRequest, update_replay_window
<1>2. w \in RecipientReplayState
  BY <1>0, PeerAssumption, MarkTyped
<1>3. w.response = replay_state[o].response
  BY <1>0 DEF RecipientReplayState
<1>4. RequestItem(o, n) \in Items
  BY DEF RequestItem, Items
<1> HIDE DEF w
<1>5. ContextTypeOK'
  BY <1>0, <1>1, <1>2, <1>4, AcceptTyped DEF ContextTypeOK
<1>6. StaysQuiet(o)
  BY <1>0, <1>1, <1>3, <1>4, AcceptTyped DEF StaysQuiet, Dealing, ContextTypeOK, vars, memory
<1> QED
  BY <1>5, <1>6

LEMMA StepBeginUnprotect ==
  ASSUME NoPivInv, NEW o \in Owners, NEW r \in Responses, NEW mode \in Modes \ {"request"},
         BeginUnprotectResponse(o, r, mode)
  PROVE  ContextTypeOK' /\ StaysQuiet(o)
<1>0. ContextTypeOK
  BY DEF NoPivInv
<1>1. /\ UNCHANGED <<vars, replay_state, allow_no_piv_response, recipient_store, messageVars>>
      /\ pending' = [pending EXCEPT ![o] = [response |-> r, mode |-> mode]]
  BY DEF BeginUnprotectResponse
<1>2. ContextTypeOK'
  BY <1>0, <1>1 DEF ContextTypeOK, messageVars
<1>3. StaysQuiet(o)
  BY <1>1 DEF StaysQuiet, Dealing, vars, memory, messageVars
<1> QED
  BY <1>2, <1>3

LEMMA StepCommit ==
  ASSUME NoPivInv, NEW o \in Owners, Commit(o)
  PROVE  ContextTypeOK' /\ StaysQuiet(o)
<1>0. ContextTypeOK /\ pending[o] # NoPending
  BY DEF NoPivInv, Commit, Free
<1>1. /\ UNCHANGED <<vars, allow_no_piv_response, recipient_store>>
      /\ replay_state' = [replay_state EXCEPT ![o] = Committed(o)]
      /\ pending' = [pending EXCEPT ![o] = NoPending]
      /\ Accept(o, ResponseItem(o, pending[o]))
  BY DEF Commit, Committed
<1>2. /\ Committed(o) \in RecipientReplayState
      /\ Committed(o).response = replay_state[o].response
      /\ ResponseItem(o, pending[o]) \in Items
  BY <1>0, CommitTyped
<1>3. /\ in_hand' \in [Owners -> SUBSET Items]
      /\ accepted' \in SUBSET Items /\ acted' \in SUBSET Items /\ reacted' \in SUBSET Items
      /\ UNCHANGED <<answered, reanswered>>
  BY <1>0, <1>1, <1>2, AcceptTyped
<1>4. ContextTypeOK'
  BY <1>0, <1>1, <1>2, <1>3 DEF ContextTypeOK
<1>5. StaysQuiet(o)
  BY <1>0, <1>1, <1>2, <1>3 DEF StaysQuiet, Dealing, ContextTypeOK, vars, memory
<1> QED
  BY <1>4, <1>5

LEMMA StepDropPending ==
  ASSUME NoPivInv, NEW o \in Owners, DropPending(o)
  PROVE  ContextTypeOK' /\ StaysQuiet(o)
<1>0. ContextTypeOK
  BY DEF NoPivInv
<1>1. /\ UNCHANGED <<vars, replay_state, allow_no_piv_response, recipient_store, messageVars>>
      /\ pending' = [pending EXCEPT ![o] = NoPending]
  BY DEF DropPending
<1>2. ContextTypeOK'
  BY <1>0, <1>1 DEF ContextTypeOK, messageVars
<1>3. StaysQuiet(o)
  BY <1>1 DEF StaysQuiet, Dealing, vars, memory, messageVars
<1> QED
  BY <1>2, <1>3

LEMMA StepSaveRecipient ==
  ASSUME NoPivInv, NEW o \in Owners, SaveRecipient(o)
  PROVE  ContextTypeOK' /\ StaysQuiet(o)
<1>0. ContextTypeOK
  BY DEF NoPivInv
<1>1. /\ UNCHANGED <<vars, replay_state, allow_no_piv_response, pending,
                     accepted, answered, reanswered>>
      /\ recipient_store' = replay_state[o]
      /\ \/ /\ acted' = acted \cup in_hand[o]
            /\ reacted' = reacted \cup (acted \cap in_hand[o])
            /\ in_hand' = [in_hand EXCEPT ![o] = {}]
         \/ UNCHANGED <<in_hand, acted, reacted>>
  BY DEF SaveRecipient, recipient_replay_state
<1>2. ContextTypeOK'
  BY <1>0, <1>1 DEF ContextTypeOK
<1>3. StaysQuiet(o)
  BY <1>1 DEF StaysQuiet, Dealing, vars, memory
<1> QED
  BY <1>2, <1>3

-----------------------------------------------------------------------------
\* The two calls that matter: the registration and the answer.

\* A registration finds no record, hence no answers and no other object.
LEMMA StepRegister ==
  ASSUME NoPivInv, NEW o \in Owners, Register(o)
  PROVE  NoPivInv'
<1>0. TypeOK /\ ContextTypeOK
  BY DEF NoPivInv, WholeInv
<1>1. /\ allow_no_piv_response' =
           [allow_no_piv_response EXCEPT ![o] = status'[o] = "active"]
      /\ KeepInHand(o) /\ UNCHANGED <<replay_state, pending, recipient_store>>
      /\ \/ SetStatus(o, "active") /\ store = NoState
         \/ SetStatus(o, "absent")
  BY DEF Register, RegisterFresh, RegisterActive, Destroy, Exchanged
<1>2. allow_no_piv_response' \in [Owners -> BOOLEAN]
  <2>1. (status'[o] = "active") \in BOOLEAN
    OBVIOUS
  <2> QED
    BY <1>0, <1>1, <2>1, Zenon DEF ContextTypeOK
<1>3. ContextTypeOK'
  BY <1>0, <1>1, <1>2, HandKept DEF ContextTypeOK
<1>4. [ContextNext]_allVars
  BY DEF ContextNext, ContextStep
<1>5. \A p \in Owners : p # o =>
        UNCHANGED <<status[p], allow_no_piv_response[p], replay_state[p]>>
  BY <1>0, <1>1, StatusSet DEF ContextTypeOK
<1>6. UNCHANGED <<answered, reanswered>>
  BY <1>0, <1>1, HandKept
<1>7. CASE SetStatus(o, "absent")
  <2>1. ~Dealing(o)'
    BY <1>0, <1>7, StatusSet DEF Dealing
  <2> QED
    BY <1>3, <1>4, <1>5, <1>6, <2>1, QuietKeeps DEF StaysQuiet
<1>8. CASE SetStatus(o, "active") /\ store = NoState
  <2>1. answered = {} /\ \A p \in Owners : ~Dealing(p)
    BY <1>8 DEF NoPivInv, WholeInv, StatesValid, Dealing
  <2>2. \A p \in Owners : p # o => ~Dealing(p)'
    BY <1>5, <2>1 DEF Dealing
  <2>3. WholeInv'
    BY <1>4, StepWhole DEF NoPivInv
  <2> QED
    BY <1>3, <1>6, <2>1, <2>2, <2>3 DEF NoPivInv, NoPivNonceUnique
<1> QED
  BY <1>1, <1>7, <1>8

\* The one object that may answer without a Partial IV does not do so twice.
LEMMA StepProtectResponseNoPiv ==
  ASSUME NoPivInv, NEW o \in Owners, NEW n \in Answerable, ProtectResponseNoPiv(o, n)
  PROVE  NoPivInv'
<1> DEFINE v == Mark(replay_state[o].response, n)
           a == <<PeerOf[o], n>>
<1>0. /\ ContextTypeOK /\ replay_state[o] \in RecipientReplayState
      /\ replay_state[o].response \in Window /\ n \in Nat
      /\ answered \subseteq {PeerOf[p] : p \in Owners} \X Answerable
      /\ reanswered = {}
  BY PeerAssumption DEF NoPivInv, ContextTypeOK, RecipientReplayState, NoPivNonceUnique
<1>1. /\ UNCHANGED <<vars, allow_no_piv_response, pending, recipient_store,
                     in_hand, accepted, acted, reacted>>
      /\ Dealing(o) /\ ~IsReuse(replay_state[o].response, n)
      /\ replay_state' = [replay_state EXCEPT ![o].response = v]
      /\ answered' = answered \cup {a} /\ reanswered' = reanswered \cup ({a} \cap answered)
  BY DEF ProtectResponseNoPiv, mark_response_used, is_response_reuse, Dealing
<1>2. \A b \in answered : IsReuse(replay_state[o].response, b[2]) /\ b[2] \in Nat
  <2>1. \A b \in answered : b[2] \in Answerable
    BY <1>0
  <2> QED
    BY <1>1, <2>1, PeerAssumption DEF NoPivInv
<1>3. a \notin answered /\ reanswered' = {}
  BY <1>0, <1>1, <1>2
<1>4. v \in Window /\ \A b \in answered' : IsReuse(v, b[2])
  BY <1>0, <1>1, <1>2, MarkType, MarkRefuses, MarkKeeps
<1>5. answered' \subseteq {PeerOf[p] : p \in Owners} \X Answerable
  BY <1>0, <1>1
<1> HIDE DEF v
<1>6. /\ replay_state' \in [Owners -> RecipientReplayState]
      /\ replay_state'[o].response = v
  BY <1>0, <1>1, <1>4 DEF ContextTypeOK, RecipientReplayState
<1>7. ContextTypeOK'
  BY <1>0, <1>1, <1>3, <1>5, <1>6 DEF ContextTypeOK
<1>8. WholeInv' /\ store' # NoState
  <2>1. store # NoState
    BY <1>1 DEF NoPivInv, WholeInv, StatesValid, Dealing
  <2> QED
    BY <1>1, <2>1, StepWhole DEF NoPivInv, ContextNext, ContextStep, vars
<1>9. \A p \in Owners : Dealing(p)' => p = o
  BY <1>1 DEF Dealing, vars, memory, NoPivInv
<1> QED
  BY <1>3, <1>4, <1>6, <1>7, <1>8, <1>9 DEF NoPivInv, NoPivNonceUnique

-----------------------------------------------------------------------------

LEMMA InitNoPiv == ContextInit => NoPivInv
<1> SUFFICES ASSUME ContextInit PROVE NoPivInv
  OBVIOUS
<1>1. WholeInv
  BY InitWhole DEF ContextInit
<1>2. ContextTypeOK
  BY FreshTyped DEF ContextInit, ContextTypeOK
<1>3. \A o \in Owners : ~Dealing(o)
  BY DEF ContextInit, Init, Dealing
<1> QED
  BY <1>1, <1>2, <1>3 DEF NoPivInv, NoPivNonceUnique, ContextInit

LEMMA NextNoPiv == NoPivInv /\ [ContextNext]_allVars => NoPivInv'
<1> SUFFICES ASSUME NoPivInv, [ContextNext]_allVars PROVE NoPivInv'
  OBVIOUS
<1>1. CASE UNCHANGED allVars
  <2>1. WholeInv'
    BY StepWhole DEF NoPivInv
  <2>2. ContextTypeOK'
    BY <1>1 DEF NoPivInv, ContextTypeOK, allVars, contextVars, windowVars, messageVars
  <2> QED
    BY <1>1, <2>1, <2>2 DEF NoPivInv, NoPivNonceUnique, Dealing, allVars, contextVars,
                            windowVars, messageVars, vars, memory
<1>2. ASSUME NEW o \in Owners, ContextStep(o) PROVE NoPivInv'
  <2>1. CASE Register(o)
    BY <2>1, StepRegister
  <2>2. CASE \E n \in Answerable : ProtectResponseNoPiv(o, n)
    BY <2>2, StepProtectResponseNoPiv
  <2>3. CASE ~Register(o) /\ ~\E n \in Answerable : ProtectResponseNoPiv(o, n)
    <3>1. ContextTypeOK' /\ StaysQuiet(o)
      BY <1>2, <2>3, StepNewContext, StepDropContext, StepBeginRestore, StepFinishRestore,
         StepProtect, StepUnprotectRequest, StepBeginUnprotect, StepCommit,
         StepDropPending, StepSaveRecipient DEF ContextStep
    <3> QED
      BY <3>1, QuietKeeps
  <2> QED
    BY <2>1, <2>2, <2>3
<1> QED
  BY <1>1, <1>2 DEF ContextNext

\* The invariant holds in every reachable state of the whole context.
THEOREM ContextInductive == ContextSpec => []NoPivInv
  BY InitNoPiv, NextNoPiv, PTL DEF ContextSpec

\* The whole context's state is well-typed (Context, ReplayState, PendingResponse).
THEOREM ContextTyped == ContextSpec => []ContextTypeOK
<1>1. NoPivInv => ContextTypeOK
  BY DEF NoPivInv
<1> QED
  BY <1>1, ContextInductive, PTL

\* No request's nonce encrypts two responses, for any number of owners of the
\* sender key and any crashes and restores (protect_response with include_piv =
\* false, register_fresh, restore_existing).
THEOREM NoPivNoncesUnique == ContextSpec => []NoPivNonceUnique
<1>1. NoPivInv => NoPivNonceUnique
  BY DEF NoPivInv
<1> QED
  BY <1>1, ContextInductive, PTL

-----------------------------------------------------------------------------
(***************************************************************************)
(* What the replay windows of a context guarantee, for any windows and     *)
(* messages and any crashes and restores: an application that opens        *)
(* messages with activated objects, and saves the recipient record before  *)
(* it acts, acts once on each.  This is for one owner at a time of the     *)
(* recipient record: two overwrite each other's, as the violation of       *)
(* ActedOnce among several peers shows.  That a window refuses only what   *)
(* messages of its own kind account for holds for any number of owners.    *)
(***************************************************************************)

\* One object at a time owns the recipient record ...
OneOwner == \A o, p \in Owners : o = p

\* ... and messages are opened by activated objects only.
OpensActivated == OpenIn = {"active"}

Loaded(o) == status[o] \in {"active", "reserved"}

-----------------------------------------------------------------------------
\* The invariant.

\* The windows s let the message i in no more.
Refuses(s, i) ==
  /\ i.mode = "request" => IsReuse(s.replay, i.message)
  /\ i.mode = "ordinary" => IsReuse(s.received_response, i.message.request)
  /\ i.mode = "observe" => i.message.piv # NoPiv
  /\ i.mode # "request" /\ i.message.piv # NoPiv =>
       IsReuse(s.received_response_piv, i.message.piv)

\* Two responses of which an application may have one only.
Collide(i, j) ==
  /\ i.mode # "request" /\ j.mode # "request"
  /\ \/ i.message = j.message
     \/ /\ i.mode = "ordinary" /\ j.mode = "ordinary"
        /\ i.message.request = j.message.request

\* The windows have not moved since a pending response passed them.
PendingPasses(o) ==
  LET r == pending[o].response
  IN  /\ status[o] = "active"
      /\ pending[o].mode = "ordinary" => ~is_received_response_reuse(o, r.request)
      /\ pending[o].mode = "observe" => r.piv # NoPiv
      /\ r.piv # NoPiv => ~is_received_response_piv_reuse(o, r.piv)

\* What was acted on the record refuses, and every object restored from it.
RecordRefuses ==
  /\ acted # {} => store # NoState /\ recipient_store # NoState
  /\ \A i \in acted : Refuses(recipient_store, i)
  /\ \A o \in Owners : Loaded(o) => \A i \in acted : Refuses(replay_state[o], i)

\* What is in hand the object refuses, that one alone.
HandRefused ==
  \A o \in Owners :
    /\ ~Loaded(o) => in_hand[o] = {}
    /\ \A i \in in_hand[o] : Refuses(replay_state[o], i)
    /\ in_hand[o] \cap acted = {}
    /\ \A i, j \in in_hand[o] \cup acted : Collide(i, j) => i = j

ReplayInv ==
  /\ NoPivInv
  /\ RecordRefuses
  /\ HandRefused
  /\ \A o \in Owners : pending[o] # NoPending => PendingPasses(o)
  /\ reacted = {}

\* A window's highest number is that of a message accepted, or none was.
FromAccepted(s) ==
  /\ \/ s.replay = FreshRequestWindow
     \/ \E i \in accepted : i.mode = "request" /\ i.message = s.replay.seq
  /\ s.received_response.initialized =>
       \E i \in accepted : i.mode = "ordinary" /\ i.message.request = s.received_response.seq
  /\ s.received_response_piv.initialized =>
       \E i \in accepted : /\ i.mode # "request" /\ i.message.piv # NoPiv
                           /\ i.message.piv = s.received_response_piv.seq

WindowsInv ==
  /\ \A o \in Owners : FromAccepted(replay_state[o])
  /\ recipient_store # NoState => FromAccepted(recipient_store)

-----------------------------------------------------------------------------
\* Windows.

\* What the four windows of an object refuse they refuse after any mark.
LEMMA MarksKeep ==
  ASSUME NEW s \in RecipientReplayState, NEW n \in Nat, NEW i \in Items, Refuses(s, i)
  PROVE  /\ Refuses([s EXCEPT !.replay = Mark(@, n)], i)
         /\ Refuses([s EXCEPT !.response = Mark(@, n)], i)
         /\ Refuses(mark_received_response(s, n), i)
         /\ Refuses(mark_received_response_piv(s, n), i)
<1>1. /\ s.replay \in Window /\ s.received_response \in Window
      /\ s.received_response_piv \in Window
  BY DEF RecipientReplayState
<1>2. /\ i.mode = "request" => i.message \in Nat
      /\ i.mode # "request" => /\ i.message.request \in Nat
                               /\ i.message.piv # NoPiv => i.message.piv \in Nat
  BY PeerAssumption DEF Items, Modes
<1>3. i.mode = "request" => IsReuse(Mark(s.replay, n), i.message)
  BY <1>1, <1>2, MarkKeeps DEF Refuses
<1>4. i.mode = "ordinary" => IsReuse(Mark(s.received_response, n), i.message.request)
  BY <1>1, <1>2, MarkKeeps DEF Refuses
<1>5. i.mode # "request" /\ i.message.piv # NoPiv =>
        IsReuse(Mark(s.received_response_piv, n), i.message.piv)
  BY <1>1, <1>2, MarkKeeps DEF Refuses
<1>6. Refuses([s EXCEPT !.replay = Mark(@, n)], i)
  BY <1>3 DEF Refuses, RecipientReplayState
<1>7. Refuses([s EXCEPT !.response = Mark(@, n)], i)
  BY DEF Refuses, RecipientReplayState
<1>8. Refuses(mark_received_response(s, n), i)
  BY <1>4 DEF Refuses, RecipientReplayState, mark_received_response
<1>9. Refuses(mark_received_response_piv(s, n), i)
  BY <1>5 DEF Refuses, RecipientReplayState, mark_received_response_piv
<1> QED BY <1>6, <1>7, <1>8, <1>9

\* A commit refuses what was refused, and what it commits.
LEMMA CommitRefuses ==
  ASSUME ContextTypeOK, NEW o \in Owners, pending[o] # NoPending, PendingPasses(o)
  PROVE  /\ \A i \in Items : Refuses(replay_state[o], i) => Refuses(Committed(o), i)
         /\ Refuses(Committed(o), ResponseItem(o, pending[o]))
<1> DEFINE r == pending[o].response
           s == replay_state[o]
           t == IF r.piv = NoPiv THEN s ELSE mark_received_response_piv(s, r.piv)
           c == IF pending[o].mode = "ordinary"
                  THEN mark_received_response(t, r.request) ELSE t
<1>1. /\ s \in RecipientReplayState
      /\ pending[o] \in [response : Responses, mode : Modes \ {"request"}]
  BY DEF ContextTypeOK
<1>2. /\ r \in Responses /\ r.request \in Nat /\ (r.piv # NoPiv => r.piv \in Nat)
      /\ pending[o].mode \in {"ordinary", "observe"}
  BY <1>1, PeerAssumption DEF Modes
<1>3. c = Committed(o)
  BY DEF Committed
<1>4. /\ s.received_response \in Window /\ s.received_response_piv \in Window
  BY <1>1 DEF RecipientReplayState
<1>5. /\ t \in RecipientReplayState
      /\ t.received_response = s.received_response
      /\ r.piv # NoPiv => IsReuse(t.received_response_piv, r.piv)
  <2>1. CASE r.piv = NoPiv
    BY <1>1, <2>1
  <2>2. CASE r.piv # NoPiv
    <3>1. ~IsReuse(s.received_response_piv, r.piv)
      BY <2>2 DEF PendingPasses, is_received_response_piv_reuse
    <3>2. t = mark_received_response_piv(s, r.piv) /\ r.piv \in Nat
      BY <1>2, <2>2
    <3> HIDE DEF t, r, s
    <3>3. IsReuse(Mark(s.received_response_piv, r.piv), r.piv)
      BY <1>4, <3>1, <3>2, MarkRefuses
    <3> QED BY <1>1, <3>2, <3>3, MarkTyped
            DEF mark_received_response_piv, RecipientReplayState
  <2> QED BY <2>1, <2>2
<1>6. \A i \in Items : Refuses(s, i) => Refuses(t, i)
  <2> HIDE DEF r, s
  <2> QED BY <1>1, <1>2, MarksKeep
<1>7. \A i \in Items : Refuses(t, i) => Refuses(c, i)
  <2> HIDE DEF t, r
  <2> QED BY <1>2, <1>5, MarksKeep
<1>8. /\ pending[o].mode = "ordinary" => IsReuse(c.received_response, r.request)
      /\ c.received_response_piv = t.received_response_piv
  <2>1. pending[o].mode = "ordinary" => ~IsReuse(s.received_response, r.request)
    BY DEF PendingPasses, is_received_response_reuse
  <2> HIDE DEF t, r, s
  <2>2. pending[o].mode = "ordinary" =>
          IsReuse(Mark(t.received_response, r.request), r.request)
    BY <1>2, <1>4, <1>5, <2>1, MarkRefuses
  <2> QED BY <1>5, <2>2 DEF mark_received_response, RecipientReplayState
<1>9. pending[o].mode = "observe" => r.piv # NoPiv
  BY DEF PendingPasses
<1>10. Refuses(c, ResponseItem(o, pending[o]))
  <2> HIDE DEF c, t, s
  <2> QED BY <1>2, <1>5, <1>8, <1>9 DEF Refuses, ResponseItem
<1> QED BY <1>3, <1>6, <1>7, <1>10

-----------------------------------------------------------------------------
\* The steps, each by what it does to what the invariant relates.

\* An object comes or goes, with nothing in hand.
LEMMA LifeKeeps ==
  ASSUME ReplayInv, NoPivInv', OneOwner, NEW o \in Owners,
         store # NoState => store' # NoState,
         UNCHANGED <<acted, reacted, recipient_store>>,
         in_hand'[o] = {}, pending'[o] = NoPending,
         Loaded(o)' => \A i \in acted : Refuses(replay_state'[o], i)
  PROVE  ReplayInv'
<1>1. \A p \in Owners : p = o
  BY DEF OneOwner
<1>2. RecordRefuses'
  BY <1>1 DEF ReplayInv, RecordRefuses
<1>3. \A i, j \in acted : Collide(i, j) => i = j
  BY DEF ReplayInv, HandRefused
<1>4. HandRefused'
  BY <1>1, <1>3 DEF HandRefused, Collide
<1> QED BY <1>1, <1>2, <1>4 DEF ReplayInv

\* Neither what was accepted nor the request windows and those of responses
\* received change.
LEMMA IdleKeeps ==
  ASSUME ReplayInv, NoPivInv', OneOwner, NEW o \in Owners,
         store # NoState => store' # NoState,
         UNCHANGED <<acted, reacted, recipient_store, in_hand>>,
         Loaded(o)' <=> Loaded(o),
         \A i \in Items : Refuses(replay_state[o], i) => Refuses(replay_state'[o], i),
         pending'[o] # NoPending => PendingPasses(o)'
  PROVE  ReplayInv'
<1>1. \A p \in Owners : p = o
  BY DEF OneOwner
<1>2. acted \subseteq Items /\ in_hand[o] \subseteq Items
  BY DEF ReplayInv, NoPivInv, ContextTypeOK
<1>3. RecordRefuses'
  BY <1>1, <1>2 DEF ReplayInv, RecordRefuses
<1>4. HandRefused'
  <2>1. /\ ~Loaded(o)' => in_hand'[o] = {}
        /\ \A i \in in_hand'[o] : Refuses(replay_state'[o], i)
        /\ in_hand'[o] \cap acted' = {}
        /\ \A i, j \in in_hand'[o] \cup acted' : Collide(i, j) => i = j
    BY <1>2 DEF ReplayInv, HandRefused
  <2> QED BY <1>1, <2>1 DEF HandRefused, Collide
<1> QED BY <1>1, <1>3, <1>4 DEF ReplayInv

\* An active object accepts a message that its windows let in.
LEMMA AcceptKeeps ==
  ASSUME ReplayInv, NoPivInv', OneOwner, NEW o \in Owners, NEW item \in Items,
         status[o] = "active", UNCHANGED <<vars, recipient_store>>,
         pending'[o] = NoPending, Accept(o, item),
         Refuses(replay_state'[o], item),
         \A i \in Items : Refuses(replay_state[o], i) => Refuses(replay_state'[o], i),
         \A i \in Items : Refuses(replay_state[o], i) =>
           i # item /\ ~Collide(i, item) /\ ~Collide(item, i)
  PROVE  ReplayInv'
<1>1. \A p \in Owners : p = o
  BY DEF OneOwner
<1>2. acted \subseteq Items /\ in_hand \in [Owners -> SUBSET Items]
  BY DEF ReplayInv, NoPivInv, ContextTypeOK
<1>3. /\ in_hand'[o] = in_hand[o] \cup {item}
      /\ reacted' = reacted \cup ({item} \cap in_hand[o]) /\ acted' = acted
  BY <1>2 DEF Accept
<1>4. Loaded(o) /\ Loaded(o)' /\ store' = store
  BY DEF Loaded, vars, memory
<1>5. \A i \in in_hand[o] \cup acted : Refuses(replay_state[o], i) /\ i \in Items
  BY <1>2, <1>4 DEF ReplayInv, RecordRefuses, HandRefused
<1>6. \A i \in in_hand[o] \cup acted :
        /\ Refuses(replay_state'[o], i)
        /\ i # item /\ ~Collide(i, item) /\ ~Collide(item, i)
  BY <1>5
<1>7. RecordRefuses'
  BY <1>1, <1>3, <1>4, <1>6 DEF ReplayInv, RecordRefuses
<1>8. reacted' = {}
  BY <1>3, <1>6 DEF ReplayInv
<1>9. HandRefused'
  <2>1. in_hand[o] \cap acted = {}
        /\ \A i, j \in in_hand[o] \cup acted : Collide(i, j) => i = j
    BY DEF ReplayInv, HandRefused
  <2>2. \A i \in in_hand'[o] : Refuses(replay_state'[o], i)
    BY <1>3, <1>6
  <2>3. in_hand'[o] \cap acted' = {}
    BY <1>3, <1>6, <2>1
  <2>4. \A i, j \in in_hand'[o] \cup acted' : Collide(i, j) => i = j
    BY <1>3, <1>6, <2>1
  <2> QED BY <1>1, <1>4, <2>2, <2>3, <2>4 DEF HandRefused, Collide
<1> QED BY <1>1, <1>7, <1>8, <1>9 DEF ReplayInv

\* A message that passes the windows is none of those they refuse.
LEMMA PassesApart ==
  ASSUME NEW s, NEW item, NEW i, Refuses(s, i),
         item.mode \in Modes, i.mode \in Modes,
         item.mode = "request" => ~IsReuse(s.replay, item.message),
         item.mode = "ordinary" => ~IsReuse(s.received_response, item.message.request),
         item.mode = "observe" => item.message.piv # NoPiv,
         item.mode # "request" /\ item.message.piv # NoPiv =>
           ~IsReuse(s.received_response_piv, item.message.piv)
  PROVE  i # item /\ ~Collide(i, item) /\ ~Collide(item, i)
  BY DEF Refuses, Collide, Modes

-----------------------------------------------------------------------------

LEMMA ReplayUnprotectRequest ==
  ASSUME ReplayInv, NoPivInv', OneOwner, OpensActivated, NEW o \in Owners,
         NEW n \in Requests, UnprotectRequest(o, n)
  PROVE  ReplayInv'
<1> DEFINE w == [replay_state[o] EXCEPT !.replay = Mark(@, n)]
           item == RequestItem(o, n)
<1>0. /\ ContextTypeOK /\ replay_state[o] \in RecipientReplayState
      /\ replay_state[o].replay \in Window /\ n \in Nat
  BY PeerAssumption DEF ReplayInv, NoPivInv, ContextTypeOK, RecipientReplayState
<1>1. /\ UNCHANGED <<vars, pending, recipient_store>>
      /\ replay_state' = [replay_state EXCEPT ![o] = w]
      /\ Accept(o, item) /\ status[o] = "active" /\ pending[o] = NoPending
      /\ ~IsReuse(replay_state[o].replay, n)
  BY DEF UnprotectRequest, update_replay_window, Usable, Free, is_replay, OpensActivated
<1>2. item \in Items /\ item.mode = "request" /\ item.message = n
  BY DEF RequestItem, Items
<1>3. replay_state'[o] = w
  BY <1>0, <1>1 DEF ContextTypeOK
<1>4. Refuses(w, item)
  <2>1. w.replay = Mark(replay_state[o].replay, n)
    BY <1>0 DEF RecipientReplayState
  <2> HIDE DEF w, item
  <2> QED BY <1>0, <1>1, <1>2, <2>1, MarkRefuses DEF Refuses
<1>5. \A i \in Items : Refuses(replay_state[o], i) => Refuses(w, i)
  BY <1>0, MarksKeep
<1>6. \A i \in Items : i.mode \in Modes
  BY DEF Items, Modes
<1> HIDE DEF w, item
<1>7. \A i \in Items : Refuses(replay_state[o], i) =>
        i # item /\ ~Collide(i, item) /\ ~Collide(item, i)
  BY <1>1, <1>2, <1>6, PassesApart
<1> QED BY <1>1, <1>2, <1>3, <1>4, <1>5, <1>7, AcceptKeeps

LEMMA ReplayCommit ==
  ASSUME ReplayInv, NoPivInv', OneOwner, NEW o \in Owners, Commit(o)
  PROVE  ReplayInv'
<1> DEFINE item == ResponseItem(o, pending[o])
<1>0. ContextTypeOK /\ pending[o] # NoPending /\ PendingPasses(o)
  BY DEF ReplayInv, NoPivInv, Commit, Free
<1>1. /\ UNCHANGED <<vars, recipient_store>>
      /\ replay_state' = [replay_state EXCEPT ![o] = Committed(o)]
      /\ pending' = [pending EXCEPT ![o] = NoPending]
      /\ Accept(o, item)
  BY DEF Commit, Committed
<1>2. replay_state'[o] = Committed(o) /\ pending'[o] = NoPending /\ status[o] = "active"
  BY <1>0, <1>1 DEF ContextTypeOK, PendingPasses
<1>3. item \in Items /\ item.message = pending[o].response /\ item.mode = pending[o].mode
  BY <1>0, CommitTyped DEF ResponseItem
<1>4. /\ \A i \in Items : Refuses(replay_state[o], i) => Refuses(Committed(o), i)
      /\ Refuses(Committed(o), item)
  BY <1>0, CommitRefuses
<1>5. item.mode # "request"
  BY <1>0, <1>3 DEF ContextTypeOK
<1>6. \A i \in Items : i.mode \in Modes
  BY DEF Items, Modes
<1>7. \A i \in Items : Refuses(replay_state[o], i) =>
        i # item /\ ~Collide(i, item) /\ ~Collide(item, i)
  <2> HIDE DEF item
  <2> QED BY <1>0, <1>3, <1>5, <1>6, PassesApart
          DEF PendingPasses, is_received_response_reuse, is_received_response_piv_reuse
<1> HIDE DEF item
<1> QED BY <1>1, <1>2, <1>3, <1>4, <1>7, AcceptKeeps

\* The record takes over what the object refuses: what was acted on, and what
\* is in hand.
LEMMA ReplaySaveRecipient ==
  ASSUME ReplayInv, NoPivInv', OneOwner, OpensActivated, NEW o \in Owners,
         SaveRecipient(o)
  PROVE  ReplayInv'
<1>0. /\ replay_state[o] \in RecipientReplayState /\ in_hand \in [Owners -> SUBSET Items]
      /\ replay_state[o] # NoState
  BY NoRecordAssumption DEF ReplayInv, NoPivInv, ContextTypeOK
<1>1. /\ UNCHANGED <<vars, replay_state, pending>>
      /\ recipient_store' = replay_state[o]
      /\ status[o] = "active" /\ pending[o] = NoPending
      /\ \/ /\ acted' = acted \cup in_hand[o]
            /\ reacted' = reacted \cup (acted \cap in_hand[o])
            /\ in_hand' = [in_hand EXCEPT ![o] = {}]
         \/ UNCHANGED <<in_hand, acted, reacted>>
  BY DEF SaveRecipient, recipient_replay_state, Usable, Free, OpensActivated
<1>2. \A p \in Owners : p = o
  BY DEF OneOwner
<1>3. /\ Loaded(o) /\ Loaded(o)' /\ store' = store /\ store # NoState
  BY <1>1 DEF Loaded, vars, memory, ReplayInv, NoPivInv, WholeInv, StatesValid
<1>4. /\ \A i \in acted \cup in_hand[o] : Refuses(replay_state[o], i)
      /\ in_hand[o] \cap acted = {}
      /\ \A i, j \in in_hand[o] \cup acted : Collide(i, j) => i = j
  BY <1>3 DEF ReplayInv, RecordRefuses, HandRefused
<1>5. /\ in_hand'[o] \cup acted' \subseteq in_hand[o] \cup acted
      /\ in_hand'[o] \subseteq in_hand[o] /\ in_hand'[o] \cap acted' = {}
  BY <1>0, <1>1, <1>4
<1>6. reacted' = {}
  BY <1>1, <1>4 DEF ReplayInv
<1>7. RecordRefuses'
  BY <1>0, <1>1, <1>2, <1>3, <1>4, <1>5 DEF RecordRefuses
<1>8. HandRefused'
  <2>1. /\ \A i \in in_hand'[o] : Refuses(replay_state'[o], i)
        /\ \A i, j \in in_hand'[o] \cup acted' : Collide(i, j) => i = j
    BY <1>1, <1>4, <1>5
  <2> QED BY <1>2, <1>3, <1>5, <2>1 DEF HandRefused, Collide
<1>9. pending'[o] = NoPending
  BY <1>1
<1> QED BY <1>2, <1>6, <1>7, <1>8, <1>9 DEF ReplayInv


\* A restored object takes over what the record refuses; a registered one finds
\* no record, and nothing was acted on.
LEMMA ReplayLifecycle ==
  ASSUME ReplayInv, NoPivInv', OneOwner, NEW o \in Owners,
         store # NoState => store' # NoState,
         \/ NewContext(o) \/ DropContext(o) \/ Register(o)
         \/ BeginRestoreContext(o) \/ FinishRestoreContext(o)
  PROVE  ReplayInv'
<1>0. TypeOK /\ ContextTypeOK
  BY DEF ReplayInv, NoPivInv, WholeInv
<1>1. pending[o] # NoPending => status[o] = "active"
  BY DEF ReplayInv, PendingPasses
<1>2. ~Loaded(o) => in_hand[o] = {}
  BY DEF ReplayInv, HandRefused
<1>3. CASE NewContext(o)
  <2>1. /\ status[o] = "absent" /\ SetStatus(o, "inactive")
        /\ UNCHANGED <<pending, recipient_store, acted, reacted, in_hand>>
    BY <1>3 DEF NewContext, New, messageVars
  <2>2. ~Loaded(o) /\ ~Loaded(o)' /\ pending[o] = NoPending
    BY <1>0, <1>1, <2>1, StatusSet DEF Loaded
  <2> QED BY <1>2, <2>1, <2>2, LifeKeeps
<1>4. CASE DropContext(o)
  <2>1. /\ SetStatus(o, "absent") /\ KeepInHand(o)
        /\ pending' = [pending EXCEPT ![o] = NoPending]
        /\ UNCHANGED recipient_store
    BY <1>4 DEF DropContext, Drop, Destroy
  <2>2. status'[o] = "absent" /\ pending'[o] = NoPending
    BY <1>0, <2>1, StatusSet DEF ContextTypeOK
  <2>3. in_hand'[o] = {} /\ UNCHANGED <<acted, reacted>>
    BY <1>0, <2>1, <2>2 DEF KeepInHand, ContextTypeOK
  <2> QED BY <2>1, <2>2, <2>3, LifeKeeps DEF Loaded
<1>5. CASE Register(o)
  <2>1. /\ pending[o] = NoPending /\ KeepInHand(o)
        /\ UNCHANGED <<replay_state, pending, recipient_store>>
        /\ \/ SetStatus(o, "active") /\ store = NoState /\ status[o] = "inactive"
           \/ SetStatus(o, "absent")
    BY <1>5 DEF Register, RegisterFresh, RegisterActive, Destroy, Exchanged, Free
  <2>2. UNCHANGED <<acted, reacted>>
    BY <2>1 DEF KeepInHand
  <2>3. CASE SetStatus(o, "absent")
    <3>1. status'[o] = "absent"
      BY <1>0, <2>3, StatusSet
    <3>2. in_hand'[o] = {}
      BY <1>0, <2>1, <3>1 DEF KeepInHand, ContextTypeOK
    <3> QED BY <2>1, <2>2, <3>1, <3>2, LifeKeeps DEF Loaded
  <2>4. CASE SetStatus(o, "active") /\ store = NoState /\ status[o] = "inactive"
    <3>1. in_hand[o] = {} /\ acted = {}
      BY <1>2, <2>4 DEF Loaded, ReplayInv, RecordRefuses
    <3>2. in_hand'[o] = {}
      BY <1>0, <2>1, <3>1 DEF KeepInHand, ContextTypeOK
    <3> QED BY <2>1, <2>2, <3>1, <3>2, LifeKeeps
  <2> QED BY <2>1, <2>3, <2>4
<1>6. CASE BeginRestoreContext(o)
  <2>1. /\ pending[o] = NoPending /\ KeepInHand(o) /\ UNCHANGED <<pending, recipient_store>>
        /\ SetStatus(o, "restoring") \/ SetStatus(o, "absent")
    BY <1>6 DEF BeginRestoreContext, BeginRestore, Destroy, Free, windowVars
  <2>2. status'[o] \in {"restoring", "absent"}
    BY <1>0, <2>1, StatusSet
  <2>3. in_hand'[o] = {} /\ UNCHANGED <<acted, reacted>>
    BY <1>0, <2>1, <2>2 DEF KeepInHand, ContextTypeOK
  <2> QED BY <2>1, <2>2, <2>3, LifeKeeps DEF Loaded
<1>7. CASE FinishRestoreContext(o)
  <2>1. /\ KeepInHand(o) /\ UNCHANGED <<pending, recipient_store>>
        /\ status[o] = "restoring"
        /\ IF recipient_store = NoState THEN UNCHANGED replay_state
           ELSE replay_state' = [replay_state EXCEPT ![o] = recipient_store]
    BY <1>7 DEF FinishRestoreContext, FinishRestore, set_recipient_replay_state
  <2>2. in_hand[o] = {} /\ pending[o] = NoPending
    BY <1>1, <1>2, <2>1 DEF Loaded
  <2>3. in_hand'[o] = {} /\ UNCHANGED <<acted, reacted>>
    BY <1>0, <2>1, <2>2 DEF KeepInHand, ContextTypeOK
  <2>4. \A i \in acted : recipient_store # NoState /\ Refuses(recipient_store, i)
    BY DEF ReplayInv, RecordRefuses
  <2>5. \A i \in acted : Refuses(replay_state'[o], i)
    BY <1>0, <2>1, <2>4 DEF ContextTypeOK
  <2> QED BY <2>1, <2>2, <2>3, <2>5, LifeKeeps
<1> QED BY <1>3, <1>4, <1>5, <1>6, <1>7

\* Sending, and a response that is only authenticated, or dropped.
LEMMA ReplayOther ==
  ASSUME ReplayInv, NoPivInv', OneOwner, OpensActivated, NEW o \in Owners,
         store # NoState => store' # NoState,
         \/ Protect(o) \/ DropPending(o)
         \/ \E n \in Answerable : ProtectResponseNoPiv(o, n)
         \/ \E r \in Responses, mode \in Modes \ {"request"} :
              BeginUnprotectResponse(o, r, mode)
  PROVE  ReplayInv'
<1>0. TypeOK /\ ContextTypeOK /\ replay_state[o] \in RecipientReplayState
  BY DEF ReplayInv, NoPivInv, WholeInv, ContextTypeOK
<1>1. CASE Protect(o)
  <2>1. /\ pending[o] = NoPending /\ UNCHANGED contextVars
        /\ status[o] \in {"active", "reserved"}
        /\ SetStatus(o, "reserved") \/ SetStatus(o, "active") \/ UNCHANGED status
    BY <1>1 DEF Protect, Free, Reserve, ReserveSender, ProtectReserved,
                ProtectResponseWithPiv, memory
  <2>2. Loaded(o) /\ Loaded(o)'
    BY <1>0, <2>1, StatusSet DEF Loaded
  <2> QED BY <2>1, <2>2, IdleKeeps DEF contextVars, windowVars, messageVars
<1>2. CASE DropPending(o)
  <2>1. /\ UNCHANGED <<vars, replay_state, recipient_store, messageVars>>
        /\ pending' = [pending EXCEPT ![o] = NoPending]
    BY <1>2 DEF DropPending
  <2>2. pending'[o] = NoPending
    BY <1>0, <2>1 DEF ContextTypeOK
  <2> QED BY <2>1, <2>2, IdleKeeps DEF Loaded, vars, memory, messageVars
<1>3. CASE \E n \in Answerable : ProtectResponseNoPiv(o, n)
  <2>1. PICK n \in Answerable : ProtectResponseNoPiv(o, n)
    BY <1>3
  <2>2. /\ UNCHANGED <<vars, pending, recipient_store, in_hand, acted, reacted>>
        /\ replay_state' = [replay_state EXCEPT ![o].response = Mark(@, n)]
        /\ pending[o] = NoPending
    BY <2>1 DEF ProtectResponseNoPiv, mark_response_used, Free
  <2>3. replay_state'[o] = [replay_state[o] EXCEPT !.response = Mark(@, n)]
    BY <1>0, <2>2 DEF ContextTypeOK
  <2>4. \A i \in Items : Refuses(replay_state[o], i) => Refuses(replay_state'[o], i)
    <3> DEFINE w == [replay_state[o] EXCEPT !.response = Mark(@, n)]
    <3>1. n \in Nat
      BY PeerAssumption
    <3>2. \A i \in Items : Refuses(replay_state[o], i) => Refuses(w, i)
      BY <1>0, <3>1, MarksKeep
    <3> HIDE DEF w
    <3> QED BY <2>3, <3>2 DEF w
  <2> QED BY <2>2, <2>4, IdleKeeps DEF Loaded, vars, memory
<1>4. CASE \E r \in Responses, mode \in Modes \ {"request"} :
             BeginUnprotectResponse(o, r, mode)
  <2>1. PICK r \in Responses, mode \in Modes \ {"request"} :
          BeginUnprotectResponse(o, r, mode)
    BY <1>4
  <2>2. /\ UNCHANGED <<vars, replay_state, recipient_store, messageVars>>
        /\ status[o] = "active"
        /\ pending' = [pending EXCEPT ![o] = [response |-> r, mode |-> mode]]
    BY <2>1 DEF BeginUnprotectResponse, Usable, OpensActivated
  <2>3. pending'[o] = [response |-> r, mode |-> mode] /\ status' = status
    BY <1>0, <2>2 DEF ContextTypeOK, vars, memory
  <2>4. PendingPasses(o)'
    BY <2>1, <2>2, <2>3
    DEF BeginUnprotectResponse, PendingPasses, is_received_response_reuse,
        is_received_response_piv_reuse
  <2> QED BY <2>2, <2>3, <2>4, IdleKeeps DEF Loaded, messageVars, vars
<1> QED BY <1>1, <1>2, <1>3, <1>4

-----------------------------------------------------------------------------

LEMMA InitReplay == ContextInit => ReplayInv
<1> SUFFICES ASSUME ContextInit PROVE ReplayInv
  OBVIOUS
<1>1. NoPivInv
  BY InitNoPiv
<1> QED BY <1>1 DEF ContextInit, ReplayInv, RecordRefuses, HandRefused

LEMMA NextReplay ==
  ASSUME OneOwner, OpensActivated
  PROVE  ReplayInv /\ [ContextNext]_allVars => ReplayInv'
<1> SUFFICES ASSUME ReplayInv, [ContextNext]_allVars PROVE ReplayInv'
  OBVIOUS
<1>1. NoPivInv' /\ (store # NoState => store' # NoState)
  BY NextNoPiv, ContextIsNext, RecordStays DEF ReplayInv, NoPivInv
<1>2. CASE UNCHANGED allVars
  <2>1. UNCHANGED <<status, store, acted, reacted, in_hand, replay_state, pending,
                    recipient_store>>
    BY <1>2 DEF allVars, vars, memory, contextVars, windowVars, messageVars
  <2>2. RecordRefuses' /\ HandRefused'
    BY <2>1 DEF ReplayInv, RecordRefuses, HandRefused, Loaded
  <2>3. \A o \in Owners : pending'[o] # NoPending => PendingPasses(o)'
    BY <2>1 DEF ReplayInv, PendingPasses, is_received_response_reuse,
                is_received_response_piv_reuse
  <2> QED BY <1>1, <2>1, <2>2, <2>3 DEF ReplayInv
<1>3. ASSUME NEW o \in Owners, ContextStep(o) PROVE ReplayInv'
  BY <1>1, <1>3, ReplayLifecycle, ReplayOther, ReplayUnprotectRequest, ReplayCommit,
     ReplaySaveRecipient DEF ContextStep
<1> QED BY <1>2, <1>3 DEF ContextNext

\* What was acted on or is in hand is refused by whatever may open messages.
THEOREM ReplayInductive ==
  ASSUME OneOwner, OpensActivated
  PROVE  ContextSpec => []ReplayInv
  BY InitReplay, NextReplay, PTL DEF ContextSpec

\* An application that saves before it acts acts once on every message, through
\* any crashes and restores, and takes no notification for an ordinary response.
\* (recipient_replay_state, save_recipient, restore_existing, PendingResponse::commit)
THEOREM ActsOnce ==
  ASSUME OneOwner, OpensActivated
  PROVE  ContextSpec => []ActedOnce
<1>1. ReplayInv => ActedOnce
  <2> SUFFICES ASSUME ReplayInv PROVE ActedOnce
    OBVIOUS
  <2>1. reacted = {}
    BY DEF ReplayInv
  <2>2. ASSUME NEW i \in acted, NEW j \in acted,
               i.mode # "request", j.mode # "request", i.message = j.message
        PROVE  i = j
    <3>1. PICK o \in Owners : TRUE
      BY DEF ReplayInv, NoPivInv, ContextTypeOK, Items
    <3> QED BY <2>2, <3>1 DEF ReplayInv, HandRefused, Collide
  <2> QED BY <2>1, <2>2 DEF ActedOnce
<1> QED BY <1>1, ReplayInductive, PTL

\* A request has at most one ordinary answer, whether it has a Partial IV or not.
\* (begin_unprotect_response, PendingResponse::commit)
THEOREM AnsweredOnce ==
  ASSUME OneOwner, OpensActivated
  PROVE  ContextSpec => []OneOrdinaryResponse
<1>1. ReplayInv => OneOrdinaryResponse
  <2> SUFFICES ASSUME ReplayInv, NEW i \in acted, NEW j \in acted,
                      i.mode = "ordinary", j.mode = "ordinary",
                      i.message.request = j.message.request
               PROVE  i = j
    BY DEF OneOrdinaryResponse
  <2>1. PICK o \in Owners : TRUE
    BY DEF ReplayInv, NoPivInv, ContextTypeOK, Items
  <2> QED BY <2>1 DEF ReplayInv, HandRefused, Collide
<1> QED BY <1>1, ReplayInductive, PTL

\* The record refuses whatever was acted on, so that no restore lets it in again.
\* (recipient_replay_state, save_recipient)
THEOREM ActedIsInRecord ==
  ASSUME OneOwner, OpensActivated
  PROVE  ContextSpec => []ActedIsDurable
<1>1. ReplayInv => ActedIsDurable
  BY DEF ReplayInv, RecordRefuses, Refuses, ActedIsDurable
<1> QED BY <1>1, ReplayInductive, PTL

-----------------------------------------------------------------------------
\* What a window refuses, for any number of owners.

\* The highest number of a window is one it was given.
LEMMA MarkSeq ==
  ASSUME NEW w \in Window, NEW n \in Nat
  PROVE  /\ Mark(w, n).initialized
         /\ \/ Mark(w, n).seq = n
            \/ Mark(w, n).seq = w.seq /\ w.initialized /\ n <= w.seq
  BY DEF Mark, Window

LEMMA FreshFromAccepted == FromAccepted(FreshReplayState)
  BY DEF FromAccepted, FreshReplayState, FreshResponseWindow

LEMMA MoreAccepted ==
  ASSUME NEW s, FromAccepted(s), accepted \subseteq accepted'
  PROVE  /\ \/ s.replay = FreshRequestWindow
            \/ \E i \in accepted' : i.mode = "request" /\ i.message = s.replay.seq
         /\ s.received_response.initialized =>
              \E i \in accepted' : /\ i.mode = "ordinary"
                                   /\ i.message.request = s.received_response.seq
         /\ s.received_response_piv.initialized =>
              \E i \in accepted' : /\ i.mode # "request" /\ i.message.piv # NoPiv
                                   /\ i.message.piv = s.received_response_piv.seq
  BY DEF FromAccepted

\* The windows of one object change, or the record, and nothing accepted is
\* forgotten.
LEMMA WindowsKeep ==
  ASSUME WindowsInv, ContextTypeOK, accepted \subseteq accepted', NEW o \in Owners,
         NEW w, FromAccepted(w)',
         \/ UNCHANGED replay_state
         \/ replay_state' = [replay_state EXCEPT ![o] = w],
         \/ UNCHANGED recipient_store
         \/ recipient_store' = replay_state[o]
  PROVE  WindowsInv'
<1>1. ASSUME NEW p \in Owners PROVE FromAccepted(replay_state[p])'
  <2>1. \/ replay_state'[p] = replay_state[p]
        \/ replay_state'[p] = w
    BY DEF ContextTypeOK
  <2> QED BY <2>1, MoreAccepted DEF FromAccepted, WindowsInv
<1>2. recipient_store' # NoState => FromAccepted(recipient_store)'
  BY MoreAccepted DEF FromAccepted, WindowsInv
<1> QED BY <1>1, <1>2 DEF WindowsInv


LEMMA InitWindows == ContextInit => WindowsInv
  BY FreshFromAccepted DEF ContextInit, WindowsInv

LEMMA RequestFromAccepted ==
  ASSUME WindowsInv, ContextTypeOK, NEW o \in Owners, NEW n \in Requests,
         UnprotectRequest(o, n)
  PROVE  WindowsInv'
<1> DEFINE s == replay_state[o]
           w == [s EXCEPT !.replay = Mark(@, n)]
           item == RequestItem(o, n)
<1>1. /\ replay_state' = [replay_state EXCEPT ![o] = w] /\ UNCHANGED recipient_store
      /\ accepted' = accepted \cup {item}
  BY DEF UnprotectRequest, update_replay_window, Accept
<1>2. item.mode = "request" /\ item.message = n /\ item \in accepted'
  BY <1>1 DEF RequestItem
<1>3. n \in Nat /\ s \in RecipientReplayState /\ s.replay \in Window /\ FromAccepted(s)
  BY PeerAssumption DEF ContextTypeOK, RecipientReplayState, WindowsInv
<1>4. /\ w.replay = Mark(s.replay, n)
      /\ w.received_response = s.received_response
      /\ w.received_response_piv = s.received_response_piv
  BY <1>3 DEF RecipientReplayState
<1> HIDE DEF s, w, item
<1>5. \E i \in accepted' : i.mode = "request" /\ i.message = w.replay.seq
  <2>1. CASE w.replay.seq = n
    BY <1>2, <2>1
  <2>2. CASE w.replay.seq = s.replay.seq /\ n <= s.replay.seq
    <3>1. CASE s.replay = FreshRequestWindow
      <4>1. n = 0 /\ s.replay.seq = 0
        BY <1>3, <2>2, <3>1 DEF FreshRequestWindow
      <4> QED BY <1>2, <2>2, <4>1
    <3>2. CASE s.replay # FreshRequestWindow
      BY <1>1, <1>3, <2>2, <3>2 DEF FromAccepted
    <3> QED BY <3>1, <3>2
  <2> QED BY <1>3, <1>4, <2>1, <2>2, MarkSeq
<1>6. PICK after : after = w
  OBVIOUS
<1>7. FromAccepted(after)'
  BY <1>1, <1>3, <1>4, <1>5, <1>6, MoreAccepted DEF FromAccepted
<1> QED BY <1>1, <1>6, <1>7, WindowsKeep

LEMMA CommitFromAccepted ==
  ASSUME WindowsInv, ContextTypeOK, NEW o \in Owners, Commit(o)
  PROVE  WindowsInv'
<1> DEFINE s == replay_state[o]
           r == pending[o].response
           t == IF r.piv = NoPiv THEN s ELSE mark_received_response_piv(s, r.piv)
           w == IF pending[o].mode = "ordinary"
                  THEN mark_received_response(t, r.request) ELSE t
           item == ResponseItem(o, pending[o])
<1>1. /\ replay_state' = [replay_state EXCEPT ![o] = w] /\ UNCHANGED recipient_store
      /\ accepted' = accepted \cup {item} /\ pending[o] # NoPending
  BY DEF Commit, Accept, Free
<1>2. /\ pending[o] \in [response : Responses, mode : Modes \ {"request"}]
      /\ r \in Responses /\ r.request \in Nat /\ (r.piv # NoPiv => r.piv \in Nat)
  BY <1>1, PeerAssumption DEF ContextTypeOK
<1>3. /\ item.mode = pending[o].mode /\ item.message = r /\ item \in accepted'
      /\ item.mode # "request"
  BY <1>1, <1>2 DEF ResponseItem
<1>4. /\ s \in RecipientReplayState /\ FromAccepted(s)
      /\ s.received_response \in Window /\ s.received_response_piv \in Window
  BY DEF ContextTypeOK, RecipientReplayState, WindowsInv
<1>5. /\ t.replay = s.replay /\ t.received_response = s.received_response
      /\ t.received_response_piv =
           IF r.piv = NoPiv THEN s.received_response_piv
           ELSE Mark(s.received_response_piv, r.piv)
      /\ t \in RecipientReplayState
  <2>1. CASE r.piv = NoPiv
    BY <1>4, <2>1
  <2>2. CASE r.piv # NoPiv
    <3>1. t = mark_received_response_piv(s, r.piv) /\ r.piv \in Nat
      BY <1>2, <2>2
    <3> HIDE DEF s, r, t
    <3> QED BY <1>4, <2>2, <3>1, MarkTyped
            DEF mark_received_response_piv, RecipientReplayState
  <2> QED BY <2>1, <2>2
<1>6. /\ w.replay = s.replay /\ w.received_response_piv = t.received_response_piv
      /\ w.received_response =
           IF pending[o].mode = "ordinary" THEN Mark(s.received_response, r.request)
           ELSE s.received_response
  <2> HIDE DEF s, r, t
  <2> QED BY <1>5 DEF mark_received_response, RecipientReplayState
<1> HIDE DEF s, r, t, w, item
<1>7. w.received_response.initialized =>
        \E i \in accepted' : /\ i.mode = "ordinary"
                             /\ i.message.request = w.received_response.seq
  BY <1>1, <1>2, <1>3, <1>4, <1>6, MarkSeq, MoreAccepted
<1>8. w.received_response_piv.initialized =>
        \E i \in accepted' : /\ i.mode # "request" /\ i.message.piv # NoPiv
                             /\ i.message.piv = w.received_response_piv.seq
  BY <1>1, <1>2, <1>3, <1>4, <1>5, <1>6, MarkSeq, MoreAccepted
<1>9. \/ w.replay = FreshRequestWindow
      \/ \E i \in accepted' : i.mode = "request" /\ i.message = w.replay.seq
  BY <1>1, <1>4, <1>6, MoreAccepted
<1>10. PICK after : after = w
  OBVIOUS
<1>11. FromAccepted(after)'
  BY <1>7, <1>8, <1>9, <1>10 DEF FromAccepted
<1> QED BY <1>1, <1>10, <1>11, WindowsKeep


\* A step that accepts nothing gives an object new windows, the record's, or the
\* ones it has but for the window of responses it sent.
LEMMA OtherFromAccepted ==
  ASSUME WindowsInv, ContextTypeOK, NEW o \in Owners, ContextStep(o),
         ~Commit(o), \A n \in Requests : ~UnprotectRequest(o, n)
  PROVE  WindowsInv'
<1>1. accepted' = accepted
  BY DEF ContextStep, NewContext, DropContext, Register, BeginRestoreContext,
         FinishRestoreContext, Protect, ProtectResponseNoPiv, BeginUnprotectResponse,
         DropPending, SaveRecipient, KeepInHand, messageVars, contextVars
<1>2. FromAccepted(replay_state[o]) /\ replay_state[o] \in RecipientReplayState
  BY DEF WindowsInv, ContextTypeOK
<1>3. CASE NewContext(o)
  <2>1. /\ replay_state' = [replay_state EXCEPT ![o] = FreshReplayState]
        /\ UNCHANGED recipient_store
    BY <1>3 DEF NewContext
  <2>2. PICK after : after = FreshReplayState
    OBVIOUS
  <2>3. FromAccepted(after)'
    BY <2>2 DEF FromAccepted, FreshReplayState, FreshResponseWindow
  <2> QED BY <1>1, <2>1, <2>2, <2>3, WindowsKeep
<1>4. CASE FinishRestoreContext(o)
  <2>1. UNCHANGED recipient_store
    BY <1>4 DEF FinishRestoreContext
  <2>2. PICK after : after = IF recipient_store = NoState THEN replay_state[o]
                             ELSE recipient_store
    OBVIOUS
  <2>3. FromAccepted(after)'
    BY <1>1, <1>2, <2>2 DEF FromAccepted, WindowsInv
  <2>4. UNCHANGED replay_state \/ replay_state' = [replay_state EXCEPT ![o] = after]
    BY <1>4, <2>2 DEF FinishRestoreContext, set_recipient_replay_state
  <2> QED BY <1>1, <2>1, <2>3, <2>4, WindowsKeep
<1>5. CASE \E n \in Answerable : ProtectResponseNoPiv(o, n)
  <2>1. PICK n \in Answerable : ProtectResponseNoPiv(o, n)
    BY <1>5
  <2>2. PICK after : after = [replay_state[o] EXCEPT !.response = Mark(@, n)]
    OBVIOUS
  <2>3. /\ replay_state' = [replay_state EXCEPT ![o] = after]
        /\ UNCHANGED recipient_store
    BY <2>1, <2>2 DEF ProtectResponseNoPiv, mark_response_used
  <2>4. /\ after.replay = replay_state[o].replay
        /\ after.received_response = replay_state[o].received_response
        /\ after.received_response_piv = replay_state[o].received_response_piv
    BY <1>2, <2>2 DEF RecipientReplayState
  <2>5. FromAccepted(after)'
    BY <1>1, <1>2, <2>4 DEF FromAccepted
  <2> QED BY <1>1, <2>3, <2>5, WindowsKeep
<1>6. CASE /\ ~NewContext(o) /\ ~FinishRestoreContext(o)
           /\ \A n \in Answerable : ~ProtectResponseNoPiv(o, n)
  <2>1. /\ UNCHANGED replay_state
        /\ UNCHANGED recipient_store \/ recipient_store' = replay_state[o]
    BY <1>6 DEF ContextStep, DropContext, Register, BeginRestoreContext, Protect,
       BeginUnprotectResponse, DropPending, SaveRecipient, recipient_replay_state,
       windowVars, contextVars
  <2>2. PICK after : after = replay_state[o]
    OBVIOUS
  <2>3. FromAccepted(after)'
    BY <1>1, <1>2, <2>2 DEF FromAccepted
  <2> QED BY <1>1, <2>1, <2>3, WindowsKeep
<1> QED BY <1>3, <1>4, <1>5, <1>6

LEMMA NextWindows ==
  WindowsInv /\ ContextTypeOK /\ [ContextNext]_allVars => WindowsInv'
<1> SUFFICES ASSUME WindowsInv, ContextTypeOK, [ContextNext]_allVars
             PROVE  WindowsInv'
  OBVIOUS
<1>1. CASE UNCHANGED allVars
  BY <1>1 DEF allVars, contextVars, windowVars, messageVars, WindowsInv, FromAccepted
<1>2. CASE ContextNext
  BY <1>2, RequestFromAccepted, CommitFromAccepted, OtherFromAccepted
  DEF ContextNext, ContextStep
<1> QED BY <1>1, <1>2

\* A window that refuses a number has one as high.
LEMMA RefusedBelow ==
  ASSUME NEW w \in Window, NEW n \in Nat, IsReuse(w, n)
  PROVE  w.initialized /\ n <= w.seq /\ w # FreshRequestWindow
  BY WindowSizeAssumption DEF IsReuse, TooOld, Window, FreshRequestWindow

\* A window refuses only what messages of its own kind account for: requests do
\* not block responses, notifications leave their request open, and a response
\* that was dropped blocks nothing.
\* ("Do not mix it with the request receive window", src/lib.rs:1388)
THEOREM WindowsStayApart == ContextSpec => []WindowsNotMixed
<1>1. WindowsInv /\ ContextTypeOK => WindowsNotMixed
  <2> SUFFICES ASSUME WindowsInv, ContextTypeOK, NEW o \in Owners
               PROVE  WindowsNotMixed!(o)
    BY DEF WindowsNotMixed
  <2>1. /\ replay_state[o].replay \in Window
        /\ replay_state[o].received_response \in Window
        /\ replay_state[o].received_response_piv \in Window
        /\ FromAccepted(replay_state[o])
    BY DEF ContextTypeOK, RecipientReplayState, WindowsInv
  <2>2. ASSUME NEW n \in Requests, is_replay(o, n)
        PROVE  \E i \in accepted : i.mode = "request" /\ i.message >= n
    BY <2>1, <2>2, RefusedBelow, PeerAssumption DEF is_replay, FromAccepted
  <2>3. ASSUME NEW r \in Responses, is_received_response_reuse(o, r.request)
        PROVE  \E i \in accepted : i.mode = "ordinary" /\ i.message.request >= r.request
    BY <2>1, <2>3, RefusedBelow, PeerAssumption DEF is_received_response_reuse, FromAccepted
  <2>4. ASSUME NEW r \in Responses, r.piv # NoPiv, is_received_response_piv_reuse(o, r.piv)
        PROVE  \E i \in accepted : /\ i.mode # "request"
                                   /\ i.message.piv # NoPiv
                                   /\ i.message.piv >= r.piv
    BY <2>1, <2>4, RefusedBelow, PeerAssumption
    DEF is_received_response_piv_reuse, FromAccepted
  <2> QED BY <2>2, <2>3, <2>4
<1>2. ContextInit => WindowsInv
  BY InitWindows
<1>3. WindowsInv /\ ContextTypeOK /\ [ContextNext]_allVars => WindowsInv'
  BY NextWindows
<1> QED BY <1>1, <1>2, <1>3, ContextTyped, PTL DEF ContextSpec

=============================================================================
