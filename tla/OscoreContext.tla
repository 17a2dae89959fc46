---------------------------- MODULE OscoreContext ----------------------------
(***************************************************************************)
(* The whole OSCORE context (src/lib.rs): the sender side of               *)
(* SenderSequence, joined by the four replay windows, their best-effort    *)
(* persistence, requests received, responses sent without a Partial IV,    *)
(* and responses received, which are first authenticated and then          *)
(* committed or dropped.                                                   *)
(*                                                                         *)
(* All owners share a sender ID, hence one ContextId and one recipient     *)
(* record as well as one sender record; PeerOf says whose messages an      *)
(* owner's recipient key opens.  Forged, damaged or foreign messages fail  *)
(* before any window moves, as do genuine ones that do not fit the output  *)
(* buffers: those calls are stuttering steps.                              *)
(***************************************************************************)
EXTENDS SenderSequence, ReplayWindow

CONSTANTS
  PeerOf,       \* [Owners -> peers]
  Requests,     \* PIVs of the requests every peer sends; any may come again
  Answerable,   \* request PIVs the application answers without a PIV
  Responses,    \* responses that can arrive: [request, piv], piv may be NoPiv
  NoPiv,        \* the response's option carries no PIV
  NoPending,    \* no PendingResponse borrows the object
  OpenIn        \* statuses in which the application opens messages

\* The code opens messages with objects that were never activated, too; an
\* application that does not has OpenIn = {"active"}.
ASSUME OpenInAssumption == OpenIn \subseteq {"inactive", "active"}

\* A peer is a SenderSequence of its own: a PIV names one response, and a
\* request gets at most one response without a PIV.
ASSUME PeerAssumption ==
  /\ Requests \subseteq Nat /\ Answerable \subseteq Nat
  /\ Responses \subseteq [request : Nat, piv : Nat \cup {NoPiv}]
  /\ \A r, s \in Responses :
       r.piv = s.piv /\ (r.piv = NoPiv => r.request = s.request) => r = s

VARIABLES
  replay_state,            \* the windows in each object
  allow_no_piv_response,   \* Context.allow_no_piv_response
  pending,                 \* the response a PendingResponse holds, and its mode
  recipient_store,         \* the durable recipient record of the ContextId
  in_hand,                 \* history: accepted by the object, not yet acted on
  accepted,                \* history: ever accepted by some object
  acted,                   \* history: handed to the application for good
  reacted,                 \* history: those handed to it, or in hand, twice
  answered,                \* history: requests answered without a PIV
  reanswered               \* history: those answered so more than once

windowVars == <<replay_state, allow_no_piv_response, pending, recipient_store>>
messageVars == <<in_hand, accepted, acted, reacted, answered, reanswered>>
contextVars == <<windowVars, messageVars>>
allVars == <<vars, contextVars>>

RecipientReplayState ==
  [replay : Window, response : Window,
   received_response : Window, received_response_piv : Window]

ASSUME NoRecordAssumption == NoState \notin RecipientReplayState

FreshReplayState ==
  [replay |-> FreshRequestWindow,
   response |-> FreshResponseWindow,
   received_response |-> FreshResponseWindow,
   received_response_piv |-> FreshResponseWindow]

Modes == {"request", "ordinary", "observe"}

\* A message as the application sees it: whose, which, and how it came.
RequestItem(o, n) == [peer |-> PeerOf[o], mode |-> "request", message |-> n]
ResponseItem(o, p) == [peer |-> PeerOf[o], mode |-> p.mode, message |-> p.response]

Items ==
  [peer : {PeerOf[o] : o \in Owners}, mode : {"request"}, message : Requests]
    \cup [peer : {PeerOf[o] : o \in Owners}, mode : Modes \ {"request"},
          message : Responses]

ContextTypeOK ==
  /\ replay_state \in [Owners -> RecipientReplayState]
  /\ allow_no_piv_response \in [Owners -> BOOLEAN]
  /\ pending \in [Owners ->
       [response : Responses, mode : Modes \ {"request"}] \cup {NoPending}]
  /\ recipient_store \in RecipientReplayState \cup {NoState}
  /\ in_hand \in [Owners -> SUBSET Items]
  /\ accepted \in SUBSET Items /\ acted \in SUBSET Items /\ reacted \in SUBSET Items
  /\ answered \subseteq {PeerOf[o] : o \in Owners} \X Answerable
  /\ reanswered \subseteq answered

ContextInit ==
  /\ Init
  /\ replay_state = [o \in Owners |-> FreshReplayState]
  /\ allow_no_piv_response = [o \in Owners |-> FALSE]
  /\ pending = [o \in Owners |-> NoPending]
  /\ recipient_store = NoState
  /\ in_hand = [o \in Owners |-> {}]
  /\ accepted = {} /\ acted = {} /\ reacted = {}
  /\ answered = {} /\ reanswered = {}

-----------------------------------------------------------------------------
\* Window operations on an object, under their names in the code.

is_replay(o, n) == IsReuse(replay_state[o].replay, n)
is_response_reuse(o, n) == IsReuse(replay_state[o].response, n)
is_received_response_reuse(o, n) == IsReuse(replay_state[o].received_response, n)
is_received_response_piv_reuse(o, n) ==
  IsReuse(replay_state[o].received_response_piv, n)

update_replay_window(o, n) ==
  replay_state' = [replay_state EXCEPT ![o].replay = Mark(@, n)]
mark_response_used(o, n) ==
  replay_state' = [replay_state EXCEPT ![o].response = Mark(@, n)]

\* Mutant of recipient_replay_state: a snapshot that leaves out a window.
SnapshotWithoutPivs(o) ==
  [replay_state[o] EXCEPT !.received_response_piv = FreshResponseWindow]

\* recipient_replay_state snapshots all windows of an object ...
recipient_replay_state(o) == replay_state[o]

\* ... and set_recipient_replay_state puts them back.
set_recipient_replay_state(o, s) == replay_state' = [replay_state EXCEPT ![o] = s]

\* The marks PendingResponse::commit makes, the PIV's first.
mark_received_response_piv(state, n) ==
  [state EXCEPT !.received_response_piv = Mark(@, n)]
mark_received_response(state, n) ==
  [state EXCEPT !.received_response = Mark(@, n)]

Accept(o, item) ==
  /\ in_hand' = [in_hand EXCEPT ![o] = @ \cup {item}]
  /\ accepted' = accepted \cup {item}
  /\ reacted' = reacted \cup ({item} \cap in_hand[o])
  /\ UNCHANGED <<acted, answered, reanswered>>

\* An object that is gone or restored anew takes with it what it accepted and
\* nobody acted on: the application starts again from the record.
KeepInHand(o) ==
  /\ in_hand' = [in_hand EXCEPT ![o] =
                   IF status'[o] \in {"absent", "restoring"} THEN {} ELSE @]
  /\ UNCHANGED <<accepted, acted, reacted, answered, reanswered>>

\* No PendingResponse borrows the object.
Free(o) == pending[o] = NoPending

Usable(o) == Free(o) /\ status[o] \in OpenIn

-----------------------------------------------------------------------------
\* The calls of SenderSequence, with what they do to the rest of the context.

\* Context::new does not allow responses without a PIV, new_fresh does.
NewContext(o) ==
  /\ New(o)
  /\ replay_state' = [replay_state EXCEPT ![o] = FreshReplayState]
  /\ \E fresh \in BOOLEAN :
       allow_no_piv_response' = [allow_no_piv_response EXCEPT ![o] = fresh]
  /\ UNCHANGED <<pending, recipient_store, messageVars>>

DropContext(o) ==
  /\ Drop(o)
  /\ pending' = [pending EXCEPT ![o] = NoPending]
  /\ KeepInHand(o)
  /\ UNCHANGED <<replay_state, allow_no_piv_response, recipient_store>>

Register(o) ==
  /\ Free(o)
  /\ RegisterFresh(o) \/ RegisterActive(o)
  /\ allow_no_piv_response' =
       [allow_no_piv_response EXCEPT ![o] = status'[o] = "active"]
  /\ KeepInHand(o)
  /\ UNCHANGED <<replay_state, pending, recipient_store>>

BeginRestoreContext(o) ==
  /\ Free(o)
  /\ BeginRestore(o)
  /\ KeepInHand(o)
  /\ UNCHANGED windowVars

\* Mutant of FinishRestoreContext: no-PIV responses stay allowed.
FinishRestoreAllowing(o) ==
  /\ FinishRestore(o)
  /\ IF recipient_store = NoState
       THEN UNCHANGED replay_state
       ELSE set_recipient_replay_state(o, recipient_store)
  /\ allow_no_piv_response' = [allow_no_piv_response EXCEPT ![o] = TRUE]
  /\ KeepInHand(o)
  /\ UNCHANGED <<pending, recipient_store>>

\* Mutant of FinishRestoreContext: the absent record is taken for a record.
FinishRestoreUnchecked(o) ==
  /\ FinishRestore(o)
  /\ set_recipient_replay_state(o, recipient_store)
  /\ allow_no_piv_response' = [allow_no_piv_response EXCEPT ![o] = FALSE]
  /\ KeepInHand(o)
  /\ UNCHANGED <<pending, recipient_store>>

\* Mutant of FinishRestoreContext: the recipient record is not loaded.
FinishRestoreForgetting(o) ==
  /\ FinishRestore(o)
  /\ allow_no_piv_response' = [allow_no_piv_response EXCEPT ![o] = FALSE]
  /\ KeepInHand(o)
  /\ UNCHANGED <<replay_state, pending, recipient_store>>

\* A saved recipient record replaces all four windows; without one the object
\* keeps those it has.
FinishRestoreContext(o) ==
  /\ FinishRestore(o)
  /\ IF recipient_store = NoState
       THEN UNCHANGED replay_state
       ELSE set_recipient_replay_state(o, recipient_store)
  /\ allow_no_piv_response' = [allow_no_piv_response EXCEPT ![o] = FALSE]
  /\ KeepInHand(o)
  /\ UNCHANGED <<pending, recipient_store>>

Protect(o) ==
  /\ Free(o)
  /\ Reserve(o) \/ ProtectResponseWithPiv(o)
  /\ UNCHANGED contextVars

-----------------------------------------------------------------------------
\* Receiving and answering.

\* unprotect_request: the window is tested before decryption and moved after
\* everything else succeeded.  The object need not be active.
UnprotectRequest(o, n) ==
  /\ Usable(o)
  /\ ~is_replay(o, n)
  /\ update_replay_window(o, n)
  /\ Accept(o, RequestItem(o, n))
  /\ UNCHANGED <<vars, allow_no_piv_response, pending, recipient_store>>

\* protect_response with include_piv = false encrypts with the nonce of the
\* request it answers.  The application chooses the request.
ProtectResponseNoPiv(o, n) ==
  /\ Free(o)
  /\ status[o] = "active"
  /\ allow_no_piv_response[o]
  /\ ~is_response_reuse(o, n)
  /\ mark_response_used(o, n)
  /\ answered' = answered \cup {<<PeerOf[o], n>>}
  /\ reanswered' = reanswered \cup ({<<PeerOf[o], n>>} \cap answered)
  /\ UNCHANGED <<vars, allow_no_piv_response, pending, recipient_store,
                 in_hand, accepted, acted, reacted>>

\* begin_unprotect_response and begin_unprotect_observe_response authenticate a
\* response and move nothing.
BeginUnprotectResponse(o, r, mode) ==
  /\ Usable(o)
  /\ mode = "ordinary" => ~is_received_response_reuse(o, r.request)
  /\ mode = "observe" => r.piv # NoPiv
  /\ r.piv # NoPiv => ~is_received_response_piv_reuse(o, r.piv)
  /\ pending' = [pending EXCEPT ![o] = [response |-> r, mode |-> mode]]
  /\ UNCHANGED <<vars, replay_state, allow_no_piv_response, recipient_store,
                 messageVars>>

\* Mutant of Commit: a response's own PIV is thought to be mark enough.
CommitPivOnly(o) ==
  /\ ~Free(o)
  /\ LET r == pending[o].response
     IN  replay_state' = [replay_state EXCEPT ![o] =
           IF r.piv = NoPiv THEN mark_received_response(@, r.request)
           ELSE mark_received_response_piv(@, r.piv)]
  /\ pending' = [pending EXCEPT ![o] = NoPending]
  /\ Accept(o, ResponseItem(o, pending[o]))
  /\ UNCHANGED <<vars, allow_no_piv_response, recipient_store>>

\* Mutant of Commit: a notification closes its request too.
CommitClosing(o) ==
  /\ ~Free(o)
  /\ LET r   == pending[o].response
         piv == IF r.piv = NoPiv THEN replay_state[o]
                ELSE mark_received_response_piv(replay_state[o], r.piv)
     IN  replay_state' = [replay_state EXCEPT ![o] =
           mark_received_response(piv, r.request)]
  /\ pending' = [pending EXCEPT ![o] = NoPending]
  /\ Accept(o, ResponseItem(o, pending[o]))
  /\ UNCHANGED <<vars, allow_no_piv_response, recipient_store>>

\* PendingResponse::commit moves the windows and releases the plaintext.
Commit(o) ==
  /\ ~Free(o)
  /\ LET r   == pending[o].response
         piv == IF r.piv = NoPiv THEN replay_state[o]
                ELSE mark_received_response_piv(replay_state[o], r.piv)
     IN  replay_state' = [replay_state EXCEPT ![o] =
           IF pending[o].mode = "ordinary"
             THEN mark_received_response(piv, r.request) ELSE piv]
  /\ pending' = [pending EXCEPT ![o] = NoPending]
  /\ Accept(o, ResponseItem(o, pending[o]))
  /\ UNCHANGED <<vars, allow_no_piv_response, recipient_store>>

\* The PendingResponse is dropped, its transport acknowledgement having failed.
DropPending(o) ==
  /\ ~Free(o)
  /\ pending' = [pending EXCEPT ![o] = NoPending]
  /\ UNCHANGED <<vars, replay_state, allow_no_piv_response, recipient_store,
                 messageVars>>

\* The application saves recipient_replay_state with save_recipient, and only
\* if that succeeds acts on what it accepted.  The store may fail after it
\* wrote, and before: then nothing changes.
SaveRecipient(o) ==
  /\ Usable(o)
  /\ UNCHANGED <<vars, replay_state, allow_no_piv_response, pending,
                 accepted, answered, reanswered>>
  /\ recipient_store' = recipient_replay_state(o)
  /\ \/ /\ acted' = acted \cup in_hand[o]
        /\ reacted' = reacted \cup (acted \cap in_hand[o])
        /\ in_hand' = [in_hand EXCEPT ![o] = {}]
     \/ UNCHANGED <<in_hand, acted, reacted>>

-----------------------------------------------------------------------------

ContextStep(o) ==
  \/ NewContext(o) \/ DropContext(o) \/ Register(o)
  \/ BeginRestoreContext(o) \/ FinishRestoreContext(o)
  \/ Protect(o)
  \/ \E n \in Requests : UnprotectRequest(o, n)
  \/ \E n \in Answerable : ProtectResponseNoPiv(o, n)
  \/ \E r \in Responses, mode \in Modes \ {"request"} : BeginUnprotectResponse(o, r, mode)
  \/ Commit(o) \/ DropPending(o) \/ SaveRecipient(o)

ContextNext == \E o \in Owners : ContextStep(o)

ContextSpec == ContextInit /\ [][ContextNext]_allVars

-----------------------------------------------------------------------------

\* No request is answered twice with its own nonce: not by one object, not by
\* two that share the sender key, not across crashes and restores, when the
\* response window may be lost (is_response_reuse, allow_no_piv_response).
NoPivNonceUnique == reanswered = {}

\* An application that saves before it acts acts once on every message, however
\* often it is delivered and however the application crashes and restores
\* ("Without persistence, a reboot allows replay", src/lib.rs:179).  An Observe
\* notification cannot come back as an ordinary response, nor the reverse.
ActedOnce ==
  /\ reacted = {}
  /\ \A i, j \in acted :
       i.mode # "request" /\ j.mode # "request" /\ i.peer = j.peer
         /\ i.message = j.message => i = j

\* A request is answered by at most one ordinary response, with or without a
\* PIV of its own (PendingResponse::commit).
OneOrdinaryResponse ==
  \A i, j \in acted :
    i.mode = "ordinary" /\ j.mode = "ordinary" /\ i.peer = j.peer
      /\ i.message.request = j.message.request => i = j

\* "Do not mix it with the request receive window" (src/lib.rs:1388): a window
\* refuses a number only because a message of its own kind with that number or
\* a higher one was accepted.  Notifications leave their request open, requests
\* never block responses, and a dropped response blocks nothing.
WindowsNotMixed ==
  \A o \in Owners :
    /\ \A n \in Requests :
         is_replay(o, n) =>
           \E i \in accepted : i.mode = "request" /\ i.message >= n
    /\ \A r \in Responses :
         /\ is_received_response_reuse(o, r.request) =>
              \E i \in accepted : i.mode = "ordinary" /\ i.message.request >= r.request
         /\ r.piv # NoPiv /\ is_received_response_piv_reuse(o, r.piv) =>
              \E i \in accepted : /\ i.mode # "request"
                                  /\ i.message.piv # NoPiv
                                  /\ i.message.piv >= r.piv

\* Whatever the application acted on, the durable record refuses, so that a
\* restore cannot let it in again (recipient_replay_state, save_recipient).
ActedIsDurable ==
  \A i \in acted :
    /\ recipient_store # NoState
    /\ i.mode = "request" => IsReuse(recipient_store.replay, i.message)
    /\ i.mode = "ordinary" =>
         IsReuse(recipient_store.received_response, i.message.request)
    /\ i.mode # "request" =>
         \/ i.message.piv = NoPiv
         \/ IsReuse(recipient_store.received_response_piv, i.message.piv)

=============================================================================
