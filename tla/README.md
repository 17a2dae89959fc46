# A TLA+ model of rust-oscore

These modules model the parts of `rust-oscore` (OSCORE, RFC 8613, with EDHOC,
RFC 9528) whose correctness depends on the order of calls: who may encrypt with
which sequence number, what a replay window lets through, and what crashes,
restores, failing stores and competing owners do to either. TLC checks small
instances; TLAPS proves the main results for every value of the constants, and
what the codecs do for every input.

The crate is `src/lib.rs`, `src/error.rs`, `src/seqnum.rs` and, behind features,
`src/edhoc/`. The files `context.rs`, `protect.rs`, `unprotect.rs`, `option.rs`,
`types.rs`, `crypto.rs`, `group.rs` and `tests.rs` beside them are named by no
`mod` declaration, are not compiled, and are not modelled. Line numbers below
are those of `src/lib.rs` unless a file is named.

## Inventory

| Part | State | Operations | What makes it correct |
|---|---|---|---|
| Sender sequence (`seqnum.rs`, 402-441, 654-756, 1629-1671) | `sender_seq`, `sender_seq_exhausted`, `active` in each object; one durable record per `ContextId` | `new`, `register_fresh`, `restore_existing`, `reserve_sender`, the two uses of a `ReservedSender`, `protect_response` with its own PIV | no number encrypts two messages; numbers are durable before they are used; losers of a race learn of it |
| Replay windows (1492-1626) | four pairs of a highest number and a 32-bit mask | a test and an update each | nothing is accepted twice; nothing is refused without need |
| Requests and responses (971-1208, 1313-1490, 291-307) | the windows, `allow_no_piv_response`, a `PendingResponse` | `unprotect_request`, `protect_response`, `begin_unprotect_*`, `commit`, drop | one nonce use per answered request; one ordinary response per request; notifications leave it open; drops change nothing |
| Recipient record (177-198, 234-244, 683-712) | one `RecipientReplayState` per `ContextId` | `load_recipient`, `save_recipient` | what was acted on stays refused after a restart |
| Two contexts (both of the above at each end) | what is sent, saved, acted on | requests, answers, restarts | no nonce twice under one key; each end acts on what the other did, once, and on the request an answer is for |
| Encodings (1674-1854, 1935-2265, `seqnum.rs` 89-125) | none | `parse_option`, `parse_inner_body`, `find_payload_marker`, `encode_piv`, `from_piv`, nonce, AAD, `preflight_*` | round trips; one encoding per number; both body parsers agree; what passes the preflight can be received |
| EDHOC initiator and responder (`edhoc/initiator.rs`, `edhoc/responder.rs`) | lifecycle, ephemeral key, transcript hashes, a detached pending message | create and process messages, `export_oscore`, poison, zeroize | agreement on keys and identities; a key is used once; a failed session stays failed |
| EDHOC encodings and key schedule (`edhoc/{cbor,credential,types,transcript,kdf}.rs`) | none | identifiers, suite lists, ID_CRED, raw-key credentials, hashes | identifiers round-trip; a reference has one canonical form and is never bytes of another value; contexts are bound to the transcript |
| Primitives (`edhoc/sign.rs`, libraries) | none | AES-CCM, HKDF, X25519, Ed25519 | assumed |

Objects meet in three places. A `Context` is owned: its calls exclude each other
by `&mut`, and "register", "restore" and the use of a reservation consume their
receiver. Contexts of one `ContextId` meet in the durable store, through
compare-exchange on the sender record and plain saves of the recipient record.
Two endpoints meet through messages, which may be lost, repeated and reordered.
EDHOC hands its keys to a fresh, inactive `Context`, as often as it is asked.

What is hard: owners racing for numbers; a crash between any two calls; a store
that fails after it wrote; the last sequence number; messages out of order at
the edge of a window; a response opened but not accepted; the recipient record
saved late or by somebody else; in EDHOC, a pending message that outlives the
state it came from. `PROJECT.json` lists these hazards at their lines.

## Modules

**`SenderSequence`** is the allocation of sender sequence numbers. `Owners` are
slots for `Context` objects with one `ContextId`: contexts restored from the
same record, contexts of two peers under one sender ID, a process before and
after a crash. `store` is the durable record, `status` where an object is in its
life, `sender_seq` and `exhausted` its memory, `sequence` the number inside a
`ReservedSender`; `used` and `reused` record encryptions. One action is one
call, since Rust lets no two calls on an object overlap. The exception is
`restore_existing`, which reads the store twice and is two actions, so that
other owners can move the record in between. `Exchanged`, `Refused` and `Failed`
are the answers of `compare_exchange_sender`; a failure may come after the
write. A failed call on an object taken by value destroys it (`Destroy`).

Three specifications share these actions. `Spec` is the whole interface.
`ReservedSpec` leaves out `protect_response` with `include_piv = true`, the one
path that takes a number from memory. `UnrestoredSpec` leaves out
`restore_existing`; it is there for a theorem.

**`OneShotSequence`** is what reservation promises: numbers are dealt in order,
each at most once, and a number dealt is used once or lost. `SenderSequence`
instantiates it with the durable position as the next number and the live
reservations as the numbers outstanding; `ImplementsOneShot` is the claim.

**`ReplayWindow`** holds the test and the update of a sliding window, the pair
the code writes out four times. The mask is the set of the positions of its set
bits. The request window differs only in having no `initialized` flag, which is
the same as a window initialized from the outset at 0 with an empty mask.
**`ReplayGuard`** is one window deciding about numbers in any order.

**`OscoreContext`** extends the two: objects with all four windows, the
recipient record, and the application that saves it. `Requests` and `Responses`
are what peers have sent; every message can arrive at any time, any number of
times. `pending` is the `PendingResponse` that borrows an object, between
`BeginUnprotectResponse` and `Commit` or `DropPending`. Messages that are not
genuine, are malformed or do not fit fail before anything changes; those calls
are stuttering steps. The application is modelled as the documentation of
`RecipientReplayState` has it: it saves the snapshot, and acts on what it
accepted only when the save succeeded. `OpenIn` says whether it opens messages
with any object, as the code lets it, or only with activated ones.
**`MCOscoreContext`** gives it small instances.

**`OscoreExchange`** composes two ends (or several pairs) over a network that
never forgets, and to which anyone may add messages (`Forged`). A message is a
term: key, nonce, additional data, and the option sent in clear; `Opens` is
AES-CCM. Three modules carry what is abstracted here. The sender number of an
end is the one counter `next_sequence`, which by `ImplementsOneShot` is what
reservation over the durable record amounts to; a number may be lost
(`LoseReservation`). Windows are those of `ReplayWindow`. That distinct terms
are distinct bytes is `NoncesApart` and `ContextsApart`, both proved. `in_hand` is what the
application has from the context and has not acted on; `SaveAndAct` saves the
record and acts in one transaction, while `OscoreContext` has the two apart.
`Restart` loses the object and what was in hand and restores both records. The
client may pair any response with any of its requests, because the CoAP token it
goes by is not authenticated. `ProtectResponse` takes its number from a
reservation (`ReservedSender::protect_response_with_piv`); the variant that
takes it from memory is refuted on its own (`sender_persisted`).

**`RequestResponse`** is what two ends promise their applications: a request is
acted on if it was made, and once; an answer is taken if the peer gave it to
that very request, and once. It has no keys, numbers on the wire, windows or
crashes. `ImplementsRequestResponse` is the claim that `OscoreExchange`
implements it: the requests made are those in the messages sent.
**`MCOscoreExchange`** has the instance.

**`OscoreSizes`** has the lengths of a message against the buffers it is built
and opened in, and the two preflight checks; **`MCOscoreSizes`** walks over the
lengths.

**`EdhocIdentifiers`** is the wire form of connection identifiers, byte by byte:
`encode_identifier`, `parse_identifier`, and the second, narrower parser that
`process_message_1` has inside it. **`EdhocCredential`** extends it with the
other parsers that read what a peer sends: ID_CRED in its spellings, with
whatever parameters a map has beside the reference, and suite lists. A head (`CborHead`) is
read in one place, where the source repeats the case distinction in each
function. `skip_cbor_value`, recursive in the source, counts here the items it
still has to skip: an array is behind its head when its members are. The loops
over the members of an array, of a map and of a list of suites are functions of
the number of turns. `Reading`, `AlgState`, `MapState` and `SuiteState` are the
values a parser may have in hand, and `UnreadableAssumption` says that a refusal
is none of them. **`EdhocSizes`** has the lengths of everything a handshake builds
against the fixed buffers of the source, each a conjunct of the message it
belongs to.

**`PartialIV`**, **`OscoreOption`**, **`InnerBody`** and **`OscoreBindings`** are
the OSCORE codecs, byte by byte. `Base` is the number of values of a byte, 256
in the code, so that a small instance covers every five-digit number. The early
returns of `parse_option` are the conjuncts of `WellFormed`. `InnerBody` has both
functions that look for a payload marker, as functions of a `Cursor`, the position
and the option number reached; `checked` says whether the build has
overflow checks, which makes the 16-bit addition of `find_payload_marker` panic
or wrap. `OscoreBindings` has what ties a message to its sender, number, request
and keys: nonce, additional data, derivation inputs, context identifier.
`XorBytes` is bit by bit, so that it can be reasoned about; `MCCodecs` compares it
with the operator of the community modules.

**`Codecs`** has the inputs of all codecs and what must hold of each: byte strings,
padded ones where a length needs it (`Pad`), CoAP options as RFC 7252 encodes them
(`AddOption`, what an application hands to the code), parameters of an ID_CRED and
elements of a list of suites. `InputAssumption` is what the code's types grant of
inputs: an ID no longer than a nonce has room for, a context and a salt that fit
their buffers, a Common IV of 13 bytes. It also says what a parameter is
(`EncodesParameter`): a key and a value that are one item each, the key an integer
if its label is one, and `good` if and only if the code takes that value as a map's
only one. **`MCCodecs`** has the short inputs; its parameters are marked good or not
by hand, and TLC compares the marks with the code's verdict when it evaluates the
assumption.

**`EdhocTerms`** is what both roles compute. A hash, a key, a MAC or a signature
is the record of its inputs, so two are equal only if all inputs are; a
ciphertext is its plaintext beside the key that opens it. The context strings
keep the fields the code puts into them: a field left out of a MAC would be a
field left out of the record. Every object draws one ephemeral key when it is
made, hence an object's name is also the name of its key. A credential stands
for its signing key; the reference that names it on the wire is the head of a
hash, and two credentials may share one.

**`EdhocInitiator`** and **`EdhocResponder`** are the two roles: the fields of
`InitiatorState` and `ResponderState`, and the pending message an application
holds, which the code detaches from its object. One action is one call. Calls
that are refused without a change (wrong lifecycle, a message whose outer frame
does not parse) are stuttering steps, as is a message 1 refused for its C_I after
`g_x` was stored, which nothing reads before the next message 1 overwrites it;
calls that poison are not. `msg1` and the
copies of PRK_2e under other names are folded together where they are equal
throughout. The two `process_message_*` shorthands are their `begin` and
`finish` in sequence.

**`EdhocExchange`** composes several of both. `sent` keeps every message for
ever, which gives loss, repetition, delay and reordering; `Faults` says which
fields the network damages. Applications call `finish` with any credential and
with any pending message any object ever made, and wipe objects at will. Nothing
retransmits by itself, as in the code. An application may also drop a pending
message without finishing it, as `process_message_*_with_credential` does with
one that meets a credential of another reference. `exchanged`, `agreed` and
`disturbed` are history: `disturbed` marks a session that was handed a damaged
or foreign message, a credential other than its peer's, or a pending message out
of turn. A ciphertext opened with another key gives bytes that are taken not to
parse.

**`KeyAgreement`** is what the exchange promises: an initiator takes a responder
no other initiator has taken, a responder takes only the initiator that took it,
nobody takes twice, and who has given up takes nobody. `AgreesOnKeys` is the
claim that `EdhocExchange` implements it. **`MCEdhocExchange`** has the
instances.

The modules named `*_proofs` extend the module whose theorems they prove.

Definitions named as variants of another ("Mutant of ...") are faulty versions,
used to check that each property can fail.

## Runs

| Run | Instance | Shows |
|---|---|---|
| `replay_guard` | 3-bit mask, numbers 0-8 | `AcceptedOnce`, `RefusedOnlyIfOld` |
| `sender_reserved` | 3 owners, numbers 0-3, `ReservedSpec` | `NonceUnique`, `PersistedBeforeTransmit`, `ReservationExclusive`, `ConflictMeansBehind`, `DurableNeverRegresses`, `ImplementsOneShot` |
| `context_replay` | 1 owner, 2-bit mask, 2 requests, 3 responses, activated objects | `ActedOnce`, `OneOrdinaryResponse`, `WindowsNotMixed`, `ActedIsDurable`, `NoPivNonceUnique` |
| `oscore_exchange` | 2 ends, 3 requests, numbers 0-1, 2-bit mask, 1 restart, forged requests | `NonceNeverReused`, `ImplementsRequestResponse`, `EveryRequestAnswered` |
| `edhoc_exchange` | 2 initiators, 2 responders, 4 credentials, all faults | `ResponderAgreement`, `InitiatorAgreement`, `ExportsApart`, `EphemeralOnce`, `OnlyDisturbedFail`, `AgreesOnKeys`, `AnsweredComplete` |
| `codecs` | inputs of up to 6 bytes (`Longest`), longer ones by padding, up to 3 parameters or suites; `Base = 4` | `IdentifierRoundTrip`, `IdentifierParsersAgree`, `PivRoundTrip`, `OptionRoundTrip`, `NoncesApart`, `ContextsApart`, `BodySplit`, `BodyParsersAgree`, `IdCredCanonical`, `IdCredUnderstood`, `SuitesRead`, `RawKeysFit` |
| `sender_persisted` | 2 owners, `Spec` | a violation of `PersistedBeforeTransmit` |
| `context_peers` | 2 owners of 2 peers, activated objects | a violation of `ActedOnce` |
| `edhoc_negative_c_r` | 1 initiator, 1 responder with C_R = `0x21` | a violation of `OnlyDisturbedFail` |
| `body_overflow` | up to 2 CoAP options | a violation of `OverflowRefused` |
| `first_suite` | lists of up to 3 suites, integers of every width | a violation of `FirstSuiteSelected` |
| `oscore_sizes` | options and payloads of up to 130 bytes | a violation of `PreflightSettlesSize` |

Every run but the last six also checks its module's type invariant, the codecs
excepted, which have no state.

*Bounds.* `MAX = 3` lets numbers run out within a behaviour, so the terminal
number and exhaustion happen with every interleaving before them; nothing in
the code depends on a number's size but its distance from `MAX`. Three owners
are a holder of a reservation, its competitor, and a third that restores what
the two left. A mask of 3 bits has a first bit, an inner one and a last one, and
numbers up to 8 shift by less than, exactly and more than its width, twice over;
2 bits suffice in `OscoreContext`, whose question is which window moves. There
`MAX = 0` keeps the sender side to one reservation. A single owner in
`context_replay` is one process over time, with its crashes and restores.
`replay_guard` disables the deadlock check because a window may end up refusing
all numbers of the instance. One request is answered there (`Answerable`): what
`NoPivNonceUnique` says is proved for any number of owners and requests. The window
of requests answered without a Partial IV is its subject; `WindowsNotMixed` speaks
of the three windows for what is received.

In `oscore_exchange` one end asks twice and the other once, so that numbers run
out at one end and not at the other, and an end that asks also answers. `MAX = 1`
is below the window's width of 2: no number is ever overtaken by newer ones, which
liveness needs (a request pushed off the window is refused for good), and the
safety properties do not: they are proved for every width and `MAX`. One restart
at either end falls between any two steps. The forged requests have genuine
numbers and KIDs and no end's key. The run disables the deadlock check because
numbers run out. `EveryRequestAnswered` allows for that case by `CannotAnswer`.

Two sessions of each role are what mixing them up takes: a message, a pending
message or a credential of one given to the other of its kind. The identifiers
are 5 and 200 against 24 and 5: a compact one, ones that need a byte string, and
one that an initiator and a responder share, which the code must refuse. `twin`
and `server` share a reference, and so do the initiators' credentials. The EDHOC
runs disable the deadlock check because sessions end: a wiped object answers
nothing.

`Alphabet` holds the bytes on both sides of each boundary of a codec: the CBOR
heads (23/24, 32, 55/56, 64, 65, 88), where every value also occurs as a first
byte, and the heads of ID_CRED maps; the length 8 of a KID context against 9;
the CoAP nibbles 12 to 15 and the bytes that make the option numbers 65535 and
65536. `Base = 4` gives 1024 numbers of up to five digits and six-digit strings
that `from_piv` must refuse; 256^5 exceeds the integers of TLC. `Parameters` are
the members of an ID_CRED map of each kind, well formed and not, some with bytes
inside that look like a kid, and two with which maps are 64 and 65 bytes long, on both
sides of `ID_CRED_MAX_LEN`; that there are at most 8 of them is only proved. `Suites` have integers of every width, some with a
suite's number as an inner byte, in every order up to three. `RawKeysFit` has identifiers of one and of more
bytes against both signature lengths. `oscore_sizes` goes past both limits of
128. The codec runs disable the deadlock check because the walks stop at their
bounds.

*Fairness.* The library has no thread, timer or queue and takes no step by
itself. So what fairness there is describes its callers and the network, and the
liveness properties say that the code then does its part: no refused call, forged
message, failed acknowledgement or restart leaves it where it cannot go on.
`AnsweredComplete` assumes weak fairness of each session's own next call
(`InitiatorProgress`, `ResponderProgress`): create message 1, begin with an answer
that keeps being delivered, finish what is pending with the peer's credential.
`EveryRequestAnswered` assumes that requests and responses are delivered again
until they are taken, that applications save and act, and answer what they have
acted on and not answered (weak fairness), and that an acknowledgement which is
tried again and again succeeds at some time (strong fairness of `Commit`: a
dropped `PendingResponse` disables it in between). Nothing is assumed of losses,
drops, restarts or of making requests.

## Disagreements found

* `protect_response` with `include_piv = true` (line 1132) takes its number from
  memory. The documentation of `SenderSequenceState` (line 168) says the state
  "must be persisted before transmitting a message". `sender_persisted` shows a
  number in use that the record does not know; the next restore deals it again.
  `UnrestoredIsSafe` proves that reuse always needs a restore.
* After that call the object is ahead of its record, and each `reserve_sender`
  on it answers `Conflict`, documented (line 266) as "Another context owner
  advanced the durable state first", though no other owner is involved.
  `ConflictMeansBehind` therefore holds, and is checked and proved, only without
  `include_piv`.
* The recipient record is keyed by the `ContextId`, which leaves out the
  recipient (line 1857). Two peers under one sender ID, a case the test at line
  2707 intends for the sender record, overwrite each other's windows.
  `context_peers` shows a request acted on twice although it was saved before it
  was acted on (lines 177-179).
* An identifier of one byte from `0x20` to `0x37` is sent as it is, read by
  `parse_identifier` as another byte (`cbor.rs` 106), and refused outright by the
  parser in `process_message_1` (`responder.rs` 266). `edhoc_negative_c_r` shows
  a handshake nothing disturbed that fails on it.
* `find_payload_marker` adds the two bytes of a delta to 269 in 16 bits (line
  2180). The bytes `e0 fe f3` make 65536: a build with overflow checks panics,
  one without takes the option number for 0 and accepts it.
  `parse_inner_body` refuses the same bytes, and the test at line 3331 wants an
  overflow refused here too, but reaches it by two options. `body_overflow` shows
  it with one.
* `parse_suites_i` takes "the FIRST element" of a list for "the selected suite"
  (`cbor.rs` 169, again at 274, and `tests.rs` 623), but leaves `selected` empty
  after a negative or wide integer and goes on to the next element (line 275).
  `first_suite` shows suite 0 selected from the list of -1 and 0 (`82 20 00`). The
  passing `SuitesRead` leaves open which suite is selected from lists that begin
  so and go on with a suite; of every other list it says which, and that a
  list without a suite is refused.
* `preflight_protect_request` "check[s] that request protection can fit all bounded
  outputs before reserving a PIV" (line 758). `oscore_sizes` shows 128 bytes of
  options with 127 of payload, which pass, and whose 257 bytes of plaintext the
  256-byte buffer of every receiver (lines 1026, 1411) refuses.

Seen in the source, with no run of its own:

* `validate_peer_credential` returns `Ok` for every credential whose first byte is
  not `0xa3` (`credential.rs` 698), so for a COSE key inside a CCS with claims or
  tagged as a CWT, and leaves them to the application (699-701); the documentation
  of `PeerCredential` (`credential.rs` 14) says "CCS and CWT COSE keys are checked
  against `public_key`". The check is not modelled.
* `process_message_2_with_credential` drops the pending message when the
  credential has another reference, which leaves its object waiting for it
  (`initiator.rs` 262). `AnsweredComplete` lists this as one of the ways to stop a
  session.
* `parse_identifier` takes the two-byte head `58 01` for a string that the one-byte
  head would do for (`cbor.rs` 127), although it refuses `41 xx` where `xx` alone
  would do.
* `parse_suites_r` takes one byte for each element: an error message that lists a
  suite above 23 (`02 82 18 18 02`) is `InvalidMessage` and not `UnsupportedSuite`
  (`initiator.rs` 273).
* In ID_CRED the duplicate check compares only integers in their shortest form:
  `18 04` is skipped as an unknown label beside `04`. The same holds for the members
  of an `alg` array. `IdCred` says "exact canonical map encoding" (`types.rs` 48) of
  maps that are kept as they were sent, sorted or not, and whose x5t may have a
  longer head than needed.
* A peer credential above some 66 bytes fails every handshake: the signature
  structure holds 160 bytes and a MAC's context 128 (`transcript.rs` 89). Raw keys
  fit (`RawKeysFit`); certificates by value would not.

## Proofs

All proofs are for arbitrary `Owners`, `Endpoints`, `MAX`, `WINDOW_SIZE`,
`RESTARTS`, EDHOC sessions with their credentials and identifiers, and sets of
messages. They assume what the modules' `ASSUME`s say: `MAX` is a natural number,
`WINDOW_SIZE` a positive one, absent values differ from present ones, ends are
paired with another end, no forged message has an end's key, a refusal is no
value that can be read, and inputs of codecs are such as the code's types admit.
The theorems of `EdhocExchange_proofs` state two assumptions of their own, below.

* `ReplayWindow_proofs`: a marked number is refused, and whatever was refused
  before a mark still is (`MarkRefuses`, `MarkKeeps`).
* `ReplayGuard_proofs`: `NeverAcceptedTwice` and `RefusesNoMore`. Each accepted
  number is refused from then on; that is inductive with the converse,
  that each set bit stands for an accepted number, which is what the second
  theorem needs.
* `SenderSequence_proofs`: for the whole interface, `TypeCorrect`,
  `NoSharedReservation` and `NoRegression`; for applications that reserve,
  `ReservedIsSafe` (`NonceUnique`, `PersistedBeforeTransmit`,
  `ReservationExclusive`), `ConflictIsHonest` and
  `ReservationImplementsOneShot`; for those that never restore,
  `UnrestoredIsSafe`.

The argument of the last module: a successful exchange finds the record exactly
where the object stands and leaves it one position further. So the number it
deals is the durable position itself. Every number used or reserved lies below
that position (`ReservationsBehind`, `UsedBehind`), hence the number is new.
`NonceUnique` is not inductive without this, nor without `StatesValid`, which
says that `exhausted` is set only at `MAX`; without it two states could share a
position and the exchange would not identify one. `NeverAhead` says that no
object passes the record, which `ConflictIsHonest` needs and
`protect_response` with its own PIV breaks. `UnrestoredInv` replaces the store
by the memory of the only active object.

* `EdhocIdentifiers_proofs`: `RoundTripAlways`, for identifiers of every length
  up to seven bytes and whatever follows them, and `ResponderNeverMisreads`. The
  argument is by the first byte: the four kinds of first byte exclude each other
  (`FirstBytes`), and the first byte of a string is none of the others
  (`HeadByte`).

* `OscoreContext_proofs`: `ContextTyped` and `NoPivNoncesUnique`, for any number of
  owners, whether they open messages before activation or not. Once the record
  exists, `register_fresh` fails, and a restore takes the permission to answer
  without a PIV away; so one object at most ever has it (`Dealing`). Its own window
  refuses every number it answered (`MarkRefuses`), and `Mark` never lets one in
  again (`MarkKeeps`). `ContextIsNext` shows that the calls of the context do to
  the sender state what `SenderSequence` says, which gives its invariant here.
  Of the same context, `ActsOnce`, `AnsweredOnce` and
  `ActedIsInRecord`, for one owner of the recipient record (`OneOwner`) that opens
  messages with activated objects only (`OpensActivated`). The run `context_peers`
  shows what happens without the first. The second is needed because an object that
  opens a message before `restore_existing` has not loaded the record yet. The
  record and every object restored from it refuse what was acted on
  (`RecordRefuses`), an object what it has in hand (`HandRefused`), and neither can
  change between the authentication of a response and its commit
  (`PendingPasses`). `WindowsStayApart` needs none of this: for any owners, the
  highest number of a window is one it was given (`FromAccepted`).
* `OscoreExchange_proofs`: `TypeCorrect`, `NoncesUnique` and `KeepsPromise`, from the
  invariant `IInv`. For nonces: a nonce with the sender's own ID has a number below
  its counter, one with the other ID has a number its `response` window refuses,
  as long as the end may answer without a PIV at all (`NoncesBehind`). For the
  promise: what an end has in hand was sent and not acted on (`HandSound`), the
  windows refuse what is in hand or acted on (`WindowsRefuse`), the record what was
  acted on (`StoreRefuses`), and a pending response is an answer to the request it
  is bound to that the windows still let in (`PendingSound`): nothing can move them
  while it borrows the context. The two messages a pair of ends can confuse, an
  answer with its request's nonce and one with its own, are told apart by the
  nonce, and answers to two requests by their additional data (`ResponsesDiffer`).
  None of the conjuncts is inductive alone: a restart turns what the record refuses
  into what the windows refuse, and `SaveAndAct` the reverse.
* `EdhocExchange_proofs`: every property of the handshakes but their liveness, for
  any number of sessions and any damage. `ExchangeInductive` has the invariant;
  from it follow `EphemeralOnceHolds`, `InitiatorAgreementHolds`,
  `ResponderAgreementHolds`, `ExportsApartHolds`, `ExchangeTypeHolds`, and
  `AgreesOnKeysHolds`, the refinement of `KeyAgreement`; `OnlyDisturbedFailHolds`
  needs a second invariant.

The argument of the last module: `InitiatorOk` and `ResponderOk` say what a session
holds in each lifecycle, and in which it still has its ephemeral key. A responder
loses the key with its one message 2, so it answers one message 1, and that message
is the one all its later terms are made of (`Sent2Sound`). A message 3 is made by an
initiator that has completed (`Sent3Sound`). What an initiator opens may be damaged,
and the pending message it is given may be an old one (`Opened2Ok`); the signature
settles both: it verifies only if signer and verifier have the same key, TH_2,
reference, credential and spelling of C_R (`Verified2Says`, from `Signed2Apart`).
The identifiers are signed and hashed as bytes and used as parsed, so the two sides
agree on them because distinct identifiers have distinct encodings (`EncodeApart`)
and the responder's parser never misreads one (`ResponderNeverMisreads`). That gives
`InitiatorAgreed`, and the same for message 3 `ResponderAgreed`, which is inductive
only beside it. The plaintext an initiator read may still be spelled otherwise than
the one sent, and then its TH_3 differs and the responder never completes; this is
why the initiator's half does not say that the responder has the same keys.

All these theorems assume `AtomsAreNoTerms`: the model values for an absent field
and for damaged bytes are none of the records that stand for hashes, keys and
signatures. `OnlyDisturbedFailHolds` also assumes `IdsReadBack`, that no connection
identifier is a byte CBOR reads as a negative integer; without it the statement is
false, which is what `edhoc_negative_c_r` shows. Its invariant `CalmInv` says that
an undisturbed session has pending what its peer sent, hence what verifies.

* `Codecs_proofs`: all properties of the codecs, for byte strings of every length: `PivsAlwaysRoundTrip`, `OptionsAlwaysRoundTrip`, `NoncesAlwaysApart`,
  `ContextsAlwaysApart`, `BodiesAlwaysSplit`, `BodyParsersAlwaysAgree`,
  `IdentifiersRoundTrip`, `IdentifierParsersAlwaysAgree`, `RawKeysAlwaysFit`,
  `IdCredsAlwaysCanonical`, `IdCredsAlwaysUnderstood` and `SuitesAlwaysRead`, the
  last with the exception `SuitesRead` makes.

The codecs have no state but their input, so the invariants are about inputs.
`Inputs` says what they are; it suffices where a property speaks of any byte
string. Where it speaks of what was put together from parts, the invariant is what
the parser makes of the parts so far, *whatever follows them*: `OptionsRead` for CoAP
options, `SuiteInputs` for suites, `ParameterInputs` for the parameters of an ID_CRED.
Without "whatever follows" none is inductive, since the next step appends to the input. The rest is lemmas on the operators.

Encodings are told apart from the left: a head says which kind of item follows and
how long it is, and parts of known length can be cancelled (`Cancel`). For a nonce this
is not enough, as it is xored with the Common IV, which cancels by `XorBytesCancel`.
Parsers are *local* (the lemmas `...Local`): one that reads k bytes reads the same
from every string that begins with them. `IdCredsAlwaysCanonical` needs this of
every parser below `parse_id_cred`, up to `NoIntLocal`, which says that a key that is
no integer does not become one by what follows it. `Advances` and `LoopLocal` are the
same for the loops: they read forward, so a loop that ended at an offset has used
nothing behind it.

`IdCredsAlwaysUnderstood` needs the converse too: what a parser makes of bytes is
decided by the item they begin with. The lemmas `...Whole` say so of each reader of a
value: given one whole item it takes the item and nothing less, or refuses it, and
does the same with that item at the front of any longer string. For the array of
an alg parameter this is an invariant of its loop (`ReadAlike`): after each member the
others are still to be skipped, so that the last ends where `skip_cbor_value` ends
the array (`SkipMany`). From these comes `ValueAlone`: a value is taken in a map, in
any state of the loop and whatever follows, if and only if it is taken alone. So a map
is refused only for a repeated label, for a value on its own account, for its size, or
for having no reference or two, and no reference is read out of the middle of
another value. `good` is the code's verdict on one value, not a grammar: which single
values the code takes is shown by the values of `MCCodecs`, and for every value the
theorem says that the verdict does not depend on where the value stands.

No induction theorem of the library is used for predicates. Inductions are over sets of
numbers (`Least`: a nonempty set of counterexamples has a least one), as in
`CursorInduction` and `SkipInduction`. That a recursive function exists at all is
`Recursion`: it calls itself on arguments of lower rank, so it can be put together
from its approximations up to each rank. For `skip_cbor_value` the rank is the number
of bytes behind the offset, since every item has a head.

The proofs changed the model in two places. `HeadOf` had a `CASE` whose conditions
overlapped on inputs that are cut, which TLA+ leaves undefined and TLC resolves by
order. And several parsers returned a refusal that nothing said was different from what
they return otherwise (`FailureAssumption`, `OptionAssumption`,
`UnreadableAssumption`); in Rust the types say so.

Only model-checked are the two liveness properties, `EveryRequestAnswered` and
`AnsweredComplete`, which are out of the prover's reach. All other properties of the
passing runs are theorems.

## Not modelled

The primitives, beyond what a genuine message and an injective hash mean. The
wording of errors. `Debug` and `Drop` implementations, the wiping of memory, the
constructors and helpers that exist for tests only (`lib.rs` 556-652,
`validate_deterministic_item`, `copy_id_cred_value`). The comparison of a bare COSE
key with the public key it comes with (`validate_peer_credential`): a credential of
the models comes with its own key. The files that are not
compiled, a third of the crate's lines. Two threads are no part of any model:
every call that changes an object takes it by `&mut` or by value.
