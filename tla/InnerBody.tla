------------------------------ MODULE InnerBody ------------------------------
(***************************************************************************)
(* The body of a plaintext (src/lib.rs): CoAP options, and after a marker  *)
(* the payload.  Two functions look for the marker.  parse_inner_body      *)
(* checks what a response is made of; find_payload_marker takes apart what *)
(* was decrypted.  The bytes of option values are never looked at.         *)
(***************************************************************************)
EXTENDS Integers, Sequences

CONSTANTS
  Malformed,    \* InvalidParam
  Panicked      \* the end of a build with overflow checks

\* A failure is no position in a body, and not a body taken apart.
ASSUME FailureAssumption ==
  /\ Malformed # Panicked
  /\ \A failure \in {Malformed, Panicked} :
       failure \notin Nat /\ failure \notin [options : Seq(Nat), payload : Seq(Nat)]
         /\ failure \notin [value : Nat, next : Nat]

MARKER == 255
U16 == 65536

Body(options, payload) ==
  IF payload = <<>> THEN options ELSE options \o <<MARKER>> \o payload

\* Mutant of SplitAt: the payload begins with the marker.
SplitKeeping(data, marker) ==
  IF marker = Len(data) THEN Malformed
  ELSE [options |-> SubSeq(data, 1, marker - 1),
        payload |-> SubSeq(data, marker, Len(data))]

\* Cut at the marker; a marker with nothing behind it is malformed.
SplitAt(data, marker) ==
  IF marker = Len(data) THEN Malformed
  ELSE [options |-> SubSeq(data, 1, marker - 1),
        payload |-> SubSeq(data, marker + 1, Len(data))]

\* Mutant of decode_nibble: the two-byte form counts from 268.
DecodeShort(data, pos, nibble) ==
  CASE nibble <= 12 -> [value |-> nibble, next |-> pos]
    [] nibble = 13 /\ pos <= Len(data) -> [value |-> 13 + data[pos], next |-> pos + 1]
    [] nibble = 14 /\ pos + 1 <= Len(data) ->
         [value |-> 268 + 256 * data[pos] + data[pos + 1], next |-> pos + 2]
    [] OTHER -> Malformed

\* A delta or a length: a nibble, or the bytes at pos that extend it.
decode_nibble(data, pos, nibble) ==
  CASE nibble <= 12 -> [value |-> nibble, next |-> pos]
    [] nibble = 13 /\ pos <= Len(data) -> [value |-> 13 + data[pos], next |-> pos + 1]
    [] nibble = 14 /\ pos + 1 <= Len(data) ->
         [value |-> 269 + 256 * data[pos] + data[pos + 1], next |-> pos + 2]
    [] OTHER -> Malformed

\* Delta of the option at pos, and where the delta ends.
DeltaAt(data, pos) == decode_nibble(data, pos + 1, data[pos] \div 16)

\* Where the option at pos ends, its delta ending at `after`.
OptionEnd(data, pos, after) ==
  LET length == decode_nibble(data, after, data[pos] % 16)
  IN IF length = Malformed \/ length.next + length.value > Len(data) + 1
     THEN Malformed
     ELSE length.next + length.value

\* What the loops carry along: where the next option begins, and the number of
\* the last one.
Cursor == [pos : Nat \ {0}, number : Nat]
Start == [pos |-> 1, number |-> 0]

\* The cursor behind the option at `at`, its delta counted as `number`.
Behind(data, at, delta, number) ==
  [pos |-> OptionEnd(data, at.pos, delta.next), number |-> at.number + number]

parse_inner_body(data) ==
  LET scan[at \in Cursor] ==
        IF at.pos > Len(data) THEN [options |-> data, payload |-> <<>>]
        ELSE IF data[at.pos] = MARKER THEN SplitAt(data, at.pos)
        ELSE LET delta == DeltaAt(data, at.pos) IN
          IF \/ delta = Malformed \/ at.number + delta.value >= U16
             \/ OptionEnd(data, at.pos, delta.next) = Malformed
          THEN Malformed
          ELSE scan[Behind(data, at, delta, delta.value)]
  IN scan[Start]

\* Mutant of find_payload_marker: any 0xff is the marker.
FindAnywhere(data, checked) ==
  IF \E pos \in DOMAIN data : data[pos] = MARKER
  THEN CHOOSE pos \in DOMAIN data :
         data[pos] = MARKER /\ \A k \in 1..(pos - 1) : data[k] # MARKER
  ELSE 0

\* The place of the marker, or 0.  A two-byte delta is added up in 16 bits: a
\* build with overflow checks stops there, one without goes on with the rest.
find_payload_marker(data, checked) ==
  LET scan[at \in Cursor] ==
        IF at.pos > Len(data) THEN 0
        ELSE IF data[at.pos] = MARKER THEN at.pos
        ELSE LET delta == DeltaAt(data, at.pos) IN
          IF data[at.pos] % 16 = 15 \/ delta = Malformed THEN Malformed
          ELSE IF delta.value >= U16 /\ checked THEN Panicked
          ELSE IF \/ at.number + (delta.value % U16) >= U16
                  \/ OptionEnd(data, at.pos, delta.next) = Malformed
          THEN Malformed
          ELSE scan[Behind(data, at, delta, delta.value % U16)]
  IN scan[Start]

\* What unprotect_request and begin_unprotect_response make of a plaintext.
take_apart(data, checked) ==
  LET marker == find_payload_marker(data, checked)
  IN CASE marker \in {Malformed, Panicked} -> marker
       [] marker = 0 -> [options |-> data, payload |-> <<>>]
       [] OTHER -> SplitAt(data, marker)

\* preflight_protect_response: nothing but options.
OnlyOptions(data) == parse_inner_body(data) = [options |-> data, payload |-> <<>>]

=============================================================================
