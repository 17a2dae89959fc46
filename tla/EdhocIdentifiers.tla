--------------------------- MODULE EdhocIdentifiers ---------------------------
(***************************************************************************)
(* Connection identifiers on the wire (src/edhoc/cbor.rs, and the parser   *)
(* of C_I inside src/edhoc/responder.rs).  An identifier is a short byte   *)
(* string; one byte that happens to be a one-byte CBOR integer is sent as  *)
(* that byte, everything else as a CBOR byte string.                       *)
(***************************************************************************)
EXTENDS Integers, Sequences

CONSTANT Unreadable    \* what a parser returns in place of an identifier

Byte == 0..255

CONNECTION_ID_CAPACITY == 7

ConnectionIds == {id \in Seq(Byte) : Len(id) <= CONNECTION_ID_CAPACITY}

\* Bytes that are a CBOR integer by themselves: 0..23, and -24..-1.
UnsignedInts == 0..23
NegativeInts == 32..55

\* Encoding of a byte string of at most 23 bytes.
encode_bstr(data) == <<64 + Len(data)>> \o data

\* Mutant of encode_identifier: 24 is sent as a compact integer, too.
EncodeWide(id) ==
  IF Len(id) = 1 /\ id[1] \in 0..24 \cup NegativeInts THEN id ELSE encode_bstr(id)

encode_identifier(id) ==
  IF Len(id) = 1 /\ id[1] \in UnsignedInts \cup NegativeInts
  THEN id
  ELSE encode_bstr(id)

\* The byte string of length len that starts after the first `header` bytes.
StringAt(data, header, len) ==
  IF Len(data) >= header + len /\ len <= CONNECTION_ID_CAPACITY
  THEN [id |-> SubSeq(data, header + 1, header + len), consumed |-> header + len]
  ELSE Unreadable

\* A negative integer -n comes back as the byte 256 - n, not as the byte read.
parse_identifier(data) ==
  IF data = <<>> THEN Unreadable
  ELSE LET first == data[1] IN
    CASE first \in UnsignedInts -> [id |-> <<first>>, consumed |-> 1]
      [] first \in NegativeInts ->
           [id |-> <<256 - (first - 32 + 1)>>, consumed |-> 1]
      [] first \in 64..87 /\ ~(first = 65 /\ Len(data) >= 2 /\ data[2] <= 23) ->
           StringAt(data, 1, first - 64)
      [] first = 88 /\ Len(data) >= 2 -> StringAt(data, 2, data[2])
      [] OTHER -> Unreadable

\* Mutant of parse_c_i: reads integers up to 0x18, and negative ones, as such.
ParseAnyInt(rest) ==
  CASE Len(rest) = 1 /\ rest[1] \in 0..24 \cup NegativeInts -> rest
    [] Len(rest) = 2 /\ rest[1] \in {65, 88} -> <<rest[2]>>
    [] OTHER -> Unreadable

\* The responder reads C_I with a parser of its own, which knows identifiers
\* of one byte only and takes nothing after them.
parse_c_i(rest) ==
  CASE Len(rest) = 1 /\ rest[1] \in UnsignedInts -> rest
    [] Len(rest) = 2 /\ rest[1] = 65 -> <<rest[2]>>
    [] OTHER -> Unreadable

=============================================================================
