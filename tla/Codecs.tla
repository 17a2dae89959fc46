-------------------------------- MODULE Codecs --------------------------------
(***************************************************************************)
(* The codecs and their inputs.  A state is an input of one codec: a byte  *)
(* string, and another that follows it or is compared with it.             *)
(***************************************************************************)
EXTENDS EdhocCredential, EdhocSizes, InnerBody, OscoreBindings

CONSTANTS
  Codecs,      \* those of a run
  Heads,       \* for each codec the bytes an input may begin with ...
  Alphabet,    \* ... and go on with
  Longest,     \* how many it may have; a padded one takes a byte more
  Pivs,        \* Partial IVs,
  Contexts,    \* ID contexts,
  Salts,       \* master salts
  CommonIv,    \* and the Common IV of contexts
  Deltas,      \* of CoAP options,
  Lengths,     \* and lengths of their values
  Parameters,  \* parameters of an ID_CRED
  Suites       \* elements of a list of cipher suites

SALT_MAX_LEN == 8

Wide == -1    \* in place of a suite no byte holds

\* CBOR integers, as a list of suites may hold them: of one byte, a byte after
\* the head, or negative or wider.
EncodesSuite(bytes, suite) ==
  /\ bytes \in Seq(Byte)
  /\ \/ bytes = <<suite>> /\ suite < 24
     \/ bytes = <<24, suite>>
     \/ /\ suite = Wide
        /\ \/ Len(bytes) = 1 /\ bytes[1] \in 32..55
           \/ Len(bytes) = 2 /\ bytes[1] = 56
           \/ Len(bytes) = 3 /\ bytes[1] \in {25, 57}
           \/ Len(bytes) = 5 /\ bytes[1] \in {26, 58}
           \/ Len(bytes) = 9 /\ bytes[1] \in {27, 59}

TextLabel == 70000    \* no integer label, and it may come twice

\* A parameter of an ID_CRED: a key, which is an integer if its label is one, and
\* a value, a whole item, that the code takes or refuses when it is alone.
EncodesParameter(p) ==
  /\ \A item \in {p.key, p.value} :
       item \in Seq(Byte) \ {<<>>} /\ skip_cbor_value(item) = Len(item)
  /\ p.label \in Int
  /\ try_parse_cbor_int(p.key) =
       IF p.label = TextLabel THEN Unreadable
       ELSE [value |-> p.label, consumed |-> Len(p.key)]
  /\ p.good = (IdCredValue(p.value, NothingRead, p.label) # Unreadable)

\* What a context takes, and what two extension bytes can say; inputs made of
\* options, parameters or suites do not grow by bytes.
ASSUME InputAssumption ==
  /\ DOMAIN Alphabet \cap {"options", "parameters", "suites"} = {}
  /\ Heads["piv"] \cup Alphabet["piv"] \subseteq 0..(Base - 1)
  /\ Longest["identifier"] \in 0..CONNECTION_ID_CAPACITY
  /\ Longest["names"] \in 0..NONCE_ID_LEN
  /\ \A piv \in Pivs : piv \in Seq(Byte) /\ CanonicalPiv(piv)
  /\ \A context \in Contexts \ {Absent} :
       context \in Seq(Byte) /\ Len(context) <= ID_CONTEXT_CAPACITY
  /\ \A salt \in Salts : salt \in Seq(Byte) /\ Len(salt) <= SALT_MAX_LEN
  /\ CommonIv \in [1..NONCE_LEN -> Byte]
  /\ Deltas \cup Lengths \subseteq 0..(269 + U16 - 1)
  /\ \A s \in Suites : EncodesSuite(s.bytes, s.suite)
  /\ Longest["suites"] \in 0..23
  /\ \A p \in Parameters : EncodesParameter(p)
  /\ Longest["parameters"] \in 0..23

VARIABLES codec, first, second

vars == <<codec, first, second>>

Init == codec \in Codecs /\ first = <<>> /\ second = <<>>

\* Nothing is appended to a complete credential reference.
Accepted(data) == parse_id_cred(data) # Unreadable

Extend(b) ==
  /\ codec \in DOMAIN Alphabet /\ second = <<>>
  /\ Len(first) < Longest[codec] \/ Len(first) \in {15, 272}
  /\ codec = "id_cred" => ~Accepted(first)
  /\ b \in IF first = <<>> THEN Heads[codec] ELSE Alphabet[codec]
  /\ first' = Append(first, b)
  /\ UNCHANGED <<codec, second>>

\* Long values: of a KID, of a KID context and of CoAP options.
Pad(n) ==
  /\ \/ codec = "option" /\ n = 8 /\ Len(first) \in 2..4
     \/ codec = "body" /\ n = 13 /\ Len(first) = 2 /\ first[1] % 16 = 13
     \/ codec = "body" /\ n = 269 /\ Len(first) = 3 /\ first[1] % 16 = 14
  /\ second = <<>>
  /\ first' = first \o [i \in 1..n |-> 1]
  /\ UNCHANGED <<codec, second>>

\* What comes after an identifier, a payload after options, another ID.
Follow(b) ==
  /\ \/ codec = "identifier" /\ Len(first) + Len(second) <= Longest["identifier"]
     \/ codec = "names" /\ Len(second) < Longest["names"]
     \/ codec = "body" /\ Len(second) < Longest["payload"] /\ OnlyOptions(first)
  /\ b \in Alphabet[codec]
  /\ second' = Append(second, b)
  /\ UNCHANGED <<codec, first>>

\* Number of the last of the options.
OptionNumber == IF second = <<>> THEN 0 ELSE second[Len(second)]

\* CoAP options as RFC 7252 encodes them, which is what an application hands
\* over, with values full of markers; `second` remembers their numbers.
Nibble(v) == IF v < 13 THEN v ELSE IF v < 269 THEN 13 ELSE 14
Extension(v) ==
  CASE v < 13 -> <<>>
    [] v \in 13..268 -> <<v - 13>>
    [] OTHER -> <<(v - 269) \div 256, (v - 269) % 256>>
CoapOption(delta, length) ==
  <<16 * Nibble(delta) + Nibble(length)>> \o Extension(delta) \o Extension(length)
    \o [i \in 1..length |-> MARKER]
AddOption(delta, length) ==
  /\ codec = "options" /\ Len(second) < Longest["options"]
  /\ first' = first \o CoapOption(delta, length)
  /\ second' = Append(second, OptionNumber + delta)
  /\ UNCHANGED codec

AddParameter(p) ==
  /\ codec = "parameters" /\ Len(second) < Longest["parameters"]
  /\ first' = first \o p.key \o p.value
  /\ second' = Append(second, p)
  /\ UNCHANGED codec

AddSuite(s) ==
  /\ codec = "suites" /\ Len(second) < Longest["suites"]
  /\ first' = first \o s.bytes
  /\ second' = Append(second, s.suite)
  /\ UNCHANGED codec

Next ==
  \/ \E p \in Parameters : AddParameter(p)
  \/ \E s \in Suites : AddSuite(s)
  \/ \E b \in Byte : Extend(b) \/ Follow(b)
  \/ \E n \in {8, 13, 269} : Pad(n)
  \/ \E delta \in Deltas, length \in Lengths : AddOption(delta, length)

Spec == Init /\ [][Next]_vars

-----------------------------------------------------------------------------

\* An identifier is read back as it was, and not a byte further, whatever
\* follows it in the plaintext; but for those that look like negative
\* integers.  (encode_identifier, parse_identifier)
IdentifierRoundTrip ==
  codec = "identifier" /\ ~(Len(first) = 1 /\ first[1] \in NegativeInts) =>
    parse_identifier(encode_identifier(first) \o second) =
      [id |-> first, consumed |-> Len(encode_identifier(first))]

\* The two parsers of an identifier, one in each role, never read different
\* identifiers from the same bytes, and the responder's never reads another
\* identifier than the one sent.  (responder.rs:263-279, parse_identifier)
IdentifierParsersAgree ==
  codec = "identifier" =>
    LET data == first \o second
        c == parse_identifier(data)
    IN /\ parse_c_i(data) # Unreadable /\ c # Unreadable => parse_c_i(data) = c.id
       /\ parse_c_i(encode_identifier(first)) \in {first, Unreadable}

\* Every number up to the last is read back from its Partial IV, and no other
\* byte string stands for it, so that a replayed number cannot come in another
\* spelling.  (encode_piv, from_piv)
PivRoundTrip ==
  codec = "piv" =>
    LET number == PivValue(first)
    IN /\ number <= MAX_SEQUENCE => from_piv(encode_piv(number)) = number
       /\ from_piv(first) # NoNumber => encode_piv(from_piv(first)) = first

\* What a side takes for the peer's ID_CRED in the transcript is a map that
\* names the same credential, whatever spelling came, and depends on no byte
\* after it.  (parse_id_cred, IdCred::encoded)
IdCredCanonical ==
  codec = "id_cred" /\ Accepted(first) =>
    LET c == parse_id_cred(first)
    IN /\ c.consumed <= Len(first)
       /\ parse_id_cred(c.encoded) = [c EXCEPT !.consumed = Len(c.encoded)]
       /\ \A tail \in {<<>>, <<4>>, <<88, 48>>, <<161>>} :
            parse_id_cred(SubSeq(first, 1, c.consumed) \o tail) = c

\* A map is accepted if and only if it is not too long, each of its values would
\* be taken alone, no label comes twice and it refers to one credential; the
\* reference is then the value of that label, and never bytes within another
\* value.  (parse_id_cred)
IdCredUnderstood ==
  codec = "parameters" =>
    LET n == Len(second)
        data == <<160 + n>> \o first
        labels == [i \in 1..n |-> second[i].label]
        references == {i \in 1..n : labels[i] \in {4, 34}}
        c == parse_id_cred(data \o <<88, 48>>)
    IN IF /\ n <= ID_CRED_MAX_PARAMETERS /\ Len(data) <= ID_CRED_MAX_LEN
          /\ \A i \in 1..n : second[i].good
          /\ \A i, j \in 1..n : labels[i] = labels[j] => i = j \/ labels[i] = TextLabel
          /\ Cardinality(references) = 1
       THEN LET p == second[CHOOSE i \in references : TRUE]
            IN /\ c # Unreadable
               /\ c.encoded = data /\ c.consumed = Len(data)
               /\ c.kid = IF p.label = 4 THEN parse_bstr(p.value).value ELSE Unreadable
               /\ c.x5t = IF p.label = 34 THEN parse_x5t_value(p.value).value ELSE Unreadable
       ELSE c = Unreadable

\* Public keys and their digests.
Key(name) == name \o [i \in 1..(32 - Len(name)) |-> 7]
Digest(name) == [i \in 1..32 |-> IF i <= Len(name) THEN name[i] ELSE 200]

\* What a list of n elements may begin with.
ListHeads(n) == {<<128 + n>>, <<152, n>>}

\* "the FIRST element is the selected suite" (cbor.rs:169, cbor.rs:274): whatever
\* a list of suites begins with, no other element of it is ever selected.
\* (parse_suites_i)
FirstSuiteSelected ==
  codec = "suites" /\ second # <<>> =>
    \A head \in ListHeads(Len(second)) :
      LET selected == parse_suites_i(head \o first \o <<88, 32>>)
      IN selected # Unreadable => selected.suite = second[1]

SuiteListRead(head, n, suite) ==
  LET list == head \o first
      data == list \o <<88, 32>>
  IN /\ suite # Wide =>
          parse_suites_i(data) = [suite |-> suite, consumed |-> Len(list)]
     /\ (\A i \in 1..n : second[i] = Wide) => parse_suites_i(data) = Unreadable
     /\ parse_suites_i(data) # Unreadable =>
          parse_suites_i(data).consumed = Len(list)
     /\ Len(first) = n => parse_suites_r(data) = Len(list)
     /\ n = 1 /\ suite # Wide =>
          /\ parse_suites_i(first \o <<88>>) = [suite |-> suite, consumed |-> Len(first)]
          /\ parse_suites_r(first) = Len(first)

\* A list that begins with a suite a byte holds has that one selected, whatever
\* follows it, and one of negative or wider integers alone is refused; what
\* follows a list begins where the list ends.  Which suite is selected is left
\* out for lists that begin with a negative or wider integer and go on with a
\* suite: there the code departs from FirstSuiteSelected.
\* (parse_suites_i; parse_suites_r on suites below 24)
SuitesRead ==
  codec = "suites" /\ second # <<>> =>
    \A head \in ListHeads(Len(second)) : SuiteListRead(head, Len(second), second[1])

\* With raw keys every message of the handshake fits its buffers and those of
\* the side that reads it, whatever the identifiers are.
\* (transcript.rs, kdf.rs, create_message_1 and the calls after it)
RawKeysFit ==
  codec = "identifier" =>
    LET id == Len(encode_identifier(first))
        raw == [id_cred |-> Len(encode_id_cred(Digest(<<>>))),
                credential |-> Len(encode_credential(Key(<<>>)))]
    IN /\ Message1Fits(id)
       /\ \A sig \in SIG_LEN : Message2Fits(id, raw, sig) /\ Message3Fits(raw, sig)

\* The options of requests and responses are read back field by field,
\* whatever the KID, the context and the Partial IV are, an empty KID or context
\* told from none; and an option that is accepted is the only encoding of its
\* fields.  (protect_request_reserved, parse_option)
OptionRoundTrip ==
  /\ codec = "names" =>
       \A piv \in Pivs, kid_context \in Contexts \cup {second} :
         LET request == request_option(piv, kid_context, first)
         IN /\ parse_option(request) =
                 [piv |-> piv, kid_context |-> kid_context, kid |-> first]
            /\ request_identifiers(request) = [kid |-> first, piv |-> piv]
            /\ parse_option(response_option(piv)) =
                 [piv |-> piv, kid_context |-> Absent, kid |-> Absent]
  /\ codec = "option" /\ first # <<>> =>
       LET o == parse_option(first)
           kid == IF o.kid = Absent THEN <<>> ELSE o.kid
           encoded == request_option(o.piv, o.kid_context, kid)
       IN o # Invalid =>
            first = IF o.kid = Absent THEN [encoded EXCEPT ![1] = @ - 8] ELSE encoded

\* Messages of two senders, or with two numbers, never share a nonce, nor
\* additional data.  (compute_nonce, build_aad_cbor)
NoncesApart ==
  codec = "names" =>
    LET Nonces(id) == [piv \in Pivs |-> compute_nonce(id, piv, CommonIv)]
        n == Nonces(first)
        m == Nonces(second)
    IN \A p, q \in Pivs :
         n[p] = m[q] \/ build_aad_cbor(first, p) = build_aad_cbor(second, q) =>
           first = second /\ p = q

\* Keys, Common IVs and context identifiers come from different inputs unless
\* ID, ID context and salt are the same, no ID context and an empty one being
\* different.  (build_info_cbor, derive_context_id)
ContextsApart ==
  codec = "names" =>
    \A c, d \in Contexts :
      /\ KeyInfo(first, c) = KeyInfo(second, d) => first = second /\ c = d
      /\ IvInfo(c) = IvInfo(d) => c = d
      /\ KeyInfo(first, c) # IvInfo(d)
      /\ \A salt, other \in Salts :
           derive_context_id(salt, c, first) = derive_context_id(other, d, second) =>
             salt = other /\ c = d /\ first = second

\* Options that pass preflight_protect_response are split from any payload just
\* where they were joined, though values may hold the marker's byte.
\* (protect_response, unprotect_request)
BodySplit ==
  codec = "body" /\ OnlyOptions(first) =>
    \A checked \in BOOLEAN :
      take_apart(Body(first, second), checked) = [options |-> first, payload |-> second]

\* The two parsers of a body agree on every byte string, unless one delta
\* exceeds 16 bits, where a build with overflow checks stops; and options
\* encoded as RFC 7252 has it are understood, up to the last option number and
\* no further.  (parse_inner_body, find_payload_marker)
BodyParsersAgree ==
  /\ codec = "body" =>
       LET parsed == parse_inner_body(first)
           checked == take_apart(first, TRUE)
       IN /\ checked \in {parsed, Panicked}
          /\ checked = Panicked => parsed = Malformed
          /\ take_apart(first, FALSE) = parsed \/ checked = Panicked
  /\ codec = "options" =>
       parse_inner_body(first) =
         IF OptionNumber < U16 THEN [options |-> first, payload |-> <<>>] ELSE Malformed

\* No build accepts options beyond the last option number.
\* (find_payload_marker, lib.rs:3331)
OverflowRefused ==
  codec = "options" /\ OptionNumber >= U16 =>
    \A checked \in BOOLEAN : take_apart(first, checked) = Malformed

=============================================================================
