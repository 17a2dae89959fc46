--------------------------- MODULE EdhocCredential ---------------------------
(***************************************************************************)
(* Credential references, raw-key credentials and cipher-suite lists, byte *)
(* by byte (src/edhoc/credential.rs and src/edhoc/cbor.rs).  A parser that *)
(* refuses returns Unreadable, or 0 when it returns only a length.         *)
(***************************************************************************)
EXTENDS EdhocIdentifiers, FiniteSets, SequencesExt

ID_CRED_MAX_LEN == 64
ID_CRED_MAX_PARAMETERS == 8

\* CBOR major types.
Uint == 0
Negative == 1
Bstr == 2
Text == 3
Array == 4
Map == 5

\* What a parser returns: what it read, and how many bytes that took.
Reading(values) == [value : values, consumed : Nat]
Thumbprints == [algorithm : Int, hash : Seq(Byte)]
Kids == Seq(Byte)
IdCreds == [encoded : Seq(Byte), kid : Kids \cup {Unreadable}, x5t : Thumbprints \cup {Unreadable},
            consumed : Nat]

\* What the loops over an array of algorithms, a map and a list of suites carry
\* along.
AlgState == [offset : Nat, seen : SUBSET Int]
MapState == [offset : Nat, labels : SUBSET Int, kid : Kids \cup {Unreadable},
             x5t : Thumbprints \cup {Unreadable}]
SuiteState == [offset : Nat, selected : Byte \cup {Unreadable}]

\* A refusal is none of what can be read.
ASSUME UnreadableAssumption ==
  /\ Unreadable \notin Int \cup Kids \cup Thumbprints \cup IdCreds
  /\ Unreadable \notin Reading(Int) \cup Reading(Kids) \cup Reading(Thumbprints)
  /\ Unreadable \notin AlgState \cup MapState \cup SuiteState
  /\ Unreadable \notin [suite : Byte, consumed : Nat]

\* data[n..]
From(data, n) == SubSeq(data, n + 1, Len(data))

\* The first byte of an item and the argument after it, in at most two more
\* bytes: `width` bytes in all, 0 when they are not there or not understood.
NoHead == [major |-> Map, width |-> 0, argument |-> 0, minimal |-> FALSE]
HeadWidth(info) == CASE info < 24 -> 1 [] info = 24 -> 2 [] info = 25 -> 3 [] OTHER -> 0
HeadOf(data, width) ==
  IF width = 0 \/ width > Len(data) THEN NoHead
  ELSE CASE width = 1 -> [major |-> data[1] \div 32, width |-> 1, argument |-> data[1] % 32,
                          minimal |-> TRUE]
         [] width = 2 -> [major |-> data[1] \div 32, width |-> 2, argument |-> data[2],
                          minimal |-> data[2] >= 24]
         [] OTHER -> [major |-> data[1] \div 32, width |-> 3,
                      argument |-> 256 * data[2] + data[3], minimal |-> data[2] > 0]
CborHead(data) ==
  IF data = <<>> THEN NoHead ELSE HeadOf(data, HeadWidth(data[1] % 32))

IntWidth(h) == IF h.major \in {Uint, Negative} THEN h.width ELSE 0
skip_int_value(data) == IntWidth(CborHead(data))

\* Only the shortest encoding of an integer is one.
IntOf(h) ==
  IF h.major \in {Uint, Negative} /\ h.minimal
  THEN [value |-> IF h.major = Uint THEN h.argument ELSE -1 - h.argument,
        consumed |-> h.width]
  ELSE Unreadable
try_parse_cbor_int(data) == IntOf(CborHead(data))

BstrOf(data, h) ==
  IF h.major = Bstr /\ Len(data) >= h.width + h.argument
  THEN [value |-> SubSeq(data, h.width + 1, h.width + h.argument),
        consumed |-> h.width + h.argument]
  ELSE Unreadable
parse_bstr(data) == BstrOf(data, CborHead(data))

CanonicalBstrOf(data, h) == IF h.minimal THEN BstrOf(data, h) ELSE Unreadable
parse_canonical_bstr(data) == CanonicalBstrOf(data, CborHead(data))

\* encode_bstr of EdhocIdentifiers for every length; the two functions of the
\* source are the same code.
append_cbor_bstr(data) ==
  LET n == Len(data)
  IN CASE n <= 23 -> <<64 + n>> \o data
       [] n \in 24..255 -> <<88, n>> \o data
       [] OTHER -> <<89, n \div 256, n % 256>> \o data

\* Where an item with head h that begins at `start` ends, if it has no items
\* in it: 0 when it is cut or not understood.
ItemEnd(data, start, h) ==
  CASE h.width > 0 /\ h.major \in {Uint, Negative} -> start + h.width
    [] h.width \in {1, 2} /\ h.major \in {Bstr, Text}
         /\ start + h.width + h.argument <= Len(data) -> start + h.width + h.argument
    [] OTHER -> 0

\* What is left to skip: so many items, from an offset on.
ToSkip == [items : Nat, offset : Nat]

\* Behind the first of them, or behind its head if it is an array, whose items
\* are then the next; at 0 when it is cut or not understood.
AfterItem(data, at, h) ==
  IF h.major = Array /\ h.width \in {1, 2}
  THEN [items |-> at.items - 1 + h.argument, offset |-> at.offset + h.width]
  ELSE [items |-> at.items - 1, offset |-> ItemEnd(data, at.offset, h)]
SkipItem(data, at) == AfterItem(data, at, CborHead(From(data, at.offset)))

\* Length of the first item: integers, strings and arrays, nested at will.
skip_cbor_value(data) ==
  LET Past[at \in ToSkip] ==
        IF at.items = 0 THEN at.offset
        ELSE IF SkipItem(data, at).offset = 0 THEN 0
        ELSE Past[SkipItem(data, at)]
  IN Past[[items |-> 1, offset |-> 0]]

-----------------------------------------------------------------------------
(* ID_CRED.                                                                *)

\* One member of the array of an alg parameter: neither a label that could be
\* taken for another parameter, nor a repetition.
AlgMember(s, int, size) ==
  CASE int # Unreadable ->
         IF int.value \in {1, 34} \cup s.seen \/ Cardinality(s.seen) = ID_CRED_MAX_PARAMETERS
         THEN Unreadable
         ELSE [offset |-> s.offset + int.consumed, seen |-> s.seen \cup {int.value}]
    [] int = Unreadable /\ size > 0 -> [s EXCEPT !.offset = @ + size]
    [] OTHER -> Unreadable
AlgItem(data, s) ==
  IF s = Unreadable THEN s
  ELSE AlgMember(s, try_parse_cbor_int(From(data, s.offset)),
                 skip_cbor_value(From(data, s.offset)))

AlgArray(data, n) ==
  LET Read[i \in Nat] ==
        IF i = 0 THEN [offset |-> 1, seen |-> {}] ELSE AlgItem(data, Read[i - 1])
  IN Read[n]

ValueEnd(s) == IF s = Unreadable THEN 0 ELSE s.offset

AlgValue(data, h) ==
  CASE h.major \in {Uint, Negative} -> h.width
    [] h.major = Array /\ h.width = 1 -> ValueEnd(AlgArray(data, h.argument))
    [] OTHER -> 0
validate_alg_value(data) == AlgValue(data, CborHead(data))

\* An algorithm and a thumbprint.
Thumbprint(alg, hash) ==
  IF hash = Unreadable THEN Unreadable
  ELSE IF Len(hash.value) > ID_CRED_MAX_LEN THEN Unreadable
  ELSE [value |-> [algorithm |-> alg.value, hash |-> hash.value],
        consumed |-> 1 + alg.consumed + hash.consumed]
ThumbprintAfter(data, alg) ==
  IF alg = Unreadable THEN Unreadable
  ELSE Thumbprint(alg, parse_bstr(From(data, 1 + alg.consumed)))
parse_x5t_value(data) ==
  IF data = <<>> \/ data[1] # 130 THEN Unreadable
  ELSE ThumbprintAfter(data, try_parse_cbor_int(From(data, 1)))

\* What is read so far of a map: the labels met, each at most once, and the
\* references found.
Pass(s, label, size) ==
  IF size = 0 THEN Unreadable
  ELSE [s EXCEPT !.offset = @ + size,
                 !.labels = IF label = Unreadable THEN @ ELSE @ \cup {label}]
TakeKid(s, kid) ==
  IF kid = Unreadable THEN Unreadable
  ELSE IF Len(kid.value) > ID_CRED_MAX_LEN THEN Unreadable
  ELSE [Pass(s, 4, kid.consumed) EXCEPT !.kid = kid.value]
TakeX5t(s, x5t) ==
  IF x5t = Unreadable THEN Unreadable
  ELSE [Pass(s, 34, x5t.consumed) EXCEPT !.x5t = x5t.value]

\* A value, after its key.
IdCredValue(value, s, label) ==
  CASE label = 1 -> Pass(s, label, skip_int_value(value))
    [] label = 2 -> Pass(s, label, validate_alg_value(value))
    [] label = 4 -> TakeKid(s, parse_canonical_bstr(value))
    [] label = 34 -> TakeX5t(s, parse_x5t_value(value))
    [] OTHER -> Pass(s, label, skip_cbor_value(value))

\* Mutant of AfterKey: a label may come again.
AfterAnyKey(data, s, label, size) ==
  IF size = 0 THEN Unreadable
  ELSE IdCredValue(From(data, s.offset + size), [s EXCEPT !.offset = @ + size], label)

\* A key and its value; a key that is no integer may be any item.
AfterKey(data, s, label, size) ==
  IF label \in s.labels \/ size = 0 THEN Unreadable
  ELSE IdCredValue(From(data, s.offset + size), [s EXCEPT !.offset = @ + size], label)
IntKey(data, s, int) ==
  IF int = Unreadable
  THEN AfterKey(data, s, Unreadable, skip_cbor_value(From(data, s.offset)))
  ELSE AfterKey(data, s, int.value, int.consumed)
IdCredPair(data, s) ==
  IF s = Unreadable THEN s
  ELSE IntKey(data, s, try_parse_cbor_int(From(data, s.offset)))

\* Mutant of KidOnly: a kid sent as an integer stays an integer in the map.
KidAsSent(kid, consumed) ==
  LET encoded == <<161, 4>> \o IF consumed = Len(kid) THEN kid ELSE append_cbor_bstr(kid)
  IN [encoded |-> encoded, kid |-> kid, x5t |-> Unreadable, consumed |-> consumed]

\* A map whose only parameter is a kid, which compact spellings stand for.
KidOnly(kid, consumed) ==
  LET encoded == <<161, 4>> \o append_cbor_bstr(kid)
  IN IF Len(encoded) > ID_CRED_MAX_LEN THEN Unreadable
     ELSE [encoded |-> encoded, kid |-> kid, x5t |-> Unreadable, consumed |-> consumed]

\* Exactly one reference, in a map that is not too long.
WholeMap(data, s) ==
  IF s = Unreadable THEN Unreadable
  ELSE IF (s.kid = Unreadable) = (s.x5t = Unreadable) \/ s.offset > ID_CRED_MAX_LEN
  THEN Unreadable
  ELSE [encoded |-> SubSeq(data, 1, s.offset), kid |-> s.kid, x5t |-> s.x5t,
        consumed |-> s.offset]

NothingRead == [offset |-> 1, labels |-> {}, kid |-> Unreadable, x5t |-> Unreadable]
IdCredMap(data) ==
  LET Read[i \in Nat] == IF i = 0 THEN NothingRead ELSE IdCredPair(data, Read[i - 1])
  IN WholeMap(data, Read[data[1] - 160])

KidOf(bstr) == IF bstr = Unreadable THEN Unreadable ELSE KidOnly(bstr.value, bstr.consumed)
IdCredOf(data, h) ==
  CASE h.major \in {Uint, Negative} /\ h.width \in {1, 2} ->
         KidOnly(SubSeq(data, 1, h.width), h.width)
    [] h.major = Bstr /\ h.width \in {1, 2} -> KidOf(BstrOf(data, h))
    [] data # <<>> /\ data[1] \in 161..(160 + ID_CRED_MAX_PARAMETERS) -> IdCredMap(data)
    [] OTHER -> Unreadable
parse_id_cred(data) == IdCredOf(data, CborHead(data))

-----------------------------------------------------------------------------
(* Raw-key credentials.  The kid is the start of the key's SHA-256 digest. *)

encode_id_cred(digest) == <<161, 4, 72>> \o SubSeq(digest, 1, 8)

\* {kty: OKP, crv: Ed25519, x: the key}, the map's head included.
CoseKeyLayout == <<163, 1, 1, 32, 6, 33>>

encode_credential(pubkey) == CoseKeyLayout \o append_cbor_bstr(pubkey)

-----------------------------------------------------------------------------
(* Cipher suites.                                                          *)

\* Bytes of an integer of any width; 0 for anything else, and for what is cut.
SuiteBytes(first) ==
  CASE first >= 64 -> 0
    [] first < 64 /\ first % 32 < 24 -> 1
    [] first < 64 /\ first % 32 \in 24..27 -> <<2, 3, 5, 9>>[(first % 32) - 23]
    [] OTHER -> 0
SuiteWidth(data) ==
  IF data = <<>> THEN 0
  ELSE IF SuiteBytes(data[1]) > Len(data) THEN 0 ELSE SuiteBytes(data[1])

\* The suite an element names: none, when it is negative or wider.
SuiteOf(data) ==
  CASE data[1] < 24 -> data[1] [] data[1] = 24 -> data[2] [] OTHER -> Unreadable

\* Mutant of SuiteItem: the last suite is selected, not the first.
SuiteItemLast(s, rest) ==
  IF SuiteWidth(rest) = 0 THEN Unreadable
  ELSE [offset |-> s.offset + SuiteWidth(rest),
        selected |-> IF SuiteOf(rest) = Unreadable THEN s.selected ELSE SuiteOf(rest)]

SuiteItem(s, rest) ==
  IF SuiteWidth(rest) = 0 THEN Unreadable
  ELSE [offset |-> s.offset + SuiteWidth(rest),
        selected |-> IF s.selected = Unreadable THEN SuiteOf(rest) ELSE s.selected]
NextSuite(data, s) ==
  IF s = Unreadable THEN s ELSE SuiteItem(s, From(data, s.offset))
SuiteArray(data, width, n) ==
  LET Read[i \in Nat] ==
        IF i = 0 THEN [offset |-> width, selected |-> Unreadable]
        ELSE NextSuite(data, Read[i - 1])
  IN Read[n]

Selected(s) ==
  IF s = Unreadable THEN Unreadable
  ELSE IF s.selected = Unreadable THEN Unreadable
  ELSE [suite |-> s.selected, consumed |-> s.offset]

SuiteList(data, h) ==
  CASE h.major = Uint /\ h.width \in {1, 2} -> [suite |-> h.argument, consumed |-> h.width]
    [] h.major = Array /\ h.width \in {1, 2} ->
         Selected(SuiteArray(data, h.width, h.argument))
    [] OTHER -> Unreadable
parse_suites_i(data) == SuiteList(data, CborHead(data))

\* The elements are taken to have a byte each.
parse_suites_r(data) ==
  LET h == CborHead(data)
  IN CASE h.major = Uint /\ h.width \in {1, 2} -> h.width
       [] h.major = Array /\ h.width \in {1, 2} ->
            IF Len(data) >= h.width + h.argument THEN h.width + h.argument ELSE 0
       [] OTHER -> 0

=============================================================================
